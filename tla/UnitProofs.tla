----------------------------- MODULE UnitProofs ------------------------------
(***************************************************************************)
(* The units with a state of their own, for every value of their           *)
(* constants: rv_main with any number of envs, the memory and string       *)
(* functions with any word and any memory, the tools of the build host     *)
(* with any arguments, the ELF loader with any page size, address space    *)
(* and set of segments, traps with any contents of the registers, disk     *)
(* images of any size and of any tree of files.                            *)
(***************************************************************************)
EXTENDS Boot, StringOps, HostTools, ElfLoad, Frame, FsImage, SequenceTheorems, TallyProofs

(***************************************************************************)
(* rv_main.  An interrupt cannot come before w_sie, the last but one step, *)
(* and everything it needs is done by then.  rv_main is a concatenation,   *)
(* so that its elements are found first (RvMain).                          *)
(***************************************************************************)
Steps ==
  {"kinit", "kpgtable_init", "w_satp", "w_sstatus", "w_stvec", "env_init", "env_create",
   "ticks", "w_sie", "sbi_set_timer"}

creates == [k \in 1 .. NCREATE |-> "env_create"]

prologue == <<"kinit", "kpgtable_init", "w_satp", "w_satp", "w_sstatus", "w_stvec", "env_init">>

(* What \o does to two lists of steps, element by element.                  *)
LEMMA ConcatAt ==
  \A s, t \in Seq(Steps) :
    /\ s \o t \in Seq(Steps) /\ Len(s \o t) = Len(s) + Len(t)
    /\ \A k \in 1 .. Len(s) : (s \o t)[k] = s[k]
    /\ \A k \in 1 .. Len(t) : (s \o t)[Len(s) + k] = t[k]
  OBVIOUS

(* env_create is called NCREATE times in a row.                             *)
LEMMA CreatesSeq ==
  creates \in Seq(Steps) /\ Len(creates) = NCREATE /\ \A k \in 1..NCREATE : creates[k] = "env_create"
  BY BootAssumption DEF creates, Steps

(* The part in front of the calls of env_create has seven steps.            *)
LEMMA Prologue == prologue = <<"kinit", "kpgtable_init">> \o kvm_init \o kvm_init \o trapinit \o <<"env_init">>
<1>1. prologue \in Seq(Steps)
  BY DEF prologue, Steps
<1> QED BY <1>1 DEF prologue, kvm_init, trapinit

(* Which step of rv_main is at which position, for every NCREATE.           *)
LEMMA RvMain ==
  /\ Len(rv_main) = NCREATE + 10
  /\ rv_main[1] = "kinit" /\ rv_main[2] = "kpgtable_init" 
  /\ rv_main[3] = "w_satp" /\ rv_main[4] = "w_satp" /\ rv_main[5] = "w_sstatus"
  /\ rv_main[6] = "w_stvec" /\ rv_main[7] = "env_init"
  /\ \A k \in 8 .. NCREATE + 7 : rv_main[k] = "env_create"
  /\ rv_main[NCREATE + 8] = "ticks"
  /\ rv_main[NCREATE + 9] = "w_sie"
  /\ rv_main[NCREATE + 10] = "sbi_set_timer"
<1> DEFINE front == prologue \o creates
<1>1. prologue \in Seq(Steps) /\ Len(prologue) = 7
  BY DEF prologue, Steps
<1>2. timerinit \in Seq(Steps) /\ Len(timerinit) = 3
  BY DEF timerinit, Steps
<1>3. rv_main = front \o timerinit
  BY Prologue DEF rv_main, creates
<1>4. /\ front \in Seq(Steps) /\ Len(front) = 7 + NCREATE
      /\ \A k \in 1 .. 7 : front[k] = prologue[k]
      /\ \A k \in 1 .. NCREATE : front[7 + k] = creates[k]
  <2>1. /\ front \in Seq(Steps) /\ Len(front) = Len(prologue) + Len(creates)
        /\ \A k \in 1 .. Len(prologue) : front[k] = prologue[k]
        /\ \A k \in 1 .. Len(creates) : front[Len(prologue) + k] = creates[k]
    BY <1>1, CreatesSeq, ConcatAt, Zenon
  <2> HIDE DEF front
  <2> QED BY <2>1, <1>1, CreatesSeq, Zenon
<1> HIDE DEF front
<1>5. /\ Len(rv_main) = (7 + NCREATE) + 3
      /\ \A k \in 1 .. 7 + NCREATE : rv_main[k] = front[k]
      /\ \A k \in 1 .. 3 : rv_main[(7 + NCREATE) + k] = timerinit[k]
  <2>1. /\ Len(rv_main) = Len(front) + Len(timerinit)
        /\ \A k \in 1 .. Len(front) : rv_main[k] = front[k]
        /\ \A k \in 1 .. Len(timerinit) : rv_main[Len(front) + k] = timerinit[k]
    BY <1>2, <1>3, <1>4, ConcatAt, ZenonT(60)
  <2> QED BY <2>1, <1>2, <1>4, Zenon
<1>6. \A k \in 1 .. 7 : rv_main[k] = prologue[k]
  BY <1>4, <1>5, BootAssumption, SMTT(60)
<1>7. \A k \in 8 .. NCREATE + 7 : rv_main[k] = "env_create"
  <2> SUFFICES ASSUME NEW k \in 8 .. NCREATE + 7
             PROVE  rv_main[k] = "env_create"
    OBVIOUS
  <2>1. PICK j \in 1 .. NCREATE : k = 7 + j /\ k \in 1 .. 7 + NCREATE
    <3>1. k - 7 \in 1 .. NCREATE /\ k = 7 + (k - 7) /\ k \in 1 .. 7 + NCREATE
      BY BootAssumption
    <3> QED BY <3>1
  <2> QED BY <2>1, <1>4, <1>5, CreatesSeq
<1>8. \A k \in 1 .. 3 : rv_main[NCREATE + 7 + k] = timerinit[k]
  BY <1>5, BootAssumption
<1> QED BY <1>5, <1>6, <1>7, <1>8, BootAssumption DEF prologue, timerinit
-----------------------------------------------------------------------------
BootTypeOK ==
  /\ csr \in [sstatus : Nat, sie : {0, SIE_STIE}, sip : {0, SIP_STIP}, stvec : {START, KEXCENTRY},
              satp : {0, KERNEL_SATP, USER_SATP}, sscratch : {0, 1}]
  /\ step \in 1 .. NCREATE + 11
  /\ mode \in {"boot", "idle", "user"}
  /\ heap \in BOOLEAN /\ table \in BOOLEAN /\ inited \in BOOLEAN /\ armed \in BOOLEAN
  /\ envs \in 0 .. NCREATE
  /\ ticks \in 0 .. TICKS - 1

(* What rv_main has done when it is at step. *)
StepsTaken ==
  /\ step > 1 => heap
  /\ step > 2 => table
  /\ step > 3 => csr.satp # 0
  /\ step > 6 => csr.stvec = KEXCENTRY
  /\ step > 7 => inited
  /\ step <= 8 => envs = 0
  /\ step \in 8 .. NCREATE + 8 => envs = step - 8
  /\ step > NCREATE + 8 => envs = NCREATE
  /\ csr.sie # 0 <=> step > NCREATE + 9

(* The idle loop is behind rv_main, an env runs only once STIE was set, and *)
(* sscratch tells which of the two was interrupted.                         *)
ModeMatches ==
  /\ mode = "idle" => step > NCREATE + 10
  /\ mode = "user" => step > NCREATE + 9
  /\ csr.sscratch # 0 <=> mode = "user"

(* An env never runs without a timer. *)
TimerRuns == mode = "user" => armed \/ csr.sip # 0

BootInv == BootTypeOK /\ StepsTaken /\ ModeMatches /\ TimerRuns
-----------------------------------------------------------------------------
(* The bit of the timer in sie and sip, which have no other one.            *)
LEMMA TimerBit ==
  /\ SIE_STIE = 32 /\ SIP_STIP = 32
  /\ Has(32, 32) /\ ~Has(0, 32)
  /\ Or(0, 32) = 32 /\ Or(32, 32) = 32
  /\ Clear(0, 32) = 0 /\ Clear(32, 32) = 0
<1>1. SIE_STIE = 32 /\ SIP_STIP = 32
  BY DEF SIE_STIE, SIP_STIP
<1>2. Has(32, 32) /\ ~Has(0, 32)
  BY DEF Has
<1> QED BY <1>1, <1>2 DEF Or, Clear

(* The step rv_main is about to take says where it is.                      *)
LEMMA Where ==
  ASSUME BootTypeOK
  PROVE  /\ \A s \in Steps : At(s) => mode = "boot" /\ step \in 1 .. NCREATE + 10 /\ rv_main[step] = s
         /\ At("kinit") => step = 1
         /\ At("kpgtable_init") => step = 2
         /\ At("w_satp") => step \in {3, 4}
         /\ At("w_sstatus") => step = 5
         /\ At("w_stvec") => step = 6
         /\ At("env_init") => step = 7
         /\ At("env_create") => step \in 8 .. NCREATE + 7
         /\ At("ticks") => step = NCREATE + 8
         /\ At("w_sie") => step = NCREATE + 9
         /\ At("sbi_set_timer") => step = NCREATE + 10
<1>1. \A s \in Steps : At(s) => mode = "boot" /\ step \in 1 .. NCREATE + 10 /\ rv_main[step] = s
  BY RvMain, BootAssumption DEF At, BootTypeOK
<1>2. \/ step \in {1, 2, 3, 4, 5, 6, 7, NCREATE + 8, NCREATE + 9, NCREATE + 10, NCREATE + 11}
      \/ step \in 8 .. NCREATE + 7
  BY BootAssumption DEF BootTypeOK
<1>3. \A s : At(s) => rv_main[step] = s /\ step # NCREATE + 11
  BY RvMain, BootAssumption DEF At, BootTypeOK
<1>4. At("kinit") => step = 1
  BY <1>2, <1>3, RvMain, SMTT(30)
<1>5. At("kpgtable_init") => step = 2
  BY <1>2, <1>3, RvMain
<1>6. At("w_satp") => step \in {3, 4}
  BY <1>2, <1>3, RvMain
<1>7. At("w_sstatus") => step = 5
  BY <1>2, <1>3, RvMain
<1>8. At("w_stvec") => step = 6
  BY <1>2, <1>3, RvMain
<1>9. At("env_init") => step = 7
  BY <1>2, <1>3, RvMain
<1>10. At("env_create") => step \in 8 .. NCREATE + 7
  BY <1>2, <1>3, RvMain
<1>11. At("ticks") => step = NCREATE + 8
  BY <1>2, <1>3, RvMain
<1>12. At("w_sie") => step = NCREATE + 9
  BY <1>2, <1>3, RvMain
<1>13. At("sbi_set_timer") => step = NCREATE + 10
  BY <1>2, <1>3, RvMain, SMTT(30)
<1> QED BY <1>1, <1>4, <1>5, <1>6, <1>7, <1>8, <1>9, <1>10, <1>11, <1>12, <1>13

(* BootInv holds at the start.                                              *)
LEMMA BootInvInit == BootInit => BootInv
<1> SUFFICES ASSUME BootInit PROVE BootInv
  OBVIOUS
<1>1. csr \in [sstatus : Nat, sie : {0}, sip : {0, SIP_STIP}, stvec : {START}, satp : {0}, sscratch : {0}]
  BY DEF BootInit, SSTATUS_SPIE, SSTATUS_SPP, SSTATUS_UPIE, SSTATUS_UIE
<1>2. BootTypeOK
  <2>1. csr \in [sstatus : Nat, sie : {0, SIE_STIE}, sip : {0, SIP_STIP}, stvec : {START, KEXCENTRY},
                 satp : {0, KERNEL_SATP, USER_SATP}, sscratch : {0, 1}]
    BY <1>1
  <2>2. step = 1 /\ mode = "boot" /\ ~heap /\ ~table /\ ~inited /\ envs = 0 /\ ~armed /\ ticks = 0
    BY DEF BootInit
  <2>3. heap \in BOOLEAN /\ table \in BOOLEAN /\ inited \in BOOLEAN /\ armed \in BOOLEAN
    BY DEF BootInit
  <2> QED BY <2>1, <2>2, <2>3, BootAssumption DEF BootTypeOK, TICKS
<1>3. StepsTaken
  BY <1>1, BootAssumption DEF BootInit, StepsTaken
<1>4. ModeMatches /\ TimerRuns
  BY <1>1, BootAssumption DEF BootInit, ModeMatches, TimerRuns
<1> QED BY <1>2, <1>3, <1>4 DEF BootInv

(* No interrupt is taken before everything it needs is there.               *)
LEMMA NeverStray == BootInv /\ Interruptible => ~Stray
<1> SUFFICES ASSUME BootInv, Interruptible PROVE ~Stray
  OBVIOUS
<1>1. csr.sie # 0
  BY TimerBit DEF Interruptible
<1>2. step > NCREATE + 9
  BY <1>1 DEF BootInv, StepsTaken
<1>3. step > 3 /\ step > 6 /\ step > NCREATE + 8 /\ NCREATE # 0
  BY <1>2, BootAssumption DEF BootInv, BootTypeOK
<1>4. csr.satp # 0 /\ csr.stvec = KEXCENTRY /\ envs = NCREATE
  BY <1>3 DEF BootInv, StepsTaken
<1> QED BY <1>3, <1>4 DEF Stray, Interruptible, BootInv, ModeMatches

(* Every step keeps BootInv.                                                *)
LEMMA BootInvNext == BootInv /\ [BootNext]_bootvars => BootInv'
<1> SUFFICES ASSUME BootInv, [BootNext]_bootvars PROVE BootInv'
  OBVIOUS
<1> USE BootAssumption
<1>1. CASE kinit
  <2>1. mode = "boot" /\ step = 1
    BY <1>1, Where DEF kinit, BootInv, Steps
  <2> QED BY <2>1, <1>1, TimerBit DEF kinit, Goes, BootInv, BootTypeOK, StepsTaken, ModeMatches, TimerRuns
<1>2. CASE kpgtable_init
  <2>1. mode = "boot" /\ step = 2
    BY <1>2, Where DEF kpgtable_init, BootInv, Steps
  <2> QED BY <2>1, <1>2, TimerBit DEF kpgtable_init, Goes, BootInv, BootTypeOK, StepsTaken, ModeMatches, TimerRuns
<1>3. CASE WriteSatp
  <2>1. mode = "boot" /\ step \in {3, 4}
    BY <1>3, Where DEF WriteSatp, BootInv, Steps
  <2> QED BY <2>1, <1>3, TimerBit DEF WriteSatp, Goes, BootInv, BootTypeOK, StepsTaken, ModeMatches, TimerRuns, w_satp, KERNEL_SATP
<1>4. CASE WriteSstatus
  <2>1. mode = "boot" /\ step = 5
    BY <1>4, Where DEF WriteSstatus, BootInv, Steps
  <2> QED BY <2>1, <1>4, TimerBit DEF WriteSstatus, Goes, BootInv, BootTypeOK, StepsTaken, ModeMatches, TimerRuns, w_sstatus, SSTATUS_SIE
<1>5. CASE WriteStvec
  <2>1. mode = "boot" /\ step = 6
    BY <1>5, Where DEF WriteStvec, BootInv, Steps
  <2> QED BY <2>1, <1>5, TimerBit DEF WriteStvec, Goes, BootInv, BootTypeOK, StepsTaken, ModeMatches, TimerRuns, w_stvec
<1>6. CASE env_init
  <2>1. mode = "boot" /\ step = 7
    BY <1>6, Where DEF env_init, BootInv, Steps
  <2> QED BY <2>1, <1>6, TimerBit DEF env_init, Goes, BootInv, BootTypeOK, StepsTaken, ModeMatches, TimerRuns
<1>7. CASE env_create
  <2>1. mode = "boot" /\ step \in 8 .. NCREATE + 7
    BY <1>7, Where DEF env_create, BootInv, Steps
  <2> QED BY <2>1, <1>7, TimerBit DEF env_create, Goes, BootInv, BootTypeOK, StepsTaken, ModeMatches, TimerRuns
<1>8. CASE ResetTicks
  <2>1. mode = "boot" /\ step = NCREATE + 8
    BY <1>8, Where DEF ResetTicks, BootInv, Steps
  <2> QED BY <2>1, <1>8, TimerBit DEF ResetTicks, Goes, BootInv, BootTypeOK, StepsTaken, ModeMatches, TimerRuns, TICKS
<1>9. CASE WriteSie
  <2>1. mode = "boot" /\ step = NCREATE + 9
    BY <1>9, Where DEF WriteSie, BootInv, Steps
  <2> QED BY <2>1, <1>9, TimerBit DEF WriteSie, Goes, BootInv, BootTypeOK, StepsTaken, ModeMatches, TimerRuns, w_sie, r_sie
<1>10. CASE SetTimer
  <2>1. mode = "boot" /\ step = NCREATE + 10
    BY <1>10, Where DEF SetTimer, BootInv, Steps
  <2> QED BY <2>1, <1>10, TimerBit DEF SetTimer, Goes, BootInv, BootTypeOK, StepsTaken, ModeMatches, TimerRuns, sbi_set_timer
<1>11. CASE Spin
  <2>1. mode = "idle" \/ (mode = "boot" /\ step > NCREATE + 10)
    BY <1>11, RvMain DEF Spin
  <2> QED BY <2>1, <1>11 DEF Spin, BootInv, BootTypeOK, StepsTaken, ModeMatches, TimerRuns
<1>12. CASE TimerExpires
  <2>1. BootTypeOK'
    BY <1>12, TimerBit DEF TimerExpires, BootInv, BootTypeOK
  <2>2. StepsTaken'
    BY <1>12, TimerBit DEF TimerExpires, BootInv, BootTypeOK, StepsTaken
  <2>3. ModeMatches' /\ TimerRuns'
    BY <1>12, TimerBit DEF TimerExpires, BootInv, BootTypeOK, ModeMatches, TimerRuns
  <2> QED BY <2>1, <2>2, <2>3 DEF BootInv
<1>13. CASE TimerInterrupt
  <2>1. ~Stray
    BY <1>13, NeverStray DEF TimerInterrupt
  <2>2. step > NCREATE + 9
    BY <1>13, TimerBit DEF TimerInterrupt, Interruptible, BootInv, StepsTaken
  <2>3. (ticks + 1) % TICKS \in 0 .. TICKS - 1
    BY DEF BootInv, BootTypeOK, TICKS
  <2>4. /\ mode' = "user" /\ armed' = TRUE /\ ticks' = (ticks + 1) % TICKS
        /\ csr' = [csr EXCEPT !.sip = Clear(csr.sip, SIP_STIP), !.sstatus = SSTATUS_SPIE + SSTATUS_SIE,
                              !.satp = USER_SATP, !.sscratch = 1]
        /\ UNCHANGED <<step, heap, table, inited, envs>>
    BY <2>1, <1>13 DEF TimerInterrupt
  <2>5. /\ csr'.satp # 0 /\ csr'.stvec = csr.stvec /\ csr'.sie = csr.sie /\ csr'.sscratch # 0
        /\ csr' \in [sstatus : Nat, sie : {0, SIE_STIE}, sip : {0, SIP_STIP}, stvec : {START, KEXCENTRY},
                     satp : {0, KERNEL_SATP, USER_SATP}, sscratch : {0, 1}]
    <3>1. Clear(csr.sip, SIP_STIP) = 0 /\ SSTATUS_SPIE + SSTATUS_SIE \in Nat /\ USER_SATP # 0
      BY TimerBit DEF BootInv, BootTypeOK, SSTATUS_SPIE, SSTATUS_SIE, USER_SATP
    <3>2. csr' = [sstatus |-> SSTATUS_SPIE + SSTATUS_SIE, sie |-> csr.sie, sip |-> 0, stvec |-> csr.stvec,
                  satp |-> USER_SATP, sscratch |-> 1]
      BY <2>4, <3>1 DEF BootInv, BootTypeOK
    <3> QED BY <3>1, <3>2 DEF BootInv, BootTypeOK
  <2>6. BootTypeOK'
    BY <2>3, <2>4, <2>5 DEF BootInv, BootTypeOK
  <2>7. StepsTaken'
    BY <2>4, <2>5 DEF BootInv, StepsTaken
  <2>8. ModeMatches' /\ TimerRuns'
    BY <2>2, <2>4, <2>5 DEF ModeMatches, TimerRuns
  <2> QED BY <2>6, <2>7, <2>8 DEF BootInv
<1>14. CASE UNCHANGED bootvars
  BY <1>14 DEF bootvars, BootInv, BootTypeOK, StepsTaken, ModeMatches, TimerRuns
<1> QED
  BY <1>1, <1>2, <1>3, <1>4, <1>5, <1>6, <1>7, <1>8, <1>9, <1>10, <1>11, <1>12, <1>13, <1>14 DEF BootNext, BootStep

(* BootInv is an invariant of rv_main with its interrupts, whatever the     *)
(* number of envs it creates.                                               *)
THEOREM BootInvariance == BootSpec => []BootInv
<1> QED BY BootInvInit, BootInvNext, PTL DEF BootSpec

(* The first interrupt finds its handler, the kernel's stack, paging and    *)
(* the envs, wherever in rv_main or behind it this comes, and leaves        *)
(* nothing undone: all envs are on the list, and the timer is set again.    *)
THEOREM BootIsComplete == BootSpec => []NothingLeftBehind
<1>1. BootInv => NothingLeftBehind
  <2> SUFFICES ASSUME BootInv PROVE NothingLeftBehind
    OBVIOUS
  <2>1. mode # "crash" /\ ticks < TICKS
    BY DEF BootInv, BootTypeOK, TICKS
  <2>2. ASSUME mode = "user"
        PROVE  envs = NCREATE /\ csr.sie # 0 /\ (armed \/ csr.sip # 0)
    BY <2>2, BootAssumption DEF BootInv, BootTypeOK, StepsTaken, ModeMatches, TimerRuns
  <2>3. (csr.sie # 0 => Has(csr.sie, SIE_STIE)) /\ (csr.sip # 0 => Has(csr.sip, SIP_STIP))
    BY TimerBit DEF BootInv, BootTypeOK
  <2> QED BY <2>1, <2>2, <2>3 DEF NothingLeftBehind
<1> QED BY <1>1, BootInvariance, PTL
-----------------------------------------------------------------------------
(***************************************************************************)
(* lib/string.c.  The invariant says of every loop what it has done so     *)
(* far; that it has done the whole work when it stops follows.             *)
(***************************************************************************)
(* A memory with two strings. *)
Terminated(m) ==
  /\ m \in [Address -> Nat]
  /\ m[STRLEN - 1] = NUL /\ m[2 * STRLEN - 1] = NUL

(* The constants are numbers, and a string is in the memory. *)
LEMMA StringSizes ==
  /\ WORDSIZE \in Nat /\ WORDSIZE >= 1 /\ BYTES \in Nat /\ BYTES >= 1
  /\ STRLEN \in Nat /\ STRLEN >= 1 /\ SIZE \in Nat /\ 3 * STRLEN <= SIZE
  BY StringAssumption

(* Both strings of a call end.                                              *)
LEMMA StringMemory ==
  ASSUME NEW m \in Strings
  PROVE  Terminated(m)
<1>1. PICK f \in [0 .. 2 * STRLEN - 1 -> 0 .. 2] :
        /\ f[STRLEN - 1] = NUL /\ f[2 * STRLEN - 1] = NUL
        /\ m = [a \in Address |-> IF a < 2 * STRLEN THEN f[a] ELSE a]
  BY DEF Strings
<1>2. STRLEN - 1 \in Address /\ 2 * STRLEN - 1 \in Address /\ STRLEN - 1 < 2 * STRLEN /\ 2 * STRLEN - 1 < 2 * STRLEN
  BY StringSizes DEF Address
<1>3. \A a \in Address : a \in Nat /\ (a < 2 * STRLEN => a \in 0 .. 2 * STRLEN - 1)
  BY StringSizes DEF Address
<1>4. m \in [Address -> Nat]
  BY <1>1, <1>3
<1> QED BY <1>1, <1>2, <1>4 DEF Terminated

(* What C asks of the arguments of each function, and what the model adds.  *)
LEMMA CallShape ==
  ASSUME NEW c \in Calls
  PROVE  /\ c.fn = "memcpy" => /\ c.x \in Nat /\ c.y \in Nat /\ c.n \in Nat /\ c.mem = Distinct
                               /\ c.x + c.n <= SIZE /\ c.y + c.n <= SIZE
                               /\ c.x <= c.y \/ c.y + c.n <= c.x
         /\ c.fn = "memset" => /\ c.x \in Nat /\ c.y \in Nat /\ c.n \in Nat /\ c.mem = Distinct
                               /\ c.x + c.n <= SIZE
         /\ c.fn = "strlen" => c.x = 0 /\ c.mem \in Strings
         /\ c.fn = "strcpy" => c.x = 2 * STRLEN /\ c.y = 0 /\ c.mem \in Strings
         /\ c.fn = "strchr" => c.x = 0 /\ c.n \in 0 .. 1 /\ c.mem \in Strings
         /\ c.fn = "strcmp" => c.x = 0 /\ c.y = STRLEN /\ c.mem \in Strings
         /\ c.fn \in {"memcpy", "memset", "strlen", "strcpy", "strchr", "strcmp"}
<1>0. \A a \in Address : a \in Nat
  BY StringSizes DEF Address
<1>1. CASE c \in {d \in {Call("memcpy", x, y, n, Distinct) : x, y \in Address, n \in 0 .. SIZE} :
                   /\ d.x + d.n <= SIZE /\ d.y + d.n <= SIZE
                   /\ d.x <= d.y \/ d.y + d.n <= d.x}
  <2>1. PICK x, y \in Address, n \in 0 .. SIZE : c = Call("memcpy", x, y, n, Distinct)
    BY <1>1
  <2>2. /\ c.x + c.n <= SIZE /\ c.y + c.n <= SIZE
        /\ c.x <= c.y \/ c.y + c.n <= c.x
    BY <1>1
  <2>3. c.fn = "memcpy" /\ c.x = x /\ c.y = y /\ c.n = n /\ c.mem = Distinct
    BY <2>1 DEF Call
  <2> QED BY <1>0, <2>2, <2>3, StringSizes
<1>2. CASE c \in {d \in {Call("memset", x, y, n, Distinct) : x \in Address, y \in {0, BYTES + 1}, n \in 0 .. SIZE} :
                   d.x + d.n <= SIZE}
  <2>1. PICK x \in Address, y \in {0, BYTES + 1}, n \in 0 .. SIZE : c = Call("memset", x, y, n, Distinct)
    BY <1>2
  <2>2. c.x + c.n <= SIZE
    BY <1>2
  <2>3. c.fn = "memset" /\ c.x = x /\ c.y = y /\ c.n = n /\ c.mem = Distinct
    BY <2>1 DEF Call
  <2> QED BY <1>0, <2>2, <2>3, StringSizes
<1>3. CASE \/ c \in {Call("strlen", 0, 0, 0, m) : m \in Strings}
           \/ c \in {Call("strcpy", 2 * STRLEN, 0, 0, m) : m \in Strings}
           \/ c \in {Call("strchr", 0, 0, n, m) : n \in 0 .. 1, m \in Strings}
           \/ c \in {Call("strcmp", 0, STRLEN, 0, m) : m \in Strings}
  BY <1>3 DEF Call
<1> QED BY <1>1, <1>2, <1>3 DEF Calls

(* The first NUL of a string. *)
FirstNul(m, s, n) == n \in 0 .. STRLEN - 1 /\ m[s + n] = NUL /\ \A j \in 0 .. n - 1 : m[s + j] # NUL

(* strlen of a string is the place of its first NUL.                        *)
LEMMA LengthIs ==
  ASSUME NEW m, NEW s, NEW n, FirstNul(m, s, n)
  PROVE  Length(m, s) = n
<1>1. n \in Nat /\ n \in 0 .. STRLEN - 1
  BY StringSizes DEF FirstNul
<1>2. \A k \in 0 .. STRLEN - 1 : m[s + k] = NUL /\ (\A j \in 0 .. k - 1 : m[s + j] # NUL) => k = n
  BY <1>1, StringSizes DEF FirstNul
<1> QED BY <1>1, <1>2 DEF Length, FirstNul

(* A string that ends has a first NUL.                                      *)
LEMMA LengthExists ==
  ASSUME NEW m, Terminated(m)
  PROVE  FirstNul(m, 0, Length(m, 0))
<1> DEFINE T == {k \in 0 .. STRLEN - 1 : m[k] = NUL}
<1>1. STRLEN - 1 \in T /\ T \subseteq Nat
  BY StringSizes DEF Terminated
<1>2. PICK n \in T : \A k \in T : n <= k
  BY <1>1, Least
<1>3. n \in 0 .. STRLEN - 1 /\ m[n] = NUL /\ n \in Nat
  BY <1>2, StringSizes
<1>4. \A k \in 0 .. n - 1 : k \in 0 .. STRLEN - 1 /\ ~(n <= k)
  BY <1>3, StringSizes
<1>5. \A k \in 0 .. n - 1 : m[0 + k] # NUL
  BY <1>2, <1>4
<1>6. FirstNul(m, 0, n)
  BY <1>3, <1>5 DEF FirstNul
<1> QED BY <1>6, LengthIs

(* The memory after memset has been to p. *)
SetUpTo(m, x0, n, v) == [a \in Address |-> IF a \in x0 .. x0 + n - 1 THEN v ELSE m[a]]

(* Where the loops are, as long as they run. *)
Copying ==
  /\ p \in args.x .. max /\ q = args.y + (p - args.x)
  /\ bytes = Moved(args.mem, args.x, args.y, p - args.x)

Setting == p \in args.x .. max /\ bytes = SetUpTo(args.mem, args.x, p - args.x, args.y % BYTES)

Scanning ==
  /\ p \in 0 .. STRLEN - 1 /\ bytes = args.mem
  /\ \A k \in 0 .. p - 1 : args.mem[k] # NUL

StrCopying ==
  /\ q \in 0 .. STRLEN - 1 /\ p = args.x + q /\ bytes = Moved(args.mem, args.x, 0, q)
  /\ \A k \in 0 .. q - 1 : args.mem[k] # NUL

Searching == Scanning /\ \A k \in 0 .. p - 1 : args.mem[k] # args.n

Comparing == Scanning /\ q = STRLEN + p /\ \A k \in 0 .. p - 1 : args.mem[k] = args.mem[STRLEN + k]

StrInv ==
  /\ args \in Calls
  /\ In("memcpy") => Copying
  /\ In("memset") => Setting
  /\ In("strlen") => Scanning
  /\ In("strcpy") => StrCopying
  /\ In("strchr") => Searching
  /\ In("strcmp") => Comparing
  /\ StringsExact

(* No loop has done anything yet.                                           *)
LEMMA StrInvInit == StrInit => StrInv
<1> SUFFICES ASSUME StrInit PROVE StrInv
  OBVIOUS
<1>1. /\ args \in Calls /\ bytes = args.mem /\ p = args.x /\ q = args.y /\ ret = Running
  BY DEF StrInit, StrStart
<1>2. args.mem \in [Address -> Nat]
  <2>1. Distinct \in [Address -> Nat]
    BY StringSizes DEF Distinct, Address
  <2> QED BY <1>1, <2>1, CallShape, StringMemory DEF Terminated
<1>3. \A x0 \in Nat : \A a \in Address : ~(a \in x0 .. x0 + 0 - 1)
  BY StringSizes DEF Address
<1>4. ASSUME args.fn = "memcpy" PROVE Copying
  <2>1. /\ args.x \in Nat /\ args.y \in Nat /\ args.n \in Nat
    BY <1>1, <1>4, CallShape
  <2>2. p - args.x = 0 /\ q = args.y + (p - args.x) /\ p \in args.x .. max
    BY <1>1, <2>1 DEF max
  <2>3. bytes = Moved(args.mem, args.x, args.y, 0)
    BY <1>1, <1>2, <1>3, <2>1 DEF Moved
  <2> QED BY <2>2, <2>3 DEF Copying
<1>5. ASSUME args.fn = "memset" PROVE Setting
  <2>1. /\ args.x \in Nat /\ args.n \in Nat
    BY <1>1, <1>5, CallShape
  <2>2. p - args.x = 0 /\ p \in args.x .. max
    BY <1>1, <2>1 DEF max
  <2>3. bytes = SetUpTo(args.mem, args.x, 0, args.y % BYTES)
    BY <1>1, <1>2, <1>3, <2>1 DEF SetUpTo
  <2> QED BY <2>2, <2>3 DEF Setting
<1>6. ASSUME args.x = 0 PROVE Scanning
  BY <1>1, <1>6, StringSizes DEF Scanning
<1>7. ASSUME args.fn = "strcpy" PROVE StrCopying
  <2>1. args.x = 2 * STRLEN /\ args.y = 0
    BY <1>1, <1>7, CallShape
  <2>2. q = 0 /\ p = args.x + q /\ q \in 0 .. STRLEN - 1 /\ args.x \in Nat
    BY <1>1, <2>1, StringSizes
  <2>3. bytes = Moved(args.mem, args.x, 0, 0)
    BY <1>1, <1>2, <1>3, <2>2 DEF Moved
  <2> QED BY <2>2, <2>3 DEF StrCopying
<1>8. ASSUME args.fn = "strchr" PROVE Searching
  <2>1. args.x = 0
    BY <1>1, <1>8, CallShape
  <2> QED BY <1>1, <1>6, <2>1 DEF Searching
<1>9. ASSUME args.fn = "strcmp" PROVE Comparing
  <2>1. args.x = 0 /\ args.y = STRLEN
    BY <1>1, <1>9, CallShape
  <2> QED BY <1>1, <1>6, <2>1, StringSizes DEF Comparing
<1>10. ASSUME args.fn = "strlen" PROVE Scanning
  BY <1>1, <1>6, <1>10, CallShape
<1> QED BY <1>1, <1>4, <1>5, <1>7, <1>8, <1>9, <1>10 DEF StrInv, In, StringsExact

(* A function that returns has not stopped with the value of a running one. *)
LEMMA NotRunning == \A r \in Int : r >= -1 => r # Running
  BY DEF Running, NULLPTR

(* A copy of n bytes from y0 to x0 has come to its byte d, and k are next. *)
Piece(m, x0, y0, n, d, k) ==
  /\ m \in [Address -> Nat] /\ x0 \in Nat /\ y0 \in Nat /\ n \in Nat /\ d \in Nat /\ k \in Nat
  /\ x0 + n <= SIZE /\ y0 + n <= SIZE /\ d + k <= n
  /\ x0 <= y0 \/ y0 + n <= x0
  /\ p = x0 + d /\ q = y0 + d /\ bytes = Moved(m, x0, y0, d)

(* One more piece of k bytes. *)
LEMMA CopyPiece ==
  \A m, x0, y0, n, d, k : Piece(m, x0, y0, n, d, k) => Copied(k) = Moved(m, x0, y0, d + k)
<1> SUFFICES ASSUME NEW m, NEW x0, NEW y0, NEW n, NEW d, NEW k, Piece(m, x0, y0, n, d, k)
             PROVE  Copied(k) = Moved(m, x0, y0, d + k)
  OBVIOUS
<1> USE DEF Piece
<1> SUFFICES ASSUME NEW a \in Address
             PROVE  Copied(k)[a] = Moved(m, x0, y0, d + k)[a]
  BY DEF Copied, Moved
<1>1. a \in Nat /\ SIZE \in Nat
  BY StringSizes DEF Address
<1>2. CASE a \in p .. p + k - 1
  <2>1. q + a - p = y0 + a - x0 /\ y0 + a - x0 \in Address
    BY <1>1, <1>2 DEF Address
  <2>2. ~(y0 + a - x0 \in x0 .. x0 + d - 1)
    BY <1>1, <1>2
  <2>3. bytes[q + a - p] = m[y0 + a - x0]
    BY <2>1, <2>2 DEF Moved
  <2>4. a \in x0 .. x0 + (d + k) - 1
    BY <1>1, <1>2
  <2> QED BY <1>2, <2>3, <2>4 DEF Copied, Moved
<1>3. CASE a \notin p .. p + k - 1
  <2>1. a \in x0 .. x0 + (d + k) - 1 <=> a \in x0 .. x0 + d - 1
    BY <1>1, <1>3
  <2> QED BY <1>3, <2>1 DEF Copied, Moved
<1> QED BY <1>2, <1>3

(* The memory memcpy and memset are called with is one.                     *)
LEMMA DistinctMemory == Distinct \in [Address -> Nat]
  BY StringSizes DEF Distinct, Address

(* A round of memcpy. *)
LEMMA MemcpyKeeps ==
  ASSUME StrInv, memcpy
  PROVE  StrInv'
<1>1. /\ args.fn = "memcpy" /\ ret = Running /\ args' = args /\ Copying /\ args \in Calls
  BY DEF memcpy, In, Returns, Advance, StrInv
<1>2. /\ args.x \in Nat /\ args.y \in Nat /\ args.n \in Nat /\ args.mem = Distinct
      /\ args.x + args.n <= SIZE /\ args.y + args.n <= SIZE
      /\ args.x <= args.y \/ args.y + args.n <= args.x
  BY <1>1, CallShape
<1>3. PICK d \in Nat : d = p - args.x /\ p = args.x + d /\ d <= args.n
  <2>1. p \in args.x .. args.x + args.n
    BY <1>1 DEF Copying, max
  <2>2. p - args.x \in Nat /\ p = args.x + (p - args.x) /\ p - args.x <= args.n
    BY <1>2, <2>1
  <2> QED BY <2>2
<1>4. q = args.y + d /\ bytes = Moved(args.mem, args.x, args.y, d)
  BY <1>1, <1>3 DEF Copying
<1>5. CASE p >= max
  <2>1. d = args.n
    BY <1>2, <1>3, <1>5 DEF max
  <2>2. ret' = args.x /\ bytes' = bytes
    BY <1>1, <1>5 DEF memcpy, Returns
  <2>3. StringsExact'
    BY <1>1, <1>4, <2>1, <2>2 DEF StringsExact, Expected
  <2>4. ret' # Running
    BY <1>2, <2>2, NotRunning
  <2> QED BY <1>1, <2>3, <2>4 DEF StrInv, In, Running
<1>6. CASE ~(p >= max)
  <2>1. PICK k \in Nat : /\ d + k <= args.n
                        /\ bytes' = Copied(k) /\ q' = q + k /\ p' = p + k /\ ret' = ret
    <3> DEFINE k == IF Congruent /\ Wordwise THEN WORDSIZE ELSE 1
    <3>1. bytes' = Copied(k) /\ q' = q + k /\ p' = p + k /\ ret' = ret
      BY <1>6 DEF memcpy, Advance
    <3>2. k \in Nat /\ p + k <= max
      BY <1>2, <1>3, <1>6, StringSizes DEF Wordwise, max
    <3>3. d + k <= args.n
      BY <1>2, <1>3, <3>2 DEF max
    <3> QED BY <3>1, <3>2, <3>3
  <2>2. bytes' = Moved(args.mem, args.x, args.y, d + k)
    <3>1. args.mem \in [Address -> Nat]
      BY <1>2, DistinctMemory
    <3>2. Piece(args.mem, args.x, args.y, args.n, d, k)
      BY <1>2, <1>3, <1>4, <2>1, <3>1 DEF Piece
    <3>3. Copied(k) = Moved(args.mem, args.x, args.y, d + k)
      BY <3>2, CopyPiece, SMT
    <3> QED BY <2>1, <3>3
  <2>3. p' - args.x = d + k /\ q' = args.y + (p' - args.x) /\ p' \in args.x .. args.x + args.n
    BY <1>2, <1>3, <1>4, <2>1
  <2>4. Copying'
    BY <1>1, <2>2, <2>3 DEF Copying, max
  <2> QED BY <1>1, <2>1, <2>4 DEF StrInv, In, StringsExact
<1> QED BY <1>5, <1>6

(* A round of memset. *)
LEMMA MemsetKeeps ==
  ASSUME StrInv, memset
  PROVE  StrInv'
<1> DEFINE v == args.y % BYTES
<1>1. /\ args.fn = "memset" /\ ret = Running /\ args' = args /\ Setting /\ args \in Calls
  BY DEF memset, In, Returns, Advance, StrInv
<1>2. args.x \in Nat /\ args.n \in Nat /\ args.mem = Distinct /\ args.x + args.n <= SIZE
  BY <1>1, CallShape
<1>3. PICK d \in Nat : d = p - args.x /\ p = args.x + d /\ d <= args.n
  <2>1. p \in args.x .. args.x + args.n
    BY <1>1 DEF Setting, max
  <2>2. p - args.x \in Nat /\ p = args.x + (p - args.x) /\ p - args.x <= args.n
    BY <1>2, <2>1
  <2> QED BY <2>2
<1>4. bytes = SetUpTo(args.mem, args.x, d, v)
  BY <1>1, <1>3 DEF Setting
<1>5. CASE p >= max
  <2>1. d = args.n
    BY <1>2, <1>3, <1>5 DEF max
  <2>2. ret' = args.x /\ bytes' = bytes
    BY <1>1, <1>5 DEF memset, Returns
  <2>3. StringsExact'
    BY <1>1, <1>4, <2>1, <2>2 DEF StringsExact, Expected, SetUpTo
  <2>4. ret' # Running
    BY <1>2, <2>2, NotRunning
  <2> QED BY <1>1, <2>3, <2>4 DEF StrInv, In, Running
<1>6. CASE ~(p >= max)
  <2> HIDE DEF v
  <2>1. PICK k \in Nat : /\ d + k <= args.n /\ p' = p + k /\ ret' = ret
                        /\ bytes' = [a \in Address |-> IF a \in p .. p + k - 1 THEN v ELSE bytes[a]]
    <3> DEFINE k == IF Wordwise THEN WORDSIZE ELSE 1
    <3>1. /\ p' = p + k /\ ret' = ret
          /\ bytes' = [a \in Address |-> IF a \in p .. p + k - 1 THEN v ELSE bytes[a]]
      BY <1>6 DEF memset, Advance, v
    <3>2. k \in Nat /\ p + k <= max
      BY <1>2, <1>3, <1>6, StringSizes DEF Wordwise, max
    <3>3. d + k <= args.n
      BY <1>2, <1>3, <3>2 DEF max
    <3> QED BY <3>1, <3>2, <3>3
  <2>2. bytes' = SetUpTo(args.mem, args.x, d + k, v)
    <3> SUFFICES ASSUME NEW a \in Address
                 PROVE  bytes'[a] = SetUpTo(args.mem, args.x, d + k, v)[a]
      BY <2>1 DEF SetUpTo
    <3>1. a \in Nat
      BY StringSizes DEF Address
    <3>2. a \in args.x .. args.x + (d + k) - 1 <=> a \in p .. p + k - 1 \/ a \in args.x .. args.x + d - 1
      BY <1>2, <1>3, <2>1, <3>1
    <3> QED BY <1>4, <2>1, <3>2 DEF SetUpTo
  <2>3. p' - args.x = d + k /\ p' \in args.x .. args.x + args.n
    BY <1>2, <1>3, <2>1
  <2>4. Setting'
    BY <1>1, <2>2, <2>3 DEF Setting, max, v
  <2> QED BY <1>1, <2>1, <2>4 DEF StrInv, In, StringsExact
<1> QED BY <1>5, <1>6

(* A loop over a string stays in front of its end, and stops at the first   *)
(* NUL.                                                                     *)
LEMMA ScanStep ==
  ASSUME NEW m, Terminated(m), NEW n \in 0 .. STRLEN - 1, \A k \in 0 .. n - 1 : m[k] # NUL
  PROVE  /\ n \in Nat
         /\ m[n] # NUL => n + 1 \in 0 .. STRLEN - 1 /\ \A k \in 0 .. n : m[k] # NUL
         /\ m[n] = NUL => Length(m, 0) = n
<1>1. n \in Nat
  BY StringSizes
<1>2. m[n] # NUL => n # STRLEN - 1
  BY DEF Terminated
<1>3. m[n] # NUL => n + 1 \in 0 .. STRLEN - 1
  BY <1>2, StringSizes
<1>4. m[n] # NUL => \A k \in 0 .. n : m[k] # NUL
  <2>1. \A k \in 0 .. n : k = n \/ k \in 0 .. n - 1
    BY <1>1
  <2> QED BY <2>1
<1>5. m[n] = NUL => FirstNul(m, 0, n)
  <2>1. 0 + n = n /\ \A k \in 0 .. n - 1 : 0 + k = k
    BY <1>1
  <2> QED BY <2>1 DEF FirstNul
<1> QED BY <1>1, <1>3, <1>4, <1>5, LengthIs

(* A round of strlen. *)
LEMMA StrlenKeeps ==
  ASSUME StrInv, strlen
  PROVE  StrInv'
<1>1. args.fn = "strlen" /\ ret = Running /\ args' = args /\ Scanning /\ args \in Calls
  BY DEF strlen, In, Returns, Advance, StrInv
<1>2. args.x = 0 /\ Terminated(args.mem)
  BY <1>1, CallShape, StringMemory
<1>3. p \in 0 .. STRLEN - 1 /\ bytes = args.mem /\ \A k \in 0 .. p - 1 : args.mem[k] # NUL
  BY <1>1 DEF Scanning
<1>4. CASE bytes[p] = NUL
  <2>1. Length(args.mem, 0) = p /\ p \in Nat
    BY <1>2, <1>3, <1>4, ScanStep
  <2>2. ret' = p /\ bytes' = bytes
    BY <1>2, <1>4, <2>1 DEF strlen, Returns
  <2>3. StringsExact'
    BY <1>1, <1>2, <1>3, <2>1, <2>2 DEF StringsExact, Expected
  <2>4. ret' # Running
    BY <2>1, <2>2, NotRunning
  <2> QED BY <1>1, <2>3, <2>4 DEF StrInv, In, Running
<1>5. CASE bytes[p] # NUL
  <2>1. p' = p + 1 /\ bytes' = bytes /\ ret' = ret
    BY <1>5 DEF strlen, Advance
  <2>2. p \in Nat /\ p + 1 \in 0 .. STRLEN - 1 /\ \A k \in 0 .. p : args.mem[k] # NUL
    BY <1>2, <1>3, <1>5, ScanStep
  <2>3. (p + 1) - 1 = p
    BY <2>2
  <2>4. Scanning'
    BY <1>1, <1>3, <2>1, <2>2, <2>3 DEF Scanning
  <2> QED BY <1>1, <2>1, <2>4 DEF StrInv, In, StringsExact
<1> QED BY <1>4, <1>5

(* A round of strcpy. *)
LEMMA StrcpyKeeps ==
  ASSUME StrInv, strcpy
  PROVE  StrInv'
<1>1. args.fn = "strcpy" /\ ret = Running /\ args' = args /\ StrCopying /\ args \in Calls
  BY DEF strcpy, In, Advance, StrInv
<1>2. args.x = 2 * STRLEN /\ args.x \in Nat /\ args.y = 0 /\ Terminated(args.mem)
  BY <1>1, CallShape, StringMemory, StringSizes
<1>3. /\ q \in 0 .. STRLEN - 1 /\ q \in Nat /\ q = 0 + q
      /\ p = args.x + q /\ bytes = Moved(args.mem, args.x, 0, q)
      /\ \A k \in 0 .. q - 1 : args.mem[k] # NUL
  BY <1>1, StringSizes DEF StrCopying
<1>4. bytes' = Moved(args.mem, args.x, 0, q + 1)
  <2>1. STRLEN \in Nat /\ args.x + STRLEN <= SIZE /\ 0 + STRLEN <= SIZE /\ q + 1 <= STRLEN /\ 0 + STRLEN <= args.x
    BY <1>2, <1>3, StringSizes
  <2>2. Copied(1) = Moved(args.mem, args.x, 0, q + 1)
    <3>1. args.mem \in [Address -> Nat] /\ 0 \in Nat /\ 1 \in Nat
      BY <1>2 DEF Terminated
    <3>2. Piece(args.mem, args.x, 0, STRLEN, q, 1)
      BY <1>2, <1>3, <2>1, <3>1 DEF Piece
    <3> QED BY <3>2, CopyPiece, SMT
  <2> QED BY <2>2 DEF strcpy
<1>5. bytes[q] = args.mem[q]
  <2>1. q \in Address /\ ~(q \in args.x .. args.x + q - 1)
    BY <1>2, <1>3, StringSizes DEF Address
  <2> QED BY <1>3, <2>1 DEF Moved
<1>6. CASE bytes[q] = NUL
  <2>1. Length(args.mem, 0) = q
    BY <1>2, <1>3, <1>5, <1>6, ScanStep, ZenonT(30)
  <2>2. ret' = args.x
    BY <1>6 DEF strcpy
  <2>3. StringsExact'
    BY <1>1, <1>2, <1>4, <2>1, <2>2 DEF StringsExact, Expected
  <2>4. ret' # Running
    BY <1>2, <2>2, NotRunning
  <2> QED BY <1>1, <2>3, <2>4 DEF StrInv, In, Running
<1>7. CASE bytes[q] # NUL
  <2>1. p' = p + 1 /\ q' = q + 1 /\ ret' = ret
    BY <1>7 DEF strcpy, Advance
  <2>2. q + 1 \in 0 .. STRLEN - 1 /\ \A k \in 0 .. q : args.mem[k] # NUL
    BY <1>2, <1>3, <1>5, <1>7, ScanStep
  <2>3. (q + 1) - 1 = q /\ p + 1 = args.x + (q + 1)
    BY <1>2, <1>3
  <2>4. StrCopying'
    BY <1>1, <1>4, <2>1, <2>2, <2>3 DEF StrCopying
  <2> QED BY <1>1, <2>1, <2>4 DEF StrInv, In, StringsExact
<1> QED BY <1>6, <1>7

(* A round of strchr. *)
LEMMA StrchrKeeps ==
  ASSUME StrInv, strchr
  PROVE  StrInv'
<1> DEFINE m == args.mem
           found == {k \in 0 .. Length(m, 0) - 1 : m[0 + k] = args.n}
<1>1. args.fn = "strchr" /\ ret = Running /\ Searching /\ args \in Calls
  BY DEF strchr, In, StrInv
<1>2. args.x = 0 /\ Terminated(m)
  BY <1>1, CallShape, StringMemory
<1>3. /\ p \in 0 .. STRLEN - 1 /\ bytes = m
      /\ \A k \in 0 .. p - 1 : m[k] # NUL
      /\ \A k \in 0 .. p - 1 : m[k] # args.n
  BY <1>1 DEF Searching, Scanning
<1>4. p \in Nat
  BY <1>2, <1>3, ScanStep
<1>5. Expected(args) = <<IF found = {} THEN NULLPTR
                         ELSE args.x + (CHOOSE k \in found : \A j \in found : k <= j), m>>
  BY <1>1, <1>2 DEF Expected
<1>6. CASE bytes[p] = NUL
  <2>1. ret' = NULLPTR /\ bytes' = bytes /\ args' = args
    BY <1>6 DEF strchr, Returns
  <2>2. Length(m, 0) = p
    BY <1>2, <1>3, <1>6, ScanStep
  <2>3. \A k \in 0 .. p - 1 : 0 + k = k
    BY <1>4
  <2>4. found = {}
    BY <1>3, <2>2, <2>3
  <2> HIDE DEF found
  <2>5. StringsExact'
    BY <1>3, <1>5, <2>1, <2>4 DEF StringsExact
  <2>6. ret' # Running
    BY <2>1 DEF Running, NULLPTR
  <2> QED BY <1>1, <2>1, <2>5, <2>6 DEF StrInv, In, Running
<1>7. CASE bytes[p] # NUL /\ bytes[p] = args.n
  <2>1. ret' = p /\ bytes' = bytes /\ args' = args
    BY <1>7 DEF strchr, Returns
  <2>2. FirstNul(m, 0, Length(m, 0))
    BY <1>2, LengthExists
  <2>3. Length(m, 0) \in Nat /\ m[Length(m, 0)] = NUL
    <3>1. Length(m, 0) \in 0 .. STRLEN - 1 /\ m[0 + Length(m, 0)] = NUL
      BY <2>2 DEF FirstNul
    <3> QED BY <3>1, StringSizes
  <2>4. p < Length(m, 0)
    <3>1. \A k \in Nat : k <= p => m[k] # NUL
      <4>1. \A k \in Nat : k <= p => k = p \/ k \in 0 .. p - 1
        BY <1>4
      <4> QED BY <1>3, <1>7, <4>1
    <3> QED BY <1>4, <2>3, <3>1
  <2>5. p \in found
    BY <1>3, <1>4, <1>7, <2>3, <2>4
  <2>6. \A k \in found : p <= k /\ k \in Nat
    <3>1. \A k \in found : k \in Nat /\ m[k] = args.n
      BY <2>3
    <3> QED BY <1>3, <1>4, <3>1
  <2> HIDE DEF found
  <2>7. (CHOOSE k \in found : \A j \in found : k <= j) = p
    <3>1. \A k \in found : (\A j \in found : k <= j) => k = p
      BY <1>4, <2>5, <2>6
    <3> QED BY <2>5, <2>6, <3>1
  <2>8. Expected(args) = <<p, m>>
    <3>1. args.x + p = p
      BY <1>2, <1>4
    <3>2. found # {}
      BY <2>5
    <3> QED BY <1>5, <2>7, <3>1, <3>2
  <2>9. StringsExact'
    BY <1>3, <2>1, <2>8 DEF StringsExact
  <2>10. ret' # Running
    BY <1>4, <2>1, NotRunning
  <2> QED BY <1>1, <2>1, <2>9, <2>10 DEF StrInv, In, Running
<1>8. CASE bytes[p] # NUL /\ bytes[p] # args.n
  <2>1. p' = p + 1 /\ bytes' = bytes /\ ret' = ret /\ args' = args
    BY <1>8 DEF strchr, Advance
  <2>2. p + 1 \in 0 .. STRLEN - 1 /\ \A k \in 0 .. p : m[k] # NUL
    BY <1>2, <1>3, <1>8, ScanStep
  <2>3. (p + 1) - 1 = p /\ \A k \in 0 .. p : k = p \/ k \in 0 .. p - 1
    BY <1>4
  <2>4. Searching'
    BY <1>3, <1>8, <2>1, <2>2, <2>3 DEF Searching, Scanning
  <2> QED BY <1>1, <2>1, <2>4 DEF StrInv, In, StringsExact
<1> QED BY <1>6, <1>7, <1>8

(* A round of strcmp. *)
LEMMA StrcmpKeeps ==
  ASSUME StrInv, strcmp
  PROVE  StrInv'
<1> DEFINE m == args.mem
<1>1. args.fn = "strcmp" /\ ret = Running /\ Comparing /\ args \in Calls
  BY DEF strcmp, In, StrInv
<1>2. args.x = 0 /\ args.y = STRLEN /\ Terminated(m)
  BY <1>1, CallShape, StringMemory
<1>3. /\ p \in 0 .. STRLEN - 1 /\ bytes = m /\ q = STRLEN + p
      /\ \A k \in 0 .. p - 1 : m[k] # NUL
      /\ \A k \in 0 .. p - 1 : m[k] = m[STRLEN + k]
  BY <1>1 DEF Comparing, Scanning
<1>4. p \in Nat
  BY <1>2, <1>3, ScanStep
<1>4a. PICK u, w \in Nat : u = bytes[p] /\ w = bytes[q]
  <2>1. p \in Address /\ q \in Address
    BY <1>3, <1>4, StringSizes DEF Address
  <2> QED BY <1>2, <1>3, <2>1 DEF Terminated
<1>5. CASE bytes[p] # NUL /\ bytes[p] = bytes[q]
  <2>1. p' = p + 1 /\ q' = q + 1 /\ bytes' = bytes /\ ret' = ret /\ args' = args
    BY <1>4a, <1>5 DEF strcmp, Advance
  <2>2. p + 1 \in 0 .. STRLEN - 1 /\ \A k \in 0 .. p : m[k] # NUL
    BY <1>2, <1>3, <1>5, ScanStep
  <2>3. /\ (p + 1) - 1 = p /\ q + 1 = STRLEN + (p + 1)
        /\ \A k \in 0 .. p : k = p \/ k \in 0 .. p - 1
    BY <1>3, <1>4, StringSizes
  <2>4. Comparing'
    BY <1>3, <1>5, <2>1, <2>2, <2>3 DEF Comparing, Scanning
  <2> QED BY <1>1, <2>1, <2>4 DEF StrInv, In, StringsExact
<1>6. CASE ~(bytes[p] # NUL /\ bytes[p] = bytes[q])
  <2>1. Differ(m, 0, STRLEN) = p
    <3>1. \A k \in 0 .. STRLEN - 1 : k \in Nat /\ 0 + k = k
      BY StringSizes
    <3>2. \A k \in 0 .. STRLEN - 1 :
            /\ m[0 + k] # m[STRLEN + k] \/ m[0 + k] = NUL
            /\ \A j \in 0 .. k - 1 : m[0 + j] = m[STRLEN + j] /\ m[0 + j] # NUL
            => k = p
      <4> SUFFICES ASSUME NEW k \in 0 .. STRLEN - 1,
                          m[0 + k] # m[STRLEN + k] \/ m[0 + k] = NUL,
                          \A j \in 0 .. k - 1 : m[0 + j] = m[STRLEN + j] /\ m[0 + j] # NUL
                   PROVE  k = p
        OBVIOUS
      <4>1. k \in Nat /\ 0 + k = k /\ 0 + p = p
        BY <1>4, <3>1
      <4>2. ~(k < p)
        <5>1. k < p => k \in 0 .. p - 1
          BY <1>4, <4>1
        <5> QED BY <1>3, <4>1, <5>1
      <4>3. ~(p < k)
        <5>1. p < k => p \in 0 .. k - 1
          BY <1>4, <4>1
        <5> QED BY <1>3, <1>6, <4>1, <5>1
      <4> QED BY <1>4, <4>1, <4>2, <4>3
    <3>3. /\ m[0 + p] # m[STRLEN + p] \/ m[0 + p] = NUL
          /\ \A j \in 0 .. p - 1 : m[0 + j] = m[STRLEN + j] /\ m[0 + j] # NUL
      <4>1. 0 + p = p /\ \A j \in 0 .. p - 1 : 0 + j = j
        BY <1>4
      <4> QED BY <1>3, <1>6, <4>1
    <3> QED BY <1>3, <3>2, <3>3 DEF Differ
  <2>2. Expected(args) = <<CASE bytes[p] < bytes[q] -> -1 [] bytes[p] > bytes[q] -> 1 [] OTHER -> 0, m>>
    BY <1>1, <1>2, <1>3, <1>4, <2>1 DEF Expected
  <2>5. /\ ret' = IF u < w THEN -1 ELSE IF u > w THEN 1 ELSE 0
        /\ bytes' = bytes /\ args' = args
    BY <1>4a, <1>6 DEF strcmp, Returns
  <2>6. Expected(args) = <<IF u < w THEN -1 ELSE IF u > w THEN 1 ELSE 0, m>>
    BY <1>4a, <2>2
  <2>7. StringsExact'
    BY <1>3, <2>5, <2>6 DEF StringsExact
  <2>8. ret' # Running
    BY <2>5 DEF Running, NULLPTR
  <2> QED BY <1>1, <2>5, <2>7, <2>8 DEF StrInv, In, Running
<1> QED BY <1>5, <1>6

(* memcpy, memset, strlen, strcpy, strchr and strcmp return what they       *)
(* should and leave the memory they should, for every call of Calls and     *)
(* every alignment, whatever the size of a word, of a byte, of the memory   *)
(* and of a string.                                                         *)
THEOREM StringsAreExact == StrSpec => []StringsExact
<1>1. StrInv /\ [StrNext]_strvars => StrInv'
  <2>1. StrInv /\ UNCHANGED strvars => StrInv'
    BY DEF strvars, StrInv, In, Copying, Setting, Scanning, StrCopying, Searching, Comparing, max, StringsExact
  <2> QED
    BY <2>1, MemcpyKeeps, MemsetKeeps, StrlenKeeps, StrcpyKeeps, StrchrKeeps, StrcmpKeeps DEF StrNext
<1>2. StrInv => StringsExact
  BY DEF StrInv
<1> QED BY <1>1, <1>2, StrInvInit, PTL DEF StrSpec
-----------------------------------------------------------------------------
(***************************************************************************)
(* tools/bintoc.c and tools/readelf, the same way.                         *)
(***************************************************************************)
(* An option of bintoc that takes a value, and its letter. *)
Letters == {"f", "o", "p"}
Dash == [f |-> "-f", o |-> "-o", p |-> "-p"]
Token == Nat \cup {"size", "start[] = {", ",", "}", ";"}

BintocTypeOK ==
  /\ argv \in Seq(Arg)
  /\ argi \in Nat
  /\ opt \in [Letters -> Nat]
  /\ tpc \in {"args", "help", "assert", "read", "bytes", "written"}
  /\ binary \in Seq(Nat)
  /\ ctext \in Seq(Token)

(* The value of an option is the argument behind it, and no option is the   *)
(* value of another; the loop is past the ones it has found.                *)
OptionsFound ==
  \A l \in Letters : opt[l] # NONE =>
    /\ opt[l] \in 2 .. Len(argv)
    /\ argv[opt[l] - 1] = Dash[l]
    /\ tpc = "args" => opt[l] < argi
    /\ \A j \in Letters : opt[j] # opt[l] - 1

FilesNamed == tpc \in {"read", "bytes", "written"} => opt["f"] # NONE /\ opt["o"] # NONE

(* n bytes of the file are in the C text. *)
Written(n) ==
  /\ n <= Len(binary)
  /\ Len(ctext) >= 3 + 2 * n
  /\ ctext[2] = Len(binary)
  /\ \A k \in 1 .. n : ctext[2 + 2 * k] = binary[k]
  /\ \A k \in 1 .. n : ctext[3 + 2 * k] = IF k < Len(binary) THEN "," ELSE "}"

BytesWritten ==
  /\ tpc = "args" => argi >= 1
  /\ tpc = "bytes" => Written(argi) /\ Len(ctext) = 3 + 2 * argi
  /\ tpc = "written" => Written(Len(binary)) /\ Len(ctext) = 4 + 2 * Len(binary)

BintocInv == BintocTypeOK /\ OptionsFound /\ FilesNamed /\ BytesWritten

(* bintoc has not looked at its arguments.                                  *)
LEMMA BintocInvInit == BintocInit => BintocInv
<1> SUFFICES ASSUME BintocInit PROVE BintocInv
  OBVIOUS
<1>1. PICK n \in 0 .. MAXARGS, size \in 0 .. BMAX :
        \E a \in [1 .. n -> Arg] : BintocStart(a, [k \in 1 .. size |-> k])
  BY DEF BintocInit
<1>2. PICK a \in [1 .. n -> Arg] : BintocStart(a, [k \in 1 .. size |-> k])
  BY <1>1
<1>3. n \in Nat /\ size \in Nat
  BY ToolsAssumption
<1>4. a \in Seq(Arg)
  BY <1>2, <1>3
<1>5. [k \in 1 .. size |-> k] \in Seq(Nat)
  BY <1>3
<1>6. opt = [l \in Letters |-> NONE] /\ opt \in [Letters -> Nat]
  <2>1. opt = [f |-> NONE, o |-> NONE, p |-> NONE]
    BY <1>2 DEF BintocStart
  <2> QED BY <2>1 DEF Letters, NONE
<1>7. argv = a /\ argi = 1 /\ tpc = "args" /\ binary = [k \in 1 .. size |-> k] /\ ctext = <<>>
  BY <1>2 DEF BintocStart
<1>8. BintocTypeOK
  BY <1>4, <1>5, <1>6, <1>7 DEF BintocTypeOK
<1>9. OptionsFound /\ FilesNamed /\ BytesWritten
  BY <1>6, <1>7 DEF OptionsFound, FilesNamed, BytesWritten
<1> QED BY <1>8, <1>9 DEF BintocInv

(* The option in front of a value that is there and new. *)
LEMMA TakeKeeps ==
  ASSUME BintocInv, tpc = "args", argi <= Len(argv), NEW letter \in Letters, argv[argi] = Dash[letter],
         Take(letter), UNCHANGED <<argv, binary, ctext>>
  PROVE  BintocInv'
<1>1. CASE argi < Len(argv) /\ opt[letter] = NONE
  <2>1. opt' = [opt EXCEPT ![letter] = argi + 1] /\ argi' = argi + 2 /\ tpc' = tpc
    BY <1>1 DEF Take
  <2>2. argi \in Nat /\ argi >= 1 /\ opt \in [Letters -> Nat] /\ Len(argv) \in Nat
    BY DEF BintocInv, BintocTypeOK, BytesWritten
  <2>3. /\ opt' \in [Letters -> Nat] /\ opt'[letter] = argi + 1
        /\ \A l \in Letters : l # letter => opt'[l] = opt[l]
    BY <2>1, <2>2
  <2>4. BintocTypeOK'
    BY <2>1, <2>2, <2>3 DEF BintocInv, BintocTypeOK
  <2>5. \A l \in Letters : opt[l] \in Nat /\ opt[l] < argi
    BY <2>2 DEF BintocInv, OptionsFound, NONE
  <2>6. OptionsFound'
    <3> SUFFICES ASSUME NEW l \in Letters, opt'[l] # NONE
                 PROVE  /\ opt'[l] \in 2 .. Len(argv)
                        /\ argv[opt'[l] - 1] = Dash[l]
                        /\ opt'[l] < argi + 2
                        /\ \A j \in Letters : opt'[j] # opt'[l] - 1
      BY <2>1 DEF OptionsFound
    <3>1. CASE l = letter
      <4>1. opt'[l] = argi + 1 /\ (argi + 1) - 1 = argi /\ argi + 1 \in 2 .. Len(argv) /\ argi + 1 < argi + 2 /\ argi + 1 # argi
        BY <1>1, <2>2, <2>3, <3>1
      <4>2. \A j \in Letters : opt'[j] # argi
        BY <2>2, <2>3, <2>5, <4>1
      <4> QED BY <3>1, <4>1, <4>2
    <3>2. CASE l # letter
      <4>1. opt'[l] = opt[l] /\ opt[l] # NONE
        BY <2>3, <3>2
      <4>2. /\ opt[l] \in 2 .. Len(argv) /\ argv[opt[l] - 1] = Dash[l] /\ opt[l] < argi
            /\ \A j \in Letters : opt[j] # opt[l] - 1
        BY <4>1 DEF BintocInv, OptionsFound
      <4>3. opt[l] < argi + 2 /\ argi + 1 # opt[l] - 1
        BY <2>2, <4>2
      <4> QED BY <2>3, <4>1, <4>2, <4>3
    <3> QED BY <3>1, <3>2
  <2>7. FilesNamed' /\ BytesWritten'
    BY <2>1, <2>2 DEF FilesNamed, BytesWritten
  <2> QED BY <2>4, <2>6, <2>7 DEF BintocInv
<1>2. CASE ~(argi < Len(argv) /\ opt[letter] = NONE)
  <2>1. tpc' = "assert" /\ UNCHANGED <<opt, argi>>
    BY <1>2 DEF Take
  <2> QED BY <2>1 DEF BintocInv, BintocTypeOK, OptionsFound, FilesNamed, BytesWritten
<1> QED BY <1>1, <1>2

(* A round of bintoc's loop over its arguments.                             *)
LEMMA ParseArgKeeps ==
  ASSUME BintocInv, ParseArg
  PROVE  BintocInv'
<1>1. tpc = "args" /\ argi <= Len(argv) /\ UNCHANGED <<argv, binary, ctext>>
  BY DEF ParseArg
<1>2. Dash["f"] = "-f" /\ Dash["o"] = "-o" /\ Dash["p"] = "-p" /\ {"f", "o", "p"} = Letters
  BY DEF Dash, Letters
<1>3. CASE argv[argi] = "-f"
  <2>1. Take("f")
    BY <1>3 DEF ParseArg
  <2> QED BY <1>1, <1>2, <1>3, <2>1, TakeKeeps
<1>4. CASE argv[argi] = "-o"
  <2>1. Take("o")
    BY <1>4 DEF ParseArg
  <2> QED BY <1>1, <1>2, <1>4, <2>1, TakeKeeps
<1>5. CASE argv[argi] = "-p"
  <2>1. Take("p")
    BY <1>5 DEF ParseArg
  <2> QED BY <1>1, <1>2, <1>5, <2>1, TakeKeeps
<1>6. CASE argv[argi] = "name"
  <2>1. argi' = argi + 1 /\ opt' = opt /\ tpc' = tpc
    BY <1>6 DEF ParseArg
  <2>2. argi \in Nat /\ argi + 1 \in Nat /\ argi + 1 >= 1 /\ \A l \in Letters : opt[l] < argi => opt[l] < argi + 1
    BY DEF BintocInv, BintocTypeOK
  <2> QED BY <1>1, <2>1, <2>2 DEF BintocInv, BintocTypeOK, OptionsFound, FilesNamed, BytesWritten
<1>7. CASE argv[argi] \notin {"name", "-f", "-o", "-p"}
  <2>1. tpc' = "help" /\ opt' = opt /\ argi' = argi
    BY <1>7 DEF ParseArg
  <2> QED BY <1>1, <2>1 DEF BintocInv, BintocTypeOK, OptionsFound, FilesNamed, BytesWritten
<1> QED BY <1>3, <1>4, <1>5, <1>6, <1>7

(* Both files have names when bintoc opens them.                            *)
LEMMA OpenFilesKeeps ==
  ASSUME BintocInv, OpenFiles
  PROVE  BintocInv'
<1>1. tpc = "args" /\ tpc' \in {"read", "assert"} /\ UNCHANGED <<argv, argi, opt, binary, ctext>>
  BY DEF OpenFiles
<1>2. tpc' = "read" => opt["f"] # NONE /\ opt["o"] # NONE
  BY DEF OpenFiles
<1> QED BY <1>1, <1>2 DEF BintocInv, BintocTypeOK, OptionsFound, FilesNamed, BytesWritten

(* Numbers and punctuation are tokens. *)
LEMMA Tokens ==
  /\ \A n \in Nat : n \in Token
  /\ "size" \in Token /\ "start[] = {" \in Token /\ "," \in Token /\ "}" \in Token /\ ";" \in Token
  BY Zenon DEF Token

(* Three tokens are a text.                                                 *)
LEMMA ThreeTokens == \A a, b, c \in Token : <<a, b, c>> \in Seq(Token)
  OBVIOUS

(* A token at the end leaves those before it where they are.                *)
LEMMA OneMore ==
  \A s \in Seq(Token), a \in Token :
    /\ Append(s, a) \in Seq(Token) /\ Len(Append(s, a)) = Len(s) + 1
    /\ \A k \in 1 .. Len(s) : Append(s, a)[k] = s[k]
  OBVIOUS

(* So do two.                                                               *)
LEMMA TwoMore ==
  \A s \in Seq(Token), a, b \in Token :
    /\ s \o <<a, b>> \in Seq(Token) /\ Len(s \o <<a, b>>) = Len(s) + 2
    /\ \A k \in 1 .. Len(s) : (s \o <<a, b>>)[k] = s[k]
    /\ (s \o <<a, b>>)[Len(s) + 1] = a /\ (s \o <<a, b>>)[Len(s) + 2] = b
  OBVIOUS

(* The declarations are written before the bytes.                           *)
LEMMA ReadBinaryKeeps ==
  ASSUME BintocInv, ReadBinary
  PROVE  BintocInv'
<1>1. /\ tpc = "read" /\ tpc' \in {"bytes", "assert"} /\ argi' = 0 /\ UNCHANGED <<argv, opt, binary>>
      /\ ctext' = IF tpc' = "bytes" THEN <<"size", Len(binary), "start[] = {">> ELSE ctext
  BY DEF ReadBinary
<1>2. Len(binary) \in Nat /\ Len(binary) \in Token /\ ctext \in Seq(Token)
  <2>1. Len(binary) \in Nat
    BY DEF BintocInv, BintocTypeOK
  <2>2. ctext \in Seq(Token)
    BY DEF BintocInv, BintocTypeOK
  <2> QED BY <2>1, <2>2, Tokens, Zenon
<1>3. <<"size", Len(binary), "start[] = {">> \in Seq(Token)
  BY <1>2, Tokens, ThreeTokens, Zenon
<1>4. BintocTypeOK'
  BY <1>1, <1>3 DEF BintocInv, BintocTypeOK
<1>5. OptionsFound' /\ FilesNamed'
  BY <1>1 DEF BintocInv, OptionsFound, FilesNamed
<1>6. BytesWritten'
  <2>1. ASSUME tpc' = "bytes" PROVE Written(0)' /\ Len(ctext') = 3 + 2 * 0
    <3>1. ctext' = <<"size", Len(binary), "start[] = {">> /\ binary' = binary
      BY <1>1, <2>1
    <3>2. Len(ctext') = 3 /\ ctext'[2] = Len(binary')
      BY <3>1
    <3>3. (\A k \in 1 .. 0 : FALSE) /\ 3 + 2 * 0 = 3 /\ 3 >= 3
      OBVIOUS
    <3>4. 0 <= Len(binary')
      <4>1. binary' = binary
        BY <1>1
      <4> QED BY <1>2, <4>1
    <3> QED BY <3>2, <3>3, <3>4 DEF Written
  <2> QED BY <1>1, <2>1 DEF BytesWritten, Written
<1> QED BY <1>4, <1>5, <1>6 DEF BintocInv

(* A round of bintoc's loop over the bytes.                                 *)
LEMMA WriteByteKeeps ==
  ASSUME BintocInv, WriteByte
  PROVE  BintocInv'
<1>1. tpc = "bytes" /\ argi < Len(binary) /\ argi' = argi + 1 /\ UNCHANGED <<argv, opt, tpc, binary>>
  BY DEF WriteByte
<1>2. /\ argi \in Nat /\ Len(binary) \in Nat /\ binary \in Seq(Nat) /\ ctext \in Seq(Token)
      /\ Written(argi) /\ Len(ctext) = 3 + 2 * argi
  BY <1>1 DEF BintocInv, BintocTypeOK, BytesWritten
<1>3. PICK a \in Token, b \in Token :
        /\ a = binary[argi + 1] /\ b = (IF argi < Len(binary) - 1 THEN "," ELSE "}")
        /\ ctext' = ctext \o <<a, b>>
  <2>1. binary[argi + 1] \in Token
    <3>1. binary[argi + 1] \in Nat
      BY <1>1, <1>2
    <3> QED BY <3>1, Tokens, Zenon
  <2>2. (IF argi < Len(binary) - 1 THEN "," ELSE "}") \in Token
    BY Tokens
  <2> QED BY <2>1, <2>2 DEF WriteByte
<1>4. /\ ctext' \in Seq(Token) /\ Len(ctext') = Len(ctext) + 2
      /\ \A k \in 1 .. Len(ctext) : ctext'[k] = ctext[k]
      /\ ctext'[Len(ctext) + 1] = a /\ ctext'[Len(ctext) + 2] = b
  <2>1. /\ ctext \o <<a, b>> \in Seq(Token) /\ Len(ctext \o <<a, b>>) = Len(ctext) + 2
        /\ \A k \in 1 .. Len(ctext) : (ctext \o <<a, b>>)[k] = ctext[k]
        /\ (ctext \o <<a, b>>)[Len(ctext) + 1] = a /\ (ctext \o <<a, b>>)[Len(ctext) + 2] = b
    <3>1. ctext \in Seq(Token) /\ a \in Token /\ b \in Token
      BY <1>2, <1>3
    <3> QED BY <3>1, TwoMore
  <2> QED BY <1>3, <2>1, Zenon
<1>5. /\ ctext'[2] = ctext[2] /\ Len(ctext') = 3 + 2 * (argi + 1)
      /\ ctext'[2 + 2 * (argi + 1)] = a /\ ctext'[3 + 2 * (argi + 1)] = b
  BY <1>2, <1>4
<1>6. \A k \in 1 .. argi : ctext'[2 + 2 * k] = ctext[2 + 2 * k] /\ ctext'[3 + 2 * k] = ctext[3 + 2 * k]
  <2>1. \A k \in 1 .. argi : 2 + 2 * k \in 1 .. Len(ctext) /\ 3 + 2 * k \in 1 .. Len(ctext)
    BY <1>2
  <2> QED BY <1>4, <2>1
<1>7. b = IF argi + 1 < Len(binary) THEN "," ELSE "}"
  <2>1. argi < Len(binary) - 1 <=> argi + 1 < Len(binary)
    BY <1>2
  <2> QED BY <1>3, <2>1
<1>8. \A k \in 1 .. argi + 1 : k = argi + 1 \/ k \in 1 .. argi
  BY <1>2
<1>9. Written(argi)
  BY <1>2
<1>10. \A k \in 1 .. argi + 1 : /\ ctext'[2 + 2 * k] = binary[k]
                               /\ ctext'[3 + 2 * k] = IF k < Len(binary) THEN "," ELSE "}"
  <2> TAKE k \in 1 .. argi + 1
  <2>1. CASE k = argi + 1
    BY <1>3, <1>5, <1>7, <2>1
  <2>2. CASE k \in 1 .. argi
    BY <1>6, <1>9, <2>2 DEF Written
  <2> QED BY <1>8, <2>1, <2>2
<1>11. argi + 1 <= Len(binary) /\ Len(ctext') >= 3 + 2 * (argi + 1) /\ ctext'[2] = Len(binary)
  <2>1. argi + 1 <= Len(binary) /\ Len(ctext') >= 3 + 2 * (argi + 1)
    BY <1>1, <1>2, <1>5, SMTT(60)
  <2> QED BY <1>5, <1>9, <2>1 DEF Written
<1>12. BytesWritten'
  BY <1>1, <1>5, <1>10, <1>11 DEF BytesWritten, Written
<1>13. BintocTypeOK'
  BY <1>1, <1>2, <1>4 DEF BintocInv, BintocTypeOK
<1>14. OptionsFound' /\ FilesNamed'
  BY <1>1 DEF BintocInv, OptionsFound, FilesNamed
<1> QED BY <1>12, <1>13, <1>14 DEF BintocInv

(* The last line of the C text.                                             *)
LEMMA CloseFilesKeeps ==
  ASSUME BintocInv, CloseFiles
  PROVE  BintocInv'
<1>1. /\ tpc = "bytes" /\ argi = Len(binary) /\ ctext' = Append(ctext, ";") /\ tpc' = "written"
      /\ UNCHANGED <<argv, argi, opt, binary>>
  BY DEF CloseFiles
<1>2. PICK n \in Nat : /\ n = Len(binary) /\ ctext \in Seq(Token) /\ Written(n) /\ Len(ctext) = 3 + 2 * n
  BY <1>1 DEF BintocInv, BintocTypeOK, BytesWritten
<1>3. /\ ctext' \in Seq(Token) /\ Len(ctext') = Len(ctext) + 1
      /\ \A k \in 1 .. Len(ctext) : ctext'[k] = ctext[k]
  <2>1. ";" \in Token
    BY Tokens
  <2>2. /\ Append(ctext, ";") \in Seq(Token) /\ Len(Append(ctext, ";")) = Len(ctext) + 1
        /\ \A k \in 1 .. Len(ctext) : Append(ctext, ";")[k] = ctext[k]
    BY <1>2, <2>1, OneMore, Zenon
  <2> QED BY <1>1, <2>2, Zenon
<1>4. /\ Len(ctext') = 4 + 2 * n /\ Len(ctext') >= 3 + 2 * n /\ 2 \in 1 .. Len(ctext)
      /\ \A k \in 1 .. n : 2 + 2 * k \in 1 .. Len(ctext) /\ 3 + 2 * k \in 1 .. Len(ctext)
  BY <1>2, <1>3
<1>5. Written(n)'
  BY <1>1, <1>2, <1>3, <1>4 DEF Written
<1>6. BytesWritten'
  BY <1>1, <1>2, <1>4, <1>5 DEF BytesWritten
<1>7. BintocTypeOK'
  BY <1>1, <1>3 DEF BintocInv, BintocTypeOK
<1>8. OptionsFound' /\ FilesNamed'
  BY <1>1 DEF BintocInv, OptionsFound, FilesNamed
<1> QED BY <1>6, <1>7, <1>8 DEF BintocInv

(* Every step of bintoc keeps BintocInv.                                    *)
LEMMA BintocInvNext == BintocInv /\ [BintocNext]_bintocvars => BintocInv'
<1>1. BintocInv /\ UNCHANGED bintocvars => BintocInv'
  BY ZenonT(60) DEF bintocvars, BintocInv, BintocTypeOK, OptionsFound, FilesNamed, BytesWritten, Written
<1> QED
  BY <1>1, ParseArgKeeps, OpenFilesKeeps, ReadBinaryKeeps, WriteByteKeeps, CloseFilesKeeps DEF BintocNext

(* What ToolsExact says of bintoc. *)
LEMMA BintocWrites ==
  ASSUME BintocInv, tpc = "written"
  PROVE  /\ argv[opt.f - 1] = "-f" /\ argv[opt.o - 1] = "-o" /\ opt.f # opt.o
         /\ opt.f - 1 # opt.o /\ opt.o - 1 # opt.f
         /\ Len(ctext) = 4 + 2 * Len(binary)
         /\ ctext[2] = Len(binary)
         /\ \A k \in 1 .. Len(binary) : ctext[2 + 2 * k] = binary[k]
         /\ \A k \in 1 .. Len(binary) : ctext[3 + 2 * k] = IF k < Len(binary) THEN "," ELSE "}"
<1>1. opt["f"] # NONE /\ opt["o"] # NONE /\ {"f", "o"} \subseteq Letters
  BY DEF BintocInv, FilesNamed, Letters
<1>2. /\ argv[opt["f"] - 1] = "-f" /\ argv[opt["o"] - 1] = "-o"
      /\ opt["f"] - 1 # opt["o"] /\ opt["o"] - 1 # opt["f"]
  BY <1>1 DEF BintocInv, OptionsFound, Dash
<1>3. opt["f"] # opt["o"]
  BY <1>2
<1>4. Written(Len(binary)) /\ Len(ctext) = 4 + 2 * Len(binary)
  BY DEF BintocInv, BytesWritten
<1> QED BY <1>2, <1>3, <1>4 DEF Written
-----------------------------------------------------------------------------
ReadelfTypeOK ==
  /\ ehdr \in Elf32_Ehdr
  /\ seci \in 0 .. ehdr.e_shnum
  /\ rpc \in {"main", "readelf", "1", "-1", "0"}
  /\ listing \in Seq(Nat \X Nat)

SectionsListed ==
  /\ Len(listing) = seci
  /\ \A k \in 1 .. seci : listing[k] = <<k - 1, 100 + k - 1>>
  /\ rpc \in {"main", "1", "-1"} \/ ~is_elf_format => seci = 0
  /\ rpc = "0" => is_elf_format /\ seci = ehdr.e_shnum

ReadelfInv == ReadelfTypeOK /\ SectionsListed

(* readelf has not listed anything.                                         *)
LEMMA ReadelfInvInit == ReadelfInit => ReadelfInv
<1> SUFFICES ASSUME ReadelfInit PROVE ReadelfInv
  OBVIOUS
<1>1. ehdr \in Elf32_Ehdr /\ seci = 0 /\ rpc = "main" /\ listing = <<>>
  BY DEF ReadelfInit, ReadelfStart
<1>2. ehdr.e_shnum \in Nat
  BY <1>1, ToolsAssumption DEF Elf32_Ehdr
<1> QED BY <1>1, <1>2 DEF ReadelfInv, ReadelfTypeOK, SectionsListed

(* The section header i of the table is the one that is read. *)
LEMMA HeaderAt ==
  ASSUME NEW h \in Elf32_Ehdr, NEW n \in Nat, n < h.e_shnum
  PROVE  sh_addr(h, h.e_shoff + n * h.e_shentsize) = 100 + n
<1>1. h.e_shoff = 20 /\ h.e_shentsize \in {5, 6} /\ h.e_shnum \in Nat
  BY ToolsAssumption DEF Elf32_Ehdr
<1>2. n \in 0 .. h.e_shnum - 1
  BY <1>1
<1>3. ASSUME NEW e \in {5, 6}
      PROVE  ((20 + n * e) - 20) % e = 0 /\ ((20 + n * e) - 20) \div e = n
  <2>1. CASE e = 5
    BY <2>1
  <2>2. CASE e = 6
    BY <2>2
  <2> QED BY <1>3, <2>1, <2>2
<1> QED BY <1>1, <1>2, <1>3 DEF sh_addr

(* Every step of readelf keeps ReadelfInv.                                  *)
LEMMA ReadelfInvNext == ReadelfInv /\ [ReadelfNext]_readelfvars => ReadelfInv'
<1> SUFFICES ASSUME ReadelfInv, [ReadelfNext]_readelfvars PROVE ReadelfInv'
  OBVIOUS
<1>0. ehdr \in Elf32_Ehdr /\ ehdr.e_shnum \in Nat
  BY ToolsAssumption DEF ReadelfInv, ReadelfTypeOK, Elf32_Ehdr
<1>1. CASE OpenElf
  <2>1. rpc = "main" /\ rpc' \in {"1", "readelf"} /\ seci' = seci /\ listing' = listing
    BY <1>1 DEF OpenElf
  <2>2. ehdr' \in Elf32_Ehdr /\ ehdr'.e_shnum = ehdr.e_shnum
    BY <1>0, <1>1 DEF OpenElf, Elf32_Ehdr
  <2>3. seci = 0
    BY <2>1 DEF ReadelfInv, SectionsListed
  <2> QED BY <2>1, <2>2, <2>3 DEF ReadelfInv, ReadelfTypeOK, SectionsListed
<1>2. CASE NotElf
  BY <1>2 DEF NotElf, ReadelfInv, ReadelfTypeOK, SectionsListed, is_elf_format
<1>3. CASE ListSection
  <2>1. /\ rpc = "readelf" /\ is_elf_format /\ seci < ehdr.e_shnum /\ seci' = seci + 1
        /\ ehdr' = ehdr /\ rpc' = rpc
    BY <1>3 DEF ListSection
  <2>2. PICK n \in Nat : n = seci /\ n < ehdr.e_shnum /\ n + 1 \in 0 .. ehdr.e_shnum
    BY <1>0, <2>1 DEF ReadelfInv, ReadelfTypeOK
  <2>3. listing' = Append(listing, <<n, 100 + n>>)
    BY <1>0, <1>3, <2>2, HeaderAt DEF ListSection
  <2>4. /\ listing \in Seq(Nat \X Nat) /\ Len(listing) = n
        /\ \A k \in 1 .. n : listing[k] = <<k - 1, 100 + k - 1>>
    BY <2>2 DEF ReadelfInv, ReadelfTypeOK, SectionsListed
  <2>5. <<n, 100 + n>> \in Nat \X Nat
    OBVIOUS
  <2>6. /\ listing' \in Seq(Nat \X Nat) /\ Len(listing') = n + 1 /\ listing'[n + 1] = <<n, 100 + n>>
        /\ \A k \in 1 .. n : listing'[k] = listing[k]
    BY <2>3, <2>4, <2>5
  <2>7. \A k \in 1 .. n + 1 : listing'[k] = <<k - 1, 100 + k - 1>>
    <3>1. (n + 1) - 1 = n /\ 100 + (n + 1) - 1 = 100 + n /\ \A k \in 1 .. n + 1 : k = n + 1 \/ k \in 1 .. n
      OBVIOUS
    <3> QED BY <2>4, <2>6, <3>1, ZenonT(60)
  <2>8. ReadelfTypeOK'
    BY <1>0, <2>1, <2>2, <2>6 DEF ReadelfInv, ReadelfTypeOK
  <2>9. SectionsListed'
    BY <2>1, <2>2, <2>6, <2>7 DEF SectionsListed, is_elf_format
  <2> QED BY <2>8, <2>9 DEF ReadelfInv
<1>4. CASE Listed0
  BY <1>4 DEF Listed0, ReadelfInv, ReadelfTypeOK, SectionsListed, is_elf_format
<1>5. CASE UNCHANGED readelfvars
  BY <1>5 DEF readelfvars, ReadelfInv, ReadelfTypeOK, SectionsListed, is_elf_format
<1> QED BY <1>1, <1>2, <1>3, <1>4, <1>5 DEF ReadelfNext

(* What ToolsExact says of readelf. *)
LEMMA ReadelfLists ==
  ASSUME ReadelfInv
  PROVE  /\ rpc = "0" => ehdr.ident = ELFMAG32 /\ listing = [k \in 1 .. ehdr.e_shnum |-> <<k - 1, 100 + k - 1>>]
         /\ rpc \in {"1", "-1"} => listing = <<>>
<1>1. ASSUME rpc = "0"
      PROVE  ehdr.ident = ELFMAG32 /\ listing = [k \in 1 .. ehdr.e_shnum |-> <<k - 1, 100 + k - 1>>]
  <2>1. ehdr.ident = ELFMAG32 /\ seci = ehdr.e_shnum /\ Len(listing) = seci
    BY <1>1 DEF ReadelfInv, SectionsListed, is_elf_format
  <2>2. listing \in [1 .. ehdr.e_shnum -> Nat \X Nat]
    BY <2>1 DEF ReadelfInv, ReadelfTypeOK
  <2> QED BY <2>1, <2>2 DEF ReadelfInv, SectionsListed
<1>2. ASSUME rpc \in {"1", "-1"} PROVE listing = <<>>
  BY <1>2 DEF ReadelfInv, ReadelfTypeOK, SectionsListed
<1> QED BY <1>1, <1>2

(* bintoc writes the bytes of its input and closes the initialiser, if the  *)
(* input is not empty, and readelf lists every section, for every list of   *)
(* arguments and every file, of any size.                                   *)
THEOREM ToolsAreExact == BintocSpec /\ ReadelfSpec => []ToolsExact
<1>1. BintocInv /\ ReadelfInv => ToolsExact
  <2> SUFFICES ASSUME BintocInv, ReadelfInv PROVE ToolsExact
    OBVIOUS
  <2> QED BY BintocWrites, ReadelfLists DEF ToolsExact
<1> QED
  BY <1>1, BintocInvInit, BintocInvNext, ReadelfInvInit, ReadelfInvNext, PTL DEF BintocSpec, ReadelfSpec
-----------------------------------------------------------------------------
(***************************************************************************)
(* The ELF loader.  A call of the mapper gives memory to pages that have   *)
(* none and changes no other (MapperStep): what is in place stays there.   *)
(* The invariant adds which pages elf_load_seg asks for next (NextPage),   *)
(* that a page is mapped as a whole (PageWise), and which segment each     *)
(* page of an image with aligned segments was mapped for (Owned).          *)
(***************************************************************************)

(* A byte an env's memory may hold. *)
IsByte(v) ==
  \/ v \in {ZERO, FOREIGN, UNMAPPED}
  \/ \E s \in 1 .. Len(image) : \E j \in 0 .. image[s].filesz - 1 : v = <<s, j>>

ElfTypeOK ==
  /\ image \in Seq(Phdr)
  /\ pc \in {"elf_from", "bad elf", "phdr", "head", "seg", "loaded", "remap", "fault"}
  /\ idx \in Nat \ {0}
  /\ i \in Nat
  /\ DOMAIN mem = Addr /\ mem = [a \in Addr |-> mem[a]]
  /\ \A a \in Addr : IsByte(mem[a])
  /\ rw \subseteq Nat
  /\ empty \in BOOLEAN
  /\ call \in [offset : Nat, len : Nat]
  /\ failed \subseteq Nat

(* Where elf_load_seg is: it deals with a loadable segment, from its        *)
(* beginning, and asks for the page behind the last one, or for one it has  *)
(* mapped already, which mappages then refuses.                             *)
NextPage ==
  /\ pc \in {"head", "seg"} => idx \in Loadable
  /\ pc = "head" => Offset(image[idx]) # 0
  /\ pc = "seg" =>
       LET va == image[idx].vaddr + i
       IN  \/ va % PAGE_SIZE = 0
           \/ Offset(image[idx]) # 0 /\ i = image[idx].filesz /\ Mapped(va \div PAGE_SIZE)

(* A page is mapped as a whole, and only mapped pages have PTE_W. *)
PageWise ==
  /\ \A a \in Addr : mem[a] # UNMAPPED => Mapped(a \div PAGE_SIZE)
  /\ \A n \in rw : n * PAGE_SIZE \in Addr /\ Mapped(n)

Aligned == \A s \in Loadable : Offset(image[s]) = 0

(* The byte at address a is there because segment s has a page there. *)
MappedFor(a, s) ==
  /\ a \div PAGE_SIZE \in PagesOf(s)
  /\ s < idx \/ (s = idx /\ pc \notin {"elf_from", "phdr"} /\ a < image[s].vaddr + i)
  /\ a \div PAGE_SIZE \in rw <=> Writable(image[s])

(* If the segments are aligned, every page was mapped for one of them.      *)
Owned ==
  Aligned =>
    \A a \in Addr :
      mem[a] # UNMAPPED => /\ mem[a] = FOREIGN => empty
                           /\ \E s \in Loadable : MappedFor(a, s)

(* Byte j of segment s is where it belongs (the body of SegmentsInPlace).   *)
InPlace(s, j) ==
  LET byte == mem[image[s].vaddr + j]
  IN  IF j < image[s].filesz THEN byte = <<s, j>>
      ELSE byte = ZERO \/ (empty /\ byte = FOREIGN)

ElfInv ==
  /\ ElfTypeOK /\ NextPage /\ PageWise /\ Owned
  /\ CopyStaysInPage /\ SegmentsInPlace /\ NoNeedlessRemap
-----------------------------------------------------------------------------
(* The constants are numbers.                                               *)
LEMMA PageSize == PAGE_SIZE \in Nat /\ PAGE_SIZE >= 1 /\ MAXVA \in Nat /\ MAXSIZE \in Nat
  BY ElfAssumption

(* An address lies within its page.                                         *)
LEMMA InPage ==
  ASSUME NEW a \in Nat
  PROVE  \E n \in Nat, r \in 0 .. PAGE_SIZE - 1 :
           /\ n = a \div PAGE_SIZE /\ r = a % PAGE_SIZE
           /\ n * PAGE_SIZE \in Nat /\ a = n * PAGE_SIZE + r
  BY PageSize, Divide

(* A page begins at the product of its number.                              *)
LEMMA PageStart ==
  ASSUME NEW n \in Nat
  PROVE  /\ n * PAGE_SIZE \in Nat
         /\ (n * PAGE_SIZE) \div PAGE_SIZE = n
<1>1. 0 \in 0 .. PAGE_SIZE - 1
  BY PageSize
<1>2. n * PAGE_SIZE + 0 \in Nat /\ (n * PAGE_SIZE + 0) \div PAGE_SIZE = n
  BY <1>1, PageSize, Quotient
<1>3. n * PAGE_SIZE \in Nat
  BY PageSize
<1>4. n * PAGE_SIZE + 0 = n * PAGE_SIZE
  BY <1>3
<1> QED BY <1>2, <1>3, <1>4

(* Bytes that do not pass the end of the page are in it.                    *)
LEMMA Within ==
  ASSUME NEW a \in Nat, NEW k \in Nat, (a % PAGE_SIZE) + k < PAGE_SIZE
  PROVE  /\ (a + k) \div PAGE_SIZE = a \div PAGE_SIZE
         /\ (a + k) % PAGE_SIZE = (a % PAGE_SIZE) + k
<1>1. PICK n \in Nat, r \in 0 .. PAGE_SIZE - 1 :
             /\ n = a \div PAGE_SIZE /\ r = a % PAGE_SIZE
             /\ n * PAGE_SIZE \in Nat /\ a = n * PAGE_SIZE + r
  BY InPage
<1>4. r + k \in 0 .. PAGE_SIZE - 1
  BY <1>1, PageSize
<1>5. (n * PAGE_SIZE + (r + k)) \div PAGE_SIZE = n /\ (n * PAGE_SIZE + (r + k)) % PAGE_SIZE = r + k
  BY <1>4, PageSize, Quotient
<1>6. a + k = n * PAGE_SIZE + (r + k)
  BY <1>1
<1> QED BY <1>1, <1>5, <1>6

(* The page behind an aligned address.                                      *)
LEMMA Whole ==
  ASSUME NEW a \in Nat, a % PAGE_SIZE = 0
  PROVE  /\ (a + PAGE_SIZE - 1) \div PAGE_SIZE = a \div PAGE_SIZE
         /\ (a + PAGE_SIZE) % PAGE_SIZE = 0
         /\ a = (a \div PAGE_SIZE) * PAGE_SIZE
<1>1. PICK n \in Nat, r \in 0 .. PAGE_SIZE - 1 :
             /\ n = a \div PAGE_SIZE /\ r = a % PAGE_SIZE
             /\ n * PAGE_SIZE \in Nat /\ a = n * PAGE_SIZE + r
  BY InPage
<1>2. a = n * PAGE_SIZE
  BY <1>1
<1>3. (a + (PAGE_SIZE - 1)) \div PAGE_SIZE = a \div PAGE_SIZE
  <2>1. PAGE_SIZE - 1 \in Nat /\ (a % PAGE_SIZE) + (PAGE_SIZE - 1) < PAGE_SIZE
    BY PageSize
  <2> QED BY <2>1, Within
<1>4. a + PAGE_SIZE - 1 = a + (PAGE_SIZE - 1)
  BY PageSize
<1>5. ((n + 1) * PAGE_SIZE + 0) % PAGE_SIZE = 0
  BY PageSize, Quotient
<1>6. (n + 1) * PAGE_SIZE + 0 = a + PAGE_SIZE
  BY <1>2, PageSize
<1> QED BY <1>1, <1>2, <1>3, <1>4, <1>5, <1>6

(* PAGE_SIZE bytes from any address lie in one page or in two.              *)
LEMMA LastPage ==
  ASSUME NEW a \in Nat
  PROVE  (a + PAGE_SIZE - 1) \div PAGE_SIZE \in {a \div PAGE_SIZE, a \div PAGE_SIZE + 1}
<1>1. CASE a % PAGE_SIZE = 0
  BY <1>1, Whole
<1>2. CASE a % PAGE_SIZE # 0
  <2>1. PICK n \in Nat, r \in 0 .. PAGE_SIZE - 1 :
               /\ n = a \div PAGE_SIZE /\ r = a % PAGE_SIZE
               /\ n * PAGE_SIZE \in Nat /\ a = n * PAGE_SIZE + r
    BY InPage
  <2>2. r \in 1 .. PAGE_SIZE - 1
    BY <1>2, <2>1
  <2>4. ((n + 1) * PAGE_SIZE + (r - 1)) \div PAGE_SIZE = n + 1
    <3>1. n + 1 \in Nat /\ r - 1 \in 0 .. PAGE_SIZE - 1
      BY <2>1, <2>2, PageSize
    <3> QED BY <3>1, PageSize, Quotient
  <2>5. (n + 1) * PAGE_SIZE + (r - 1) = a + PAGE_SIZE - 1
    BY <2>1, <2>2, PageSize
  <2> QED BY <2>1, <2>4, <2>5
<1> QED BY <1>1, <1>2

(* The pages up to that of an address begin in front of it.                 *)
LEMMA Before ==
  ASSUME NEW a \in Nat, NEW n \in Nat, n <= a \div PAGE_SIZE
  PROVE  n * PAGE_SIZE \in Nat /\ n * PAGE_SIZE <= a
<1>1. PICK m \in Nat : m = a \div PAGE_SIZE
  BY InPage
<1>2. a >= m * PAGE_SIZE /\ m * PAGE_SIZE \in Nat /\ n * PAGE_SIZE \in Nat
  BY <1>1, InPage, PageSize
<1>3. n * PAGE_SIZE <= m * PAGE_SIZE
  BY <1>1, PageSize, TimesMonotone
<1> QED BY <1>2, <1>3
-----------------------------------------------------------------------------
(* The fields of a program header, and the addresses it may ask for.        *)
LEMMA PhdrFields ==
  ASSUME ElfTypeOK, NEW s \in 1 .. Len(image)
  PROVE  /\ image[s] \in Phdr
         /\ image[s].flags \in {5, 6} /\ image[s].vaddr \in Nat
         /\ image[s].filesz \in Nat /\ image[s].memsz \in Nat
         /\ image[s].filesz <= image[s].memsz /\ image[s].memsz <= MAXSIZE
         /\ image[s].vaddr + MAXSIZE + 2 * PAGE_SIZE <= MAXVA
<1>0. image \in Seq(Phdr)
  BY DEF ElfTypeOK
<1>1. image[s] \in Phdr
  BY <1>0
<1>2. PF_R + PF_X = 5 /\ PF_R + PF_W = 6
  BY DEF PF_R, PF_X, PF_W
<1>3. /\ image[s].flags \in {5, 6} /\ image[s].vaddr \in VADDRS
      /\ image[s].filesz \in 0 .. MAXSIZE /\ image[s].memsz \in 0 .. MAXSIZE
      /\ image[s].filesz <= image[s].memsz
  BY <1>1, <1>2 DEF Phdr
<1> QED BY <1>1, <1>3, PageSize, ElfAssumption

(* The bytes of a segment, and the pages behind them, have addresses.       *)
LEMMA SegmentAddr ==
  ASSUME ElfTypeOK, NEW s \in 1 .. Len(image), NEW j \in Nat, j <= image[s].memsz
  PROVE  image[s].vaddr + j \in Addr /\ image[s].vaddr + j + 2 * PAGE_SIZE <= MAXVA
<1>1. PICK v \in Nat : v = image[s].vaddr /\ v + MAXSIZE + 2 * PAGE_SIZE <= MAXVA /\ j <= MAXSIZE
  BY PhdrFields, PageSize
<1>2. v + j \in 0 .. MAXVA - 1 /\ v + j + 2 * PAGE_SIZE <= MAXVA
  BY <1>1, PageSize, SMTT(30)
<1> QED BY <1>1, <1>2 DEF Addr

(* The pages of PAGE_SIZE bytes from va on. *)
First(va) == va \div PAGE_SIZE
Last(va) == (va + PAGE_SIZE - 1) \div PAGE_SIZE

(* What a call of the mapper does: the pages in new, which had no memory,   *)
(* get it; then elf_load_seg goes on, or gives up, or the kernel stops.     *)
Effect(va, content, dry, new) ==
  /\ \A n \in new : n \in First(va) .. Last(va) /\ ~Mapped(n)
  /\ mem' = [a \in Addr |-> IF a \div PAGE_SIZE \notin new THEN mem[a]
                            ELSE IF a \div PAGE_SIZE = First(va) THEN content[a % PAGE_SIZE]
                            ELSE FOREIGN]
  /\ rw' = rw \cup (IF Writable(image[idx]) THEN new ELSE {})
  /\ empty' \in BOOLEAN /\ (empty \/ dry => empty')
  /\ \/ pc' = "seg" /\ new = First(va) .. Last(va) /\ UNCHANGED <<idx, failed>>
     \/ pc' = "phdr" /\ idx' = idx + 1 /\ failed' = failed \cup {idx}
     \/ pc' = "remap" /\ (\E n \in First(va) .. Last(va) : Mapped(n)) /\ UNCHANGED <<idx, failed>>
     \/ pc' = "fault" /\ UNCHANGED <<idx, failed>>

(* The mapper has such an effect, and does not go on without a page to copy *)
(* bytes to.                                                                *)
LEMMA MapperStep ==
  ASSUME ElfTypeOK, NEW va \in Nat, NEW offset \in Nat, NEW src \in Int, NEW len \in Nat,
         load_icode_mapper(va, offset, src, len)
  PROVE  \E dry \in BOOLEAN, new \in SUBSET Nat :
           /\ Effect(va, Filled(dry, offset, src, len), dry, new)
           /\ pc' # "fault" => ~(dry /\ src >= 0 /\ len > 0)
<1>0. First(va) \in Nat /\ Last(va) \in Nat
  <2>1. va + PAGE_SIZE - 1 \in Nat
    BY PageSize
  <2> QED BY <2>1, InPage DEF First, Last
<1>1. PICK dry \in {empty, TRUE} :
        IF dry /\ src >= 0 /\ len > 0
        THEN pc' = "fault" /\ empty' = TRUE /\ UNCHANGED <<idx, mem, rw, failed>>
        ELSE mappages(va, Filled(dry, offset, src, len), dry, "seg")
  BY DEF load_icode_mapper
<1>2. dry \in BOOLEAN /\ (empty => dry)
  BY <1>1 DEF ElfTypeOK
<1>3. CASE dry /\ src >= 0 /\ len > 0
  <2>1. pc' = "fault" /\ empty' = TRUE /\ UNCHANGED <<idx, mem, rw, failed>>
    BY <1>1, <1>3
  <2>2. mem' = [a \in Addr |-> mem[a]]
    BY <2>1 DEF ElfTypeOK
  <2>3. Effect(va, Filled(dry, offset, src, len), dry, {})
    BY <2>1, <2>2 DEF Effect
  <2> QED BY <1>2, <2>1, <2>3
<1>4. CASE ~(dry /\ src >= 0 /\ len > 0)
  <2> DEFINE content == Filled(dry, offset, src, len)
  <2>1. mappages(va, content, dry, "seg")
    BY <1>1, <1>4
  <2> HIDE DEF content
  <2> DEFINE taken(end) == {n \in First(va) .. end - 1 : Mapped(n)}
             new(end) == {n \in First(va) .. end - 1 : \A m \in taken(end) : n < m}
  <2>2. PICK end \in First(va) .. Last(va) + 1 :
          /\ end <= Last(va) => ~Mapped(end)
          /\ empty' \in {dry \/ end <= Last(va), TRUE}
          /\ mem' = [a \in Addr |-> IF a \div PAGE_SIZE \notin new(end) THEN mem[a]
                                    ELSE IF a \div PAGE_SIZE = First(va) THEN content[a % PAGE_SIZE]
                                    ELSE FOREIGN]
          /\ rw' = rw \cup (IF Writable(image[idx]) THEN new(end) ELSE {})
          /\ IF taken(end) # {} THEN pc' = "remap" /\ UNCHANGED <<idx, failed>>
             ELSE IF end <= Last(va) THEN /\ pc' = "phdr"
                                          /\ idx' = idx + 1
                                          /\ failed' = failed \cup {idx}
             ELSE pc' = "seg" /\ UNCHANGED <<idx, failed>>
    BY <2>1 DEF mappages, First, Last
  <2>3. new(end) \in SUBSET Nat /\ \A n \in new(end) : n \in First(va) .. Last(va) /\ ~Mapped(n)
    BY <1>0
  <2>4. empty' \in BOOLEAN /\ (empty \/ dry => empty')
    BY <1>2, <2>2
  <2>5. pc' = "seg" => taken(end) = {} /\ end = Last(va) + 1
    BY <1>0, <2>2
  <2>6. pc' = "seg" => new(end) = First(va) .. Last(va)
    BY <1>0, <2>5
  <2>7. pc' = "remap" => \E n \in First(va) .. Last(va) : Mapped(n)
    BY <1>0, <2>2
  <2>8. Effect(va, content, dry, new(end))
    BY <2>2, <2>3, <2>4, <2>6, <2>7 DEF Effect
  <2> QED BY <1>2, <1>4, <2>3, <2>8 DEF content
<1> QED BY <1>3, <1>4

(* The pages a call may map lie in the address space.                       *)
LEMMA PagesExist ==
  ASSUME NEW va \in Nat, va + 2 * PAGE_SIZE <= MAXVA, NEW n \in First(va) .. Last(va)
  PROVE  n \in Nat /\ n * PAGE_SIZE \in Addr /\ (n * PAGE_SIZE) \div PAGE_SIZE = n
<1>1. va + PAGE_SIZE - 1 \in Nat /\ va + PAGE_SIZE - 1 < MAXVA
  BY PageSize
<1>2. First(va) \in Nat /\ Last(va) \in Nat
  BY <1>1, InPage DEF First, Last
<1>3. n \in Nat /\ n <= (va + PAGE_SIZE - 1) \div PAGE_SIZE
  BY <1>2 DEF Last
<1>4. n * PAGE_SIZE \in Nat /\ n * PAGE_SIZE <= va + PAGE_SIZE - 1
  BY <1>1, <1>3, Before
<1> QED BY <1>1, <1>3, <1>4, PageStart, PageSize DEF Addr

(* What is copied to a page are bytes an env may have.                      *)
LEMMA FilledBytes ==
  ASSUME ElfTypeOK, idx \in 1 .. Len(image), NEW dry \in BOOLEAN,
         NEW offset \in Nat, NEW src \in Int, NEW len \in Nat,
         src >= 0 => src + len <= image[idx].filesz,
         NEW b \in 0 .. PAGE_SIZE - 1
  PROVE  /\ IsByte(Filled(dry, offset, src, len)[b])
         /\ Filled(dry, offset, src, len)[b] # UNMAPPED
<1> DEFINE v == Filled(dry, offset, src, len)[b]
<1>1. idx \in Nat /\ idx # 0 /\ image[idx].filesz \in Nat
  BY PhdrFields
<1>2. CASE dry
  BY <1>2 DEF Filled, IsByte, FOREIGN, UNMAPPED
<1>3. CASE ~dry /\ src >= 0 /\ b \in offset .. offset + len - 1
  <2>1. v = <<idx, src + b - offset>>
    BY <1>3 DEF Filled
  <2>2. src + b - offset \in 0 .. image[idx].filesz - 1
    <3>1. PICK n \in Nat : n = image[idx].filesz
      BY <1>1
    <3>2. src + len <= n /\ b \in Int
      BY <1>3, <3>1, PageSize
    <3>3. src + b - offset \in 0 .. n - 1
      BY ONLY src \in Int, len \in Nat, offset \in Nat, n \in Nat, <1>3, <3>2
    <3> QED BY <3>1, <3>3
  <2> QED BY <1>1, <2>1, <2>2 DEF IsByte, UNMAPPED
<1>4. CASE ~dry /\ ~(src >= 0 /\ b \in offset .. offset + len - 1)
  <2>1. v = ZERO
    BY <1>4 DEF Filled
  <2> QED BY <2>1 DEF IsByte, ZERO, UNMAPPED
<1> QED BY <1>2, <1>3, <1>4

(* The hypotheses on a call of the mapper. *)
GoodCall(va, offset, src, len) ==
  /\ idx \in 1 .. Len(image)
  /\ va \in Nat /\ va + 2 * PAGE_SIZE <= MAXVA
  /\ offset \in Nat /\ src \in Int /\ len \in Nat
  /\ src >= 0 => src + len <= image[idx].filesz

(* Memory that is there is not changed, and the new pages get all theirs.   *)
LEMMA MemoryKept ==
  ASSUME ElfTypeOK, PageWise, NEW va, NEW offset, NEW src, NEW len, GoodCall(va, offset, src, len),
         NEW dry \in BOOLEAN, NEW new \in SUBSET Nat, Effect(va, Filled(dry, offset, src, len), dry, new),
         UNCHANGED image, NEW a \in Addr
  PROVE  /\ mem[a] # UNMAPPED => a \div PAGE_SIZE \notin new
         /\ a \div PAGE_SIZE \notin new => mem'[a] = mem[a]
         /\ a \div PAGE_SIZE \in new => mem'[a] # UNMAPPED
         /\ IsByte(mem[a])'
<1> DEFINE content == Filled(dry, offset, src, len)
<1>1. mem[a] # UNMAPPED => a \div PAGE_SIZE \notin new
  BY DEF PageWise, Effect
<1>2. mem'[a] = IF a \div PAGE_SIZE \notin new THEN mem[a]
                ELSE IF a \div PAGE_SIZE = First(va) THEN content[a % PAGE_SIZE]
                ELSE FOREIGN
  BY DEF Effect
<1>3. a % PAGE_SIZE \in 0 .. PAGE_SIZE - 1
  BY PageSize, InPage DEF Addr
<1>4. IsByte(content[a % PAGE_SIZE]) /\ content[a % PAGE_SIZE] # UNMAPPED
  BY <1>3, FilledBytes DEF GoodCall
<1>5. IsByte(mem[a]) /\ IsByte(FOREIGN) /\ FOREIGN # UNMAPPED
  <2>1. IsByte(mem[a])
    BY DEF ElfTypeOK
  <2> QED BY <2>1 DEF IsByte, FOREIGN, UNMAPPED
<1>6. IsByte(mem'[a])
  BY <1>2, <1>4, <1>5
<1>7. IsByte(mem[a])'
  BY <1>6 DEF IsByte
<1> QED BY <1>1, <1>2, <1>4, <1>5, <1>7

(* A call of the mapper keeps the types.                                    *)
LEMMA MapperTypes ==
  ASSUME ElfTypeOK, PageWise, NEW va, NEW offset, NEW src, NEW len, GoodCall(va, offset, src, len),
         NEW dry \in BOOLEAN, NEW new \in SUBSET Nat, Effect(va, Filled(dry, offset, src, len), dry, new),
         UNCHANGED image, i' \in Nat, call' = [offset |-> offset, len |-> len]
  PROVE  ElfTypeOK'
<1>1. \A a \in Addr : IsByte(mem[a])'
  BY MemoryKept
<1>2. DOMAIN mem' = Addr /\ mem' = [a \in Addr |-> mem'[a]]
  BY DEF Effect
<1>3. image' \in Seq(Phdr) /\ idx' \in Nat \ {0} /\ rw' \subseteq Nat /\ failed' \subseteq Nat
  <2>1. image \in Seq(Phdr) /\ idx \in Nat \ {0} /\ rw \subseteq Nat /\ failed \subseteq Nat
    BY DEF ElfTypeOK
  <2>2. rw' \subseteq rw \cup new /\ idx' \in {idx, idx + 1} /\ failed' \subseteq failed \cup {idx}
    BY DEF Effect
  <2> QED BY <2>1, <2>2
<1>4. /\ pc' \in {"elf_from", "bad elf", "phdr", "head", "seg", "loaded", "remap", "fault"}
      /\ empty' \in BOOLEAN
  BY DEF Effect
<1>5. call' \in [offset : Nat, len : Nat]
  BY DEF GoodCall
<1> QED BY <1>1, <1>2, <1>3, <1>4, <1>5 DEF ElfTypeOK

(* A page that is mapped, or newly mapped, is mapped then.                  *)
LEMMA MappedKept ==
  ASSUME ElfTypeOK, PageWise, NEW va, NEW offset, NEW src, NEW len, GoodCall(va, offset, src, len),
         NEW dry \in BOOLEAN, NEW new \in SUBSET Nat, Effect(va, Filled(dry, offset, src, len), dry, new),
         UNCHANGED image, NEW n \in Nat, n * PAGE_SIZE \in Addr, Mapped(n) \/ n \in new
  PROVE  Mapped(n)'
<1>1. (n * PAGE_SIZE) \div PAGE_SIZE = n
  BY PageStart
<1>2. mem'[n * PAGE_SIZE] # UNMAPPED
  BY <1>1, MemoryKept DEF Mapped
<1> QED BY <1>2 DEF Mapped

(* A call of the mapper maps pages as a whole.                              *)
LEMMA MapperPageWise ==
  ASSUME ElfTypeOK, PageWise, NEW va, NEW offset, NEW src, NEW len, GoodCall(va, offset, src, len),
         NEW dry \in BOOLEAN, NEW new \in SUBSET Nat, Effect(va, Filled(dry, offset, src, len), dry, new),
         UNCHANGED image
  PROVE  PageWise'
<1>1. ASSUME NEW a \in Addr, mem'[a] # UNMAPPED
      PROVE  Mapped(a \div PAGE_SIZE)'
  <2>1. a \in Nat /\ a < MAXVA
    BY PageSize DEF Addr
  <2>2. PICK n \in Nat : n = a \div PAGE_SIZE /\ n * PAGE_SIZE \in Nat /\ n * PAGE_SIZE <= a
    BY <2>1, InPage
  <2>3. n * PAGE_SIZE \in Addr
    BY <2>1, <2>2, PageSize DEF Addr
  <2>4. Mapped(n) \/ n \in new
    BY <1>1, <2>2, MemoryKept DEF PageWise
  <2> QED BY <2>2, <2>3, <2>4, MappedKept
<1>2. ASSUME NEW n \in rw'
      PROVE  n * PAGE_SIZE \in Addr /\ Mapped(n)'
  <2>1. CASE n \in new
    <3>1. n \in First(va) .. Last(va)
      BY <2>1 DEF Effect
    <3>2. n \in Nat /\ n * PAGE_SIZE \in Addr
      BY <3>1, PagesExist DEF GoodCall
    <3> QED BY <2>1, <3>2, MappedKept
  <2>2. CASE n \notin new
    <3>1. n \in rw /\ n \in Nat /\ n * PAGE_SIZE \in Addr /\ Mapped(n)
      BY <2>2 DEF Effect, PageWise, ElfTypeOK
    <3> QED BY <3>1, MappedKept
  <2> QED BY <2>1, <2>2
<1> QED BY <1>1, <1>2 DEF PageWise

(* The segments that are in place stay there, if the bytes the call is for  *)
(* get to their places.                                                     *)
LEMMA MapperSegments ==
  ASSUME ElfTypeOK, PageWise, SegmentsInPlace,
         NEW va, NEW offset, NEW src, NEW len, GoodCall(va, offset, src, len),
         NEW dry \in BOOLEAN, NEW new \in SUBSET Nat, Effect(va, Filled(dry, offset, src, len), dry, new),
         UNCHANGED image, i' \in Nat,
         pc \in {"head", "seg"},
         \A j \in Nat : /\ pc' = "seg" /\ j < i' /\ j < image[idx].memsz
                        /\ pc = "seg" => j >= i
                        => InPlace(idx, j)'
  PROVE  SegmentsInPlace'
<1> SUFFICES ASSUME NEW s \in 1 .. Len(image), NEW j \in 0 .. Progress(s)' - 1
             PROVE  InPlace(s, j)'
  BY DEF SegmentsInPlace, InPlace
<1>1. /\ s \in Nat /\ idx \in Nat /\ i \in Nat /\ idx \in 1 .. Len(image)
      /\ image[s].memsz \in Nat /\ image[idx].memsz \in Nat /\ image[s].memsz <= MAXSIZE
      /\ image[s].vaddr \in Nat /\ image[s].vaddr + MAXSIZE + 2 * PAGE_SIZE <= MAXVA
  <2>1. idx \in Nat /\ i \in Nat /\ image \in Seq(Phdr)
    BY DEF ElfTypeOK
  <2>2. s \in Nat /\ idx \in 1 .. Len(image)
    BY <2>1 DEF GoodCall
  <2> QED BY <2>1, <2>2, PhdrFields
<1>2. Progress(s) \in 0 .. image[s].memsz /\ Progress(s)' \in 0 .. image[s].memsz
  BY <1>1 DEF Progress, MIN
<1>2a. j \in Nat /\ j < image[s].memsz
  BY <1>1, <1>2
<1>3. CASE j < Progress(s)
  <2>1. InPlace(s, j)
    <3>1. j \in 0 .. Progress(s) - 1
      BY <1>2, <1>2a, <1>3
    <3> QED BY <3>1 DEF SegmentsInPlace, InPlace
  <2>2. image[s].vaddr + j \in Addr
    <3>1. j <= image[s].memsz
      BY <1>1, <1>2a
    <3> QED BY <1>2a, <3>1, SegmentAddr
  <2>3. mem[image[s].vaddr + j] # UNMAPPED
    BY <1>1, <1>2a, <2>1 DEF InPlace, ZERO, FOREIGN, UNMAPPED
  <2>4. mem'[image[s].vaddr + j] = mem[image[s].vaddr + j]
    BY <2>2, <2>3, MemoryKept
  <2>5. empty => empty'
    BY DEF Effect
  <2> QED BY <2>1, <2>4, <2>5 DEF InPlace
<1>4. CASE ~(j < Progress(s))
  <2>1. Progress(s)' # 0 /\ Progress(s)' > Progress(s)
    BY <1>2, <1>2a, <1>4
  <2>2. (idx' = idx /\ failed' = failed) \/ (idx' = idx + 1 /\ pc' = "phdr" /\ failed' = failed \cup {idx})
    BY DEF Effect
  <2>3. s \notin failed' /\ s <= idx'
    BY <1>1, <2>1, <2>2 DEF Progress
  <2>4. s = idx /\ idx' = idx /\ pc' = "seg"
    BY <1>1, <2>1, <2>2, <2>3 DEF Progress
  <2>5. j < i' /\ j < image[idx].memsz /\ j \in Nat
    BY <1>1, <1>2, <2>3, <2>4 DEF Progress, MIN
  <2>6. pc = "seg" => j >= i
    BY <1>1, <1>2a, <1>4, <2>1, <2>2, <2>3, <2>4, <2>5 DEF Progress, MIN
  <2> QED BY <2>4, <2>5, <2>6
<1> QED BY <1>3, <1>4

(* The segments do not change while they are loaded.                        *)
LEMMA SameSegments ==
  ASSUME UNCHANGED image
  PROVE  /\ Loadable' = Loadable
         /\ Aligned' <=> Aligned
         /\ \A s : PagesOf(s)' = PagesOf(s)
  BY DEF Loadable, Aligned, PagesOf

(* What a call for the bytes of the segment from i on, in an aligned image, *)
(* is about: one page, which is one of the segment's.                       *)
LEMMA AlignedCall ==
  ASSUME ElfTypeOK, NextPage, Aligned, pc = "seg", i < image[idx].memsz
  PROVE  LET va == image[idx].vaddr + i
         IN  /\ idx \in Loadable /\ va \in Nat /\ va % PAGE_SIZE = 0
             /\ First(va) \in Nat /\ Last(va) = First(va)
             /\ va = First(va) * PAGE_SIZE /\ First(va) \in PagesOf(idx)
<1> DEFINE va == image[idx].vaddr + i
<1>1. idx \in Loadable /\ Offset(image[idx]) = 0
  BY DEF NextPage, Aligned
<1>2. idx \in 1 .. Len(image)
  BY <1>1 DEF Loadable
<1>3. i \in Nat /\ image[idx].vaddr \in Nat /\ image[idx].memsz \in Nat
  BY <1>2, PhdrFields DEF ElfTypeOK
<1>4. va \in Nat /\ i \in 0 .. image[idx].memsz - 1
  BY <1>3
<1>5. va % PAGE_SIZE = 0
  BY <1>1 DEF NextPage
<1>6. First(va) \in Nat
  BY <1>4, InPage DEF First
<1>7. Last(va) = First(va) /\ va = First(va) * PAGE_SIZE
  BY <1>4, <1>5, Whole DEF First, Last
<1>8. First(va) \in PagesOf(idx)
  BY <1>4 DEF PagesOf, First
<1> QED BY <1>1, <1>4, <1>5, <1>6, <1>7, <1>8

(* In an aligned image the page the call maps is the segment's own.         *)
LEMMA MapperOwned ==
  ASSUME ElfTypeOK, NextPage, PageWise, Owned, pc = "seg", i < image[idx].memsz,
         NEW offset, NEW src, NEW len, GoodCall(image[idx].vaddr + i, offset, src, len),
         NEW dry \in BOOLEAN, NEW new \in SUBSET Nat,
         Effect(image[idx].vaddr + i, Filled(dry, offset, src, len), dry, new),
         UNCHANGED image, i' = i + PAGE_SIZE
  PROVE  Owned'
<1> DEFINE va == image[idx].vaddr + i
<1> SUFFICES ASSUME Aligned, NEW a \in Addr, mem'[a] # UNMAPPED
             PROVE  (mem'[a] = FOREIGN => empty') /\ \E s \in Loadable : MappedFor(a, s)'
  BY SameSegments DEF Owned
<1>1. /\ idx \in Loadable /\ va \in Nat /\ va % PAGE_SIZE = 0
      /\ First(va) \in Nat /\ Last(va) = First(va)
      /\ va = First(va) * PAGE_SIZE /\ First(va) \in PagesOf(idx)
  BY AlignedCall
<1>2. \A n \in new : n = First(va)
  BY <1>1 DEF Effect
<1>3. /\ idx \in Nat /\ i \in Nat /\ i' \in Nat /\ i <= i'
      /\ \A s \in Loadable : s \in Nat /\ image[s].vaddr \in Nat
  <2>1. idx \in Nat /\ i \in Nat /\ image \in Seq(Phdr)
    BY DEF ElfTypeOK
  <2>2. \A s \in Loadable : s \in 1 .. Len(image) /\ s \in Nat
    BY <2>1 DEF Loadable
  <2>3. \A s \in Loadable : image[s].vaddr \in Nat
    BY <2>2, PhdrFields
  <2> QED BY <2>1, <2>2, <2>3, PageSize
<1>4. (pc' = "phdr" /\ idx' = idx + 1) \/ (pc' \notin {"elf_from", "phdr"} /\ idx' = idx)
  BY DEF Effect
<1>5. CASE a \div PAGE_SIZE \in new
  <2>1. a \div PAGE_SIZE = First(va) /\ a \in Nat
    BY <1>2, <1>5, PageSize DEF Addr
  <2>2. a < va + PAGE_SIZE
    <3>1. PICK n \in Nat, r \in 0 .. PAGE_SIZE - 1 :
                 /\ n = a \div PAGE_SIZE /\ r = a % PAGE_SIZE
                 /\ n * PAGE_SIZE \in Nat /\ a = n * PAGE_SIZE + r
      BY <2>1, InPage
    <3>2. n * PAGE_SIZE = va
      BY <1>1, <2>1, <3>1
    <3>3. a = va + r
      BY <3>1, <3>2, Zenon
    <3> HIDE DEF va
    <3> QED BY <1>1, <3>1, <3>3, PageSize
  <2>3. a < image[idx].vaddr + i'
    BY <1>1, <1>3, <2>1, <2>2, PageSize
  <2>4. a \div PAGE_SIZE \in rw' <=> Writable(image[idx])
    <3>1. ~Mapped(a \div PAGE_SIZE)
      BY <1>5 DEF Effect
    <3>2. a \div PAGE_SIZE \notin rw
      BY <3>1 DEF PageWise
    <3> QED BY <1>5, <3>2 DEF Effect
  <2>5. idx < idx' \/ (idx = idx' /\ pc' \notin {"elf_from", "phdr"} /\ a < image[idx].vaddr + i')
    BY <1>3, <1>4, <2>3
  <2>6. \A s : s = idx => MappedFor(a, s)'
    BY <1>1, <2>1, <2>4, <2>5, SameSegments DEF MappedFor, Writable
  <2>7. mem'[a] = FOREIGN => empty'
    <3>1. mem'[a] = Filled(dry, offset, src, len)[a % PAGE_SIZE]
      BY <1>5, <2>1 DEF Effect
    <3>2. a % PAGE_SIZE \in 0 .. PAGE_SIZE - 1
      BY <2>1, InPage
    <3>3. idx # 0
      BY DEF ElfTypeOK
    <3>4. mem'[a] = FOREIGN => dry
      BY <3>1, <3>2, <3>3 DEF Filled, FOREIGN, ZERO
    <3> QED BY <3>4 DEF Effect
  <2> QED BY <1>1, <2>6, <2>7
<1>6. CASE a \div PAGE_SIZE \notin new
  <2>1. mem'[a] = mem[a] /\ mem[a] # UNMAPPED
    <3>1. mem'[a] = mem[a]
      BY <1>6 DEF Effect
    <3> QED BY <3>1
  <2>2. PICK s \in Loadable : MappedFor(a, s)
    BY <2>1 DEF Owned
  <2>3. (mem[a] = FOREIGN => empty) /\ (empty => empty')
    BY <2>1 DEF Owned, Effect
  <2>4. a \div PAGE_SIZE \in rw' <=> a \div PAGE_SIZE \in rw
    BY <1>6 DEF Effect
  <2>5. s < idx' \/ (s = idx' /\ pc' \notin {"elf_from", "phdr"} /\ a < image[s].vaddr + i')
    <3>1. CASE s < idx
      BY <1>3, <1>4, <3>1
    <3>2. CASE s = idx /\ a < image[s].vaddr + i
      <4>1. a \in Int
        BY PageSize DEF Addr
      <4> QED BY <1>3, <1>4, <3>2, <4>1
    <3> QED BY <2>2, <3>1, <3>2 DEF MappedFor
  <2>6. MappedFor(a, s)'
    BY <2>2, <2>4, <2>5, SameSegments DEF MappedFor, Writable
  <2> QED BY <2>1, <2>3, <2>6
<1> QED BY <1>5, <1>6

(* In an aligned image mappages finds a page taken only if two segments     *)
(* share it.                                                                *)
LEMMA MapperRemap ==
  ASSUME ElfTypeOK, NextPage, Owned, pc = "seg", i < image[idx].memsz,
         NEW content, NEW dry, NEW new, Effect(image[idx].vaddr + i, content, dry, new),
         GoodCall(image[idx].vaddr + i, 0, 0, 0), UNCHANGED image
  PROVE  NoNeedlessRemap'
<1> DEFINE va == image[idx].vaddr + i
<1> SUFFICES ASSUME pc' = "remap", Aligned
             PROVE  \E s, t \in Loadable : s # t /\ PagesOf(s) \cap PagesOf(t) # {}
  BY SameSegments DEF NoNeedlessRemap, Aligned
<1>1. /\ idx \in Loadable /\ va \in Nat
      /\ First(va) \in Nat /\ Last(va) = First(va)
      /\ va = First(va) * PAGE_SIZE /\ First(va) \in PagesOf(idx)
  BY AlignedCall
<1>2. Mapped(First(va))
  BY <1>1 DEF Effect
<1>3. va \in Addr /\ va \div PAGE_SIZE = First(va)
  BY <1>1, PageSize DEF GoodCall, Addr, First
<1>4. mem[va] # UNMAPPED
  BY <1>1, <1>2 DEF Mapped
<1>5. PICK t \in Loadable : MappedFor(va, t)
  BY <1>3, <1>4 DEF Owned
<1>6. t # idx
  <2>1. idx \in Nat
    BY DEF ElfTypeOK
  <2>2. ~(va < image[idx].vaddr + i) /\ ~(idx < idx)
    BY <1>1, <2>1
  <2> QED BY <1>5, <2>2 DEF MappedFor
<1>7. First(va) \in PagesOf(t)
  BY <1>3, <1>5 DEF MappedFor
<1> QED BY <1>1, <1>6, <1>7
-----------------------------------------------------------------------------
(* Where a byte of the page gets to, when elf_load_seg goes on.             *)
LEMMA PlacedByte ==
  ASSUME NEW va \in Nat, NEW k \in Nat, (va % PAGE_SIZE) + k < PAGE_SIZE, va + k \in Addr,
         NEW content, NEW dry, NEW new, Effect(va, content, dry, new), pc' = "seg"
  PROVE  mem'[va + k] = content[(va % PAGE_SIZE) + k]
<1>1. (va + k) \div PAGE_SIZE = First(va) /\ (va + k) % PAGE_SIZE = (va % PAGE_SIZE) + k
  BY Within DEF First
<1>2. First(va) \in First(va) .. Last(va)
  <2>1. First(va) \in Nat
    BY InPage DEF First
  <2>2. Last(va) \in {First(va), First(va) + 1}
    BY LastPage DEF First, Last
  <2> QED BY <2>1, <2>2
<1>3. First(va) \in new
  BY <1>2 DEF Effect
<1> QED BY <1>1, <1>3 DEF Effect

(* A round for a page of the file.                                          *)
LEMMA LoadFileKeeps ==
  ASSUME ElfInv, LoadFile
  PROVE  ElfInv'
<1> DEFINE ph == image[idx]
           va == ph.vaddr + i
           len == MIN(ph.filesz - i, PAGE_SIZE)
<1>1. /\ pc = "seg" /\ i < ph.filesz /\ load_icode_mapper(va, 0, i, len)
      /\ i' = i + PAGE_SIZE /\ UNCHANGED image
  BY DEF LoadFile, InFile
<1>2. /\ idx \in 1 .. Len(image) /\ idx \in Loadable /\ i \in Nat /\ ph.vaddr \in Nat
      /\ ph.filesz \in Nat /\ ph.memsz \in Nat /\ ph.filesz <= ph.memsz
  <2>1. idx \in 1 .. Len(image) /\ idx \in Loadable
    BY <1>1 DEF ElfInv, NextPage, Loadable
  <2> QED BY <2>1, PhdrFields DEF ElfInv, ElfTypeOK
<1>3. /\ len \in Nat /\ len > 0 /\ len <= PAGE_SIZE /\ i + len <= ph.filesz
      /\ len = ph.filesz - i \/ len = PAGE_SIZE
  BY <1>1, <1>2, PageSize, SMTT(60) DEF MIN
<1>4. GoodCall(va, 0, i, len) /\ GoodCall(va, 0, 0, 0)
  <2>1. i <= ph.memsz /\ va \in Nat
    BY <1>1, <1>2
  <2>2. va + 2 * PAGE_SIZE <= MAXVA
    <3>1. ElfTypeOK
      BY DEF ElfInv
    <3> QED BY ONLY <3>1, <1>2, <2>1, SegmentAddr
  <2> QED BY <1>2, <1>3, <2>1, <2>2 DEF GoodCall
<1>5. va % PAGE_SIZE = 0
  BY <1>1, <1>2 DEF ElfInv, NextPage
<1>6. PICK dry \in BOOLEAN, new \in SUBSET Nat :
        /\ Effect(va, Filled(dry, 0, i, len), dry, new)
        /\ pc' # "fault" => ~(dry /\ i >= 0 /\ len > 0)
  BY <1>1, <1>4, MapperStep, ZenonT(60) DEF ElfInv, GoodCall
<1>7. i' \in Nat /\ call' = [offset |-> 0, len |-> len]
  BY <1>1, <1>2, PageSize DEF load_icode_mapper
<1>8. ElfTypeOK' /\ PageWise'
  BY <1>1, <1>4, <1>6, <1>7, MapperTypes, MapperPageWise DEF ElfInv
<1>9. CopyStaysInPage'
  BY <1>3, <1>7, PageSize DEF CopyStaysInPage
<1>10. Owned'
  <2>1. i < ph.memsz /\ ElfTypeOK /\ NextPage /\ PageWise /\ Owned
    BY <1>1, <1>2 DEF ElfInv
  <2> QED BY <1>1, <1>4, <1>6, <2>1, MapperOwned
<1>11. NoNeedlessRemap'
  BY <1>1, <1>2, <1>4, <1>6, MapperRemap DEF ElfInv
<1>12. NextPage'
  <2>1. pc' = "seg" => idx' = idx
    BY <1>6 DEF Effect
  <2>2. (va + PAGE_SIZE) % PAGE_SIZE = 0
    BY <1>4, <1>5, Whole DEF GoodCall
  <2>3. ph.vaddr + i' = va + PAGE_SIZE
    BY <1>1, <1>2, PageSize
  <2>4. pc' # "head"
    BY <1>6 DEF Effect
  <2> QED BY <1>1, <1>2, <2>1, <2>2, <2>3, <2>4, SameSegments DEF NextPage
<1>13. SegmentsInPlace'
  <2>1. ASSUME NEW j \in Nat, pc' = "seg", j < i', j < ph.memsz, j >= i
        PROVE  InPlace(idx, j)'
    <3>1. PICK k \in Nat : k < PAGE_SIZE /\ j = i + k
      <4>1. j - i \in Nat /\ j - i < PAGE_SIZE /\ j = i + (j - i)
        BY <1>1, <1>2, <2>1, PageSize
      <4> QED BY <4>1
    <3>2. va + k = ph.vaddr + j /\ va + k \in Addr
      <4>1. ElfTypeOK
        BY DEF ElfInv
      <4>2. j <= ph.memsz
        BY <1>2, <2>1
      <4>3. ph.vaddr + j \in Addr
        BY ONLY <4>1, <4>2, <1>2, j \in Nat, SegmentAddr
      <4>4. va + k = ph.vaddr + j
        BY <1>2, <3>1
      <4> QED BY <4>3, <4>4
    <3>3. mem'[ph.vaddr + j] = Filled(dry, 0, i, len)[k]
      <4>1. va \in Nat /\ (va % PAGE_SIZE) + k = k
        BY <1>4, <1>5, <3>1 DEF GoodCall
      <4>2. mem'[va + k] = Filled(dry, 0, i, len)[(va % PAGE_SIZE) + k]
        BY <1>6, <2>1, <3>1, <3>2, <4>1, PlacedByte
      <4> QED BY <3>2, <4>1, <4>2
    <3>4. ~dry
      BY <1>2, <1>3, <1>6, <2>1
    <3>5. Filled(dry, 0, i, len)[k] = IF k < len THEN <<idx, j>> ELSE ZERO
      <4>1. k \in 0 .. PAGE_SIZE - 1 /\ i + k - 0 = j /\ (k \in 0 .. 0 + len - 1 <=> k < len) /\ i >= 0
        BY <1>2, <1>3, <3>1, PageSize
      <4> QED BY <3>4, <4>1 DEF Filled
    <3>6. k < len <=> j < ph.filesz
      BY <1>2, <1>3, <3>1, PageSize, SMTT(30)
    <3>7. idx' = idx
      BY <1>6, <2>1 DEF Effect
    <3> QED BY <1>1, <3>3, <3>5, <3>6, <3>7 DEF InPlace
  <2> QED BY <1>1, <1>4, <1>6, <1>7, <2>1, MapperSegments DEF ElfInv
<1> QED BY <1>8, <1>9, <1>10, <1>11, <1>12, <1>13 DEF ElfInv

(* A round for a page the file has nothing for.                             *)
LEMMA LoadZeroKeeps ==
  ASSUME ElfInv, LoadZero
  PROVE  ElfInv'
<1> DEFINE ph == image[idx]
           va == ph.vaddr + i
           len == MIN(ph.memsz - i, PAGE_SIZE)
<1>1. /\ pc = "seg" /\ ~(i < ph.filesz) /\ i < ph.memsz /\ load_icode_mapper(va, 0, -1, len)
      /\ i' = i + PAGE_SIZE /\ UNCHANGED image
  BY DEF LoadZero, InFile
<1>2. /\ idx \in 1 .. Len(image) /\ idx \in Loadable /\ i \in Nat /\ ph.vaddr \in Nat
      /\ ph.filesz \in Nat /\ ph.memsz \in Nat /\ ph.filesz <= ph.memsz
  <2>1. idx \in 1 .. Len(image) /\ idx \in Loadable
    BY <1>1 DEF ElfInv, NextPage, Loadable
  <2> QED BY <2>1, PhdrFields DEF ElfInv, ElfTypeOK
<1>3. len \in Nat /\ len <= PAGE_SIZE
  BY <1>1, <1>2, PageSize DEF MIN
<1>4. GoodCall(va, 0, -1, len) /\ GoodCall(va, 0, 0, 0)
  <2>1. i <= ph.memsz /\ va \in Nat
    BY <1>1, <1>2
  <2>2. va + 2 * PAGE_SIZE <= MAXVA
    <3>1. ElfTypeOK
      BY DEF ElfInv
    <3> QED BY ONLY <3>1, <1>2, <2>1, SegmentAddr
  <2> QED BY <1>2, <1>3, <2>1, <2>2 DEF GoodCall
<1>5. PICK none \in Int : none = -1
  OBVIOUS
<1>6. PICK dry \in BOOLEAN, new \in SUBSET Nat : Effect(va, Filled(dry, 0, -1, len), dry, new)
  <2>1. load_icode_mapper(va, 0, none, len) /\ GoodCall(va, 0, none, len)
    BY <1>1, <1>4, <1>5
  <2>2. \E dry \in BOOLEAN, new \in SUBSET Nat : Effect(va, Filled(dry, 0, none, len), dry, new)
    BY <2>1, MapperStep, ZenonT(60) DEF ElfInv, GoodCall
  <2> QED BY <1>5, <2>2
<1>6a. pc' = "seg" => va % PAGE_SIZE = 0
  <2> SUFFICES ASSUME pc' = "seg", Mapped(First(va))
               PROVE  FALSE
    BY <1>1 DEF ElfInv, NextPage, First
  <2>1. First(va) \in Nat /\ Last(va) \in {First(va), First(va) + 1}
    BY <1>4, InPage, LastPage DEF GoodCall, First, Last
  <2>2. First(va) \in new
    BY <1>6, <2>1 DEF Effect
  <2> QED BY <1>6, <2>2 DEF Effect
<1>7. i' \in Nat /\ call' = [offset |-> 0, len |-> len]
  BY <1>1, <1>2, PageSize DEF load_icode_mapper
<1>8. ElfTypeOK' /\ PageWise'
  BY <1>1, <1>4, <1>6, <1>7, MapperTypes, MapperPageWise DEF ElfInv
<1>9. CopyStaysInPage'
  BY <1>3, <1>7, PageSize DEF CopyStaysInPage
<1>10. Owned'
  <2>1. i < ph.memsz /\ ElfTypeOK /\ NextPage /\ PageWise /\ Owned
    BY <1>1, <1>2 DEF ElfInv
  <2> QED BY <1>1, <1>4, <1>6, <2>1, MapperOwned
<1>11. NoNeedlessRemap'
  BY <1>1, <1>2, <1>4, <1>6, MapperRemap DEF ElfInv
<1>12. NextPage'
  <2>1. pc' = "seg" => idx' = idx
    BY <1>6 DEF Effect
  <2>2. pc' = "seg" => (va + PAGE_SIZE) % PAGE_SIZE = 0
    BY <1>4, <1>6a, Whole DEF GoodCall
  <2>3. ph.vaddr + i' = va + PAGE_SIZE
    BY <1>1, <1>2, PageSize
  <2>4. pc' # "head"
    BY <1>6 DEF Effect
  <2> QED BY <1>1, <1>2, <2>1, <2>2, <2>3, <2>4, SameSegments DEF NextPage
<1>13. SegmentsInPlace'
  <2>1. ASSUME NEW j \in Nat, pc' = "seg", j < i', j < ph.memsz, j >= i
        PROVE  InPlace(idx, j)'
    <3>1. PICK k \in Nat : k < PAGE_SIZE /\ j = i + k
      <4>1. j - i \in Nat /\ j - i < PAGE_SIZE /\ j = i + (j - i)
        BY <1>1, <1>2, <2>1, PageSize, SMTT(60)
      <4> QED BY <4>1
    <3>2. va + k = ph.vaddr + j /\ va + k \in Addr
      <4>1. ElfTypeOK
        BY DEF ElfInv
      <4>2. j <= ph.memsz
        BY <1>2, <2>1
      <4>3. ph.vaddr + j \in Addr
        BY ONLY <4>1, <4>2, <1>2, j \in Nat, SegmentAddr
      <4>4. va + k = ph.vaddr + j
        BY <1>2, <3>1
      <4> QED BY <4>3, <4>4
    <3>3. mem'[ph.vaddr + j] = Filled(dry, 0, -1, len)[k]
      <4>1. va \in Nat /\ (va % PAGE_SIZE) + k = k
        BY <1>4, <1>6a, <2>1, <3>1 DEF GoodCall
      <4>2. mem'[va + k] = Filled(dry, 0, -1, len)[(va % PAGE_SIZE) + k]
        BY <1>6, <2>1, <3>1, <3>2, <4>1, PlacedByte
      <4> QED BY <3>2, <4>1, <4>2
    <3>4. Filled(dry, 0, -1, len)[k] = IF dry THEN FOREIGN ELSE ZERO
      <4>1. k \in 0 .. PAGE_SIZE - 1 /\ ~(-1 >= 0)
        BY <3>1, PageSize
      <4> QED BY <4>1 DEF Filled
    <3>5. ~(j < ph.filesz)
      BY <1>1, <1>2, <2>1
    <3>6. idx' = idx /\ (dry => empty')
      BY <1>6, <2>1 DEF Effect
    <3> QED BY <1>1, <3>3, <3>4, <3>5, <3>6 DEF InPlace
  <2> QED BY <1>1, <1>4, <1>6, <1>7, <2>1, MapperSegments DEF ElfInv
<1> QED BY <1>8, <1>9, <1>10, <1>11, <1>12, <1>13 DEF ElfInv

(* The round for a first page the segment begins within.                    *)
LEMMA LoadHeadKeeps ==
  ASSUME ElfInv, LoadHead
  PROVE  ElfInv'
<1> DEFINE ph == image[idx]
           va == ph.vaddr
           off == Offset(ph)
           len == HeadLen(ph)
<1>1. /\ pc = "head" /\ load_icode_mapper(va, off, 0, len)
      /\ i' = len /\ UNCHANGED image
  BY DEF LoadHead
<1>2. /\ idx \in 1 .. Len(image) /\ idx \in Loadable /\ ph.vaddr \in Nat
      /\ ph.filesz \in Nat /\ ph.memsz \in Nat /\ ph.filesz <= ph.memsz
  <2>1. idx \in 1 .. Len(image) /\ idx \in Loadable
    BY <1>1 DEF ElfInv, NextPage, Loadable
  <2> QED BY <2>1, PhdrFields DEF ElfInv, ElfTypeOK
<1>3. off = va % PAGE_SIZE /\ off \in 1 .. PAGE_SIZE - 1
  <2>1. va % PAGE_SIZE \in 0 .. PAGE_SIZE - 1
    BY <1>2, InPage
  <2> QED BY <1>1, <2>1 DEF ElfInv, NextPage, Offset
<1>4. /\ len \in Nat /\ off + len <= PAGE_SIZE /\ len <= ph.filesz
      /\ len = ph.filesz \/ off + len = PAGE_SIZE
  <2> HIDE DEF off
  <2>1. len = MIN(ph.filesz, PAGE_SIZE - off)
    BY DEF HeadLen, off
  <2> HIDE DEF len
  <2>2. PICK n \in Nat : n = ph.filesz
    BY <1>2
  <2>3. off \in Nat /\ off <= PAGE_SIZE /\ PAGE_SIZE \in Nat
    BY <1>3, PageSize
  <2>4. len = IF n < PAGE_SIZE - off THEN n ELSE PAGE_SIZE - off
    BY <2>1, <2>2 DEF MIN
  <2>5. len \in Nat /\ off + len <= PAGE_SIZE /\ len <= n /\ (len = n \/ off + len = PAGE_SIZE)
    BY ONLY <2>3, <2>4, n \in Nat
  <2> QED BY <2>2, <2>5
<1>5. GoodCall(va, off, 0, len)
  <2>1. va + 0 + 2 * PAGE_SIZE <= MAXVA
    <3>1. ElfTypeOK
      BY DEF ElfInv
    <3>2. 0 \in Nat /\ 0 <= ph.memsz
      BY <1>2
    <3> QED BY ONLY <3>1, <3>2, <1>2, SegmentAddr
  <2>2. va + 2 * PAGE_SIZE <= MAXVA /\ 0 + len <= ph.filesz
    BY <1>2, <1>4, <2>1, PageSize
  <2> QED BY <1>2, <1>3, <1>4, <2>2 DEF GoodCall
<1>6. PICK dry \in BOOLEAN, new \in SUBSET Nat :
        /\ Effect(va, Filled(dry, off, 0, len), dry, new)
        /\ pc' # "fault" => ~(dry /\ 0 >= 0 /\ len > 0)
  BY <1>1, <1>5, MapperStep DEF ElfInv, GoodCall
<1>7. i' \in Nat /\ call' = [offset |-> off, len |-> len]
  BY <1>1, <1>4 DEF load_icode_mapper
<1>8. ElfTypeOK' /\ PageWise'
  BY <1>1, <1>5, <1>6, <1>7, MapperTypes, MapperPageWise DEF ElfInv
<1>9. CopyStaysInPage'
  BY <1>4, <1>7 DEF CopyStaysInPage
<1>10. ~Aligned
  BY <1>1, <1>2 DEF Aligned, ElfInv, NextPage
<1>11. Owned' /\ NoNeedlessRemap'
  BY <1>1, <1>10, SameSegments DEF Owned, NoNeedlessRemap, Aligned
<1>12. NextPage'
  <2>1. ASSUME pc' = "seg"
        PROVE  \/ (va + len) % PAGE_SIZE = 0
               \/ len = ph.filesz /\ mem'[((va + len) \div PAGE_SIZE) * PAGE_SIZE] # UNMAPPED
    <3>1. CASE off + len = PAGE_SIZE
      <4>1. PICK n \in Nat, r \in 0 .. PAGE_SIZE - 1 :
                   /\ n = va \div PAGE_SIZE /\ r = va % PAGE_SIZE
                   /\ n * PAGE_SIZE \in Nat /\ va = n * PAGE_SIZE + r
        BY <1>2, InPage
      <4>2. ((n + 1) * PAGE_SIZE + 0) % PAGE_SIZE = 0
        BY PageSize, Quotient
      <4>3. va + len = n * PAGE_SIZE + PAGE_SIZE
        BY <1>3, <1>4, <3>1, <4>1, PageSize
      <4>4. (n + 1) * PAGE_SIZE + 0 = n * PAGE_SIZE + PAGE_SIZE
        BY PageSize
      <4> QED BY <4>2, <4>3, <4>4
    <3>2. CASE off + len # PAGE_SIZE
      <4>1. len = ph.filesz /\ (va % PAGE_SIZE) + len < PAGE_SIZE
        BY <1>3, <1>4, <3>2, PageSize
      <4>2. (va + len) \div PAGE_SIZE = First(va)
        BY <1>2, <1>4, <4>1, Within DEF First
      <4>3. First(va) \in Nat /\ Last(va) \in {First(va), First(va) + 1}
        BY <1>2, InPage, LastPage DEF First, Last
      <4>4. First(va) \in new /\ First(va) \in First(va) .. Last(va)
        BY <1>6, <2>1, <4>3 DEF Effect
      <4>5. First(va) * PAGE_SIZE \in Addr
        BY <1>5, <4>4, PagesExist DEF GoodCall
      <4>6. PICK n \in Nat : n = First(va)
        BY <4>3
      <4>7. Mapped(n)'
        BY <1>1, <1>5, <1>6, <4>4, <4>5, <4>6, MappedKept DEF ElfInv
      <4>8. mem'[n * PAGE_SIZE] # UNMAPPED
        BY <4>7 DEF Mapped
      <4> QED BY <4>1, <4>2, <4>6, <4>8
    <3> QED BY <3>1, <3>2
  <2>2. pc' # "head" /\ (pc' = "seg" => idx' = idx)
    BY <1>6 DEF Effect
  <2> QED BY <1>1, <1>2, <1>3, <2>1, <2>2, SameSegments DEF NextPage, Mapped
<1>13. SegmentsInPlace'
  <2>1. ASSUME NEW j \in Nat, pc' = "seg", j < i'
        PROVE  InPlace(idx, j)'
    <3>1. j < len /\ j < ph.filesz /\ j <= ph.memsz /\ (va % PAGE_SIZE) + j < PAGE_SIZE
      BY <1>1, <1>2, <1>3, <1>4, <2>1, PageSize, SMTT(60)
    <3>2. va + j \in Addr
      <4>1. ElfTypeOK
        BY DEF ElfInv
      <4> QED BY ONLY <4>1, <1>2, <3>1, j \in Nat, SegmentAddr
    <3>3. mem'[va + j] = Filled(dry, off, 0, len)[off + j]
      BY <1>2, <1>3, <1>6, <2>1, <3>1, <3>2, PlacedByte
    <3>4. ~dry
      BY <1>4, <1>6, <2>1, <3>1
    <3>5. off + j \in 0 .. PAGE_SIZE - 1 /\ off + j \in off .. off + len - 1 /\ 0 + (off + j) - off = j
      BY <1>3, <1>4, <3>1, PageSize
    <3>6. Filled(dry, off, 0, len)[off + j] = <<idx, j>>
      BY <3>4, <3>5 DEF Filled
    <3>7. idx' = idx
      BY <1>6, <2>1 DEF Effect
    <3> QED BY <1>1, <3>1, <3>3, <3>6, <3>7 DEF InPlace
  <2> QED BY <1>1, <1>5, <1>6, <1>7, <2>1, MapperSegments DEF ElfInv
<1> QED BY <1>8, <1>9, <1>11, <1>12, <1>13 DEF ElfInv
-----------------------------------------------------------------------------
(* Facts about numbers.                                                     *)
LEMMA Shorter == \A m, n \in Nat : m <= n => \A j \in 0 .. m - 1 : j \in 0 .. n - 1
  OBVIOUS

(* The next index is one.                                                   *)
LEMMA Successor == \A n \in Nat \ {0} : \A m \in {n, n + 1} : m \in Nat \ {0}
  OBVIOUS

(* A step that calls no mapper keeps ElfInv, if it moves on from a segment  *)
(* only when that is in place, and begins one at its beginning.             *)
LEMMA QuietStep ==
  ASSUME ElfInv, UNCHANGED <<header, image, mem, rw, empty, call, failed>>,
         i' \in Nat, idx' \in {idx, idx + 1},
         pc' \in {"elf_from", "bad elf", "phdr", "head", "seg", "loaded"},
         NextPage',
         \A s \in 1 .. Len(image) : Progress(s)' <= Progress(s),
         \A s \in Loadable, a \in Addr :
           s < idx \/ (s = idx /\ pc \notin {"elf_from", "phdr"} /\ a < image[s].vaddr + i)
             => s < idx' \/ (s = idx' /\ pc' \notin {"elf_from", "phdr"} /\ a < image[s].vaddr + i')
  PROVE  ElfInv'
<1>1. ElfTypeOK'
  <2>1. \A a \in Addr : IsByte(mem[a])'
    BY ZenonT(60) DEF ElfInv, ElfTypeOK, IsByte
  <2>2. idx' \in Nat \ {0}
    <3>1. idx \in Nat \ {0}
      BY DEF ElfInv, ElfTypeOK
    <3> QED BY <3>1, Successor, Zenon
  <2> QED BY <2>1, <2>2 DEF ElfInv, ElfTypeOK
<1>2. PageWise'
  BY DEF ElfInv, PageWise, Mapped
<1>3. CopyStaysInPage'
  BY DEF ElfInv, CopyStaysInPage
<1>4. NoNeedlessRemap'
  BY DEF NoNeedlessRemap
<1>5. Owned'
  <2> SUFFICES ASSUME Aligned, NEW a \in Addr, mem'[a] # UNMAPPED
               PROVE  (mem'[a] = FOREIGN => empty') /\ \E s \in Loadable : MappedFor(a, s)'
    BY SameSegments DEF Owned
  <2>1. PICK s \in Loadable : MappedFor(a, s)
    BY DEF ElfInv, Owned
  <2>2. MappedFor(a, s)'
    BY <2>1, SameSegments DEF MappedFor, Writable
  <2>3. mem'[a] = FOREIGN => empty'
    BY DEF ElfInv, Owned
  <2> QED BY <2>2, <2>3
<1>6. SegmentsInPlace'
  <2> SUFFICES ASSUME NEW s \in 1 .. Len(image), NEW j \in 0 .. Progress(s)' - 1
               PROVE  InPlace(s, j)'
    BY DEF SegmentsInPlace, InPlace
  <2>1. Progress(s)' \in Nat /\ Progress(s) \in Nat
    <3>1. image[s].memsz \in Nat /\ i \in Nat
      BY PhdrFields DEF ElfInv, ElfTypeOK
    <3> QED BY <3>1 DEF Progress, MIN
  <2>2. Progress(s)' <= Progress(s)
    OBVIOUS
  <2>4. j \in 0 .. Progress(s) - 1
    BY <2>1, <2>2, Shorter, Zenon
  <2> QED BY <2>4 DEF ElfInv, SegmentsInPlace, InPlace
<1> QED BY <1>1, <1>2, <1>3, <1>4, <1>5, <1>6 DEF ElfInv

(* ElfInv holds when load_icode is called.                                  *)
LEMMA ElfInvInit == ElfInit => ElfInv
<1> SUFFICES ASSUME ElfInit PROVE ElfInv
  OBVIOUS
<1>1. PICK h \in Ehdr :
        \E phdrs \in IF elf_from(h) THEN UNION {[1 .. k -> Phdr] : k \in 0 .. MAXPH} ELSE {<<>>} :
          ElfStart(h, phdrs)
  BY DEF ElfInit
<1>2. PICK phdrs \in IF elf_from(h) THEN UNION {[1 .. k -> Phdr] : k \in 0 .. MAXPH} ELSE {<<>>} :
        ElfStart(h, phdrs)
  BY <1>1
<1>3. phdrs \in Seq(Phdr)
  <2>1. CASE elf_from(h)
    <3>1. PICK k \in 0 .. MAXPH : phdrs \in [1 .. k -> Phdr]
      BY <1>2, <2>1
    <3>2. k \in Nat
      BY ElfAssumption
    <3> QED BY <3>1, <3>2
  <2>2. CASE ~elf_from(h)
    BY <1>2, <2>2
  <2> QED BY <2>1, <2>2
<1>4. /\ image = phdrs /\ pc = "elf_from" /\ idx = 1 /\ i = 0 /\ mem = [a \in Addr |-> UNMAPPED]
      /\ rw = {} /\ empty = FALSE /\ call = [offset |-> 0, len |-> 0] /\ failed = {}
  BY <1>2 DEF ElfStart
<1>5. ElfTypeOK
  <2>1. \A a \in Addr : IsByte(mem[a])
    BY <1>4 DEF IsByte
  <2>2. image \in Seq(Phdr)
    BY <1>3, <1>4
  <2>3. DOMAIN mem = Addr /\ mem = [a \in Addr |-> mem[a]]
    BY <1>4
  <2>4. call \in [offset : Nat, len : Nat] /\ idx \in Nat \ {0} /\ i \in Nat /\ empty \in BOOLEAN
    <3>1. call = [offset |-> 0, len |-> 0] /\ idx = 1 /\ i = 0
      BY <1>4
    <3>2. empty \in BOOLEAN
      BY <1>4, Zenon
    <3> QED BY <3>1, <3>2
  <2>5. /\ pc \in {"elf_from", "bad elf", "phdr", "head", "seg", "loaded", "remap", "fault"}
        /\ rw \subseteq Nat /\ failed \subseteq Nat
    BY <1>4
  <2> QED BY <2>1, <2>2, <2>3, <2>4, <2>5 DEF ElfTypeOK
<1>6. NextPage /\ PageWise /\ Owned /\ NoNeedlessRemap
  BY <1>4 DEF NextPage, PageWise, Owned, NoNeedlessRemap
<1>7. CopyStaysInPage
  BY <1>4, PageSize DEF CopyStaysInPage
<1>8. SegmentsInPlace
  <2>1. \A s \in 1 .. Len(image) : Progress(s) = 0
    <3> SUFFICES ASSUME NEW s \in 1 .. Len(image) PROVE Progress(s) = 0
      OBVIOUS
    <3>1. Len(image) \in Nat
      BY <1>3, <1>4
    <3>2. s > idx \/ s = idx
      BY <1>4, <3>1
    <3> QED BY <1>4, <3>2 DEF Progress
  <2> QED BY <2>1 DEF SegmentsInPlace
<1> QED BY <1>5, <1>6, <1>7, <1>8 DEF ElfInv

(* Every step of load_icode keeps ElfInv.                                   *)
LEMMA ElfInvNext == ElfInv /\ [ElfNext]_elfvars => ElfInv'
<1> SUFFICES ASSUME ElfInv, [ElfNext]_elfvars PROVE ElfInv'
  OBVIOUS
<1>0. /\ idx \in Nat /\ i \in Nat /\ image \in Seq(Phdr) /\ Len(image) \in Nat
      /\ pc \in {"elf_from", "bad elf", "phdr", "head", "seg", "loaded", "remap", "fault"}
      /\ \A s \in 1 .. Len(image) : /\ image[s].memsz \in Nat /\ image[s].filesz \in Nat
                                     /\ image[s].vaddr \in Nat
  <2>1. ElfTypeOK
    BY DEF ElfInv
  <2>2. idx \in Nat /\ i \in Nat /\ image \in Seq(Phdr)
    BY <2>1 DEF ElfTypeOK
  <2>3. pc \in {"elf_from", "bad elf", "phdr", "head", "seg", "loaded", "remap", "fault"}
    BY <2>1 DEF ElfTypeOK
  <2>4. \A s \in 1 .. Len(image) : image[s].memsz \in Nat /\ image[s].filesz \in Nat /\ image[s].vaddr \in Nat
    BY <2>1, PhdrFields
  <2>5. Len(image) \in Nat
    BY <2>2
  <2> QED BY <2>2, <2>3, <2>4, <2>5
<1>0a. \A s \in Loadable : s \in 1 .. Len(image) /\ s \in Nat
  <2>1. Len(image) \in Nat
    BY <1>0
  <2> QED BY <2>1 DEF Loadable
<1>0b. \A s \in 1 .. Len(image) : Progress(s) \in Nat
  BY <1>0 DEF Progress, MIN
<1>1. CASE CheckHeader
  <2>1. /\ pc = "elf_from" /\ pc' \in {"phdr", "bad elf"}
        /\ UNCHANGED <<header, image, idx, i, mem, rw, empty, call, failed>>
    BY <1>1 DEF CheckHeader
  <2>2. \A s \in 1 .. Len(image) : Progress(s)' = Progress(s)
    BY <2>1 DEF Progress
  <2>3. \A s \in 1 .. Len(image) : Progress(s)' <= Progress(s)
    BY <1>0b, <2>2
  <2>4. NextPage'
    BY <2>1 DEF NextPage
  <2> QED BY <1>0, <1>0a, <2>1, <2>3, <2>4, QuietStep
<1>2. CASE NextPhdr
  <2>1. /\ pc = "phdr" /\ idx <= Len(image) /\ i' = 0
        /\ UNCHANGED <<header, image, mem, rw, empty, call, failed>>
    BY <1>2 DEF NextPhdr
  <2>2. idx \in 1 .. Len(image)
    BY <1>0, <2>1 DEF ElfInv, ElfTypeOK
  <2>3. CASE image[idx].type = PT_LOAD
    <3>1. pc' = (IF Offset(image[idx]) # 0 THEN "head" ELSE "seg") /\ idx' = idx
      BY <1>2, <2>3 DEF NextPhdr
    <3>2. \A s \in 1 .. Len(image) : Progress(s)' <= Progress(s)
      BY <1>0, <2>1, <2>2, <3>1 DEF Progress, MIN
    <3>3. idx \in Loadable
      BY <2>2, <2>3 DEF Loadable
    <3>4. image[idx].vaddr + i' = image[idx].vaddr
      BY <1>0, <2>1, <2>2
    <3>5. NextPage'
      BY <2>1, <3>1, <3>3, <3>4, SameSegments DEF NextPage, Offset
    <3> QED BY <1>0, <2>1, <3>1, <3>2, <3>5, QuietStep
  <2>4. CASE image[idx].type # PT_LOAD
    <3>1. pc' = "phdr" /\ idx' = idx + 1
      BY <1>2, <2>1, <2>4 DEF NextPhdr
    <3>2. \A s \in 1 .. Len(image) : Progress(s)' <= Progress(s)
      BY <1>0, <2>1, <2>2, <2>4, <3>1 DEF Progress, MIN
    <3>3. NextPage'
      BY <3>1 DEF NextPage
    <3> QED BY <1>0, <1>0a, <2>1, <3>1, <3>2, <3>3, QuietStep
  <2> QED BY <2>3, <2>4
<1>3. CASE LoadHead
  BY <1>3, LoadHeadKeeps
<1>4. CASE LoadFile
  BY <1>4, LoadFileKeeps
<1>5. CASE LoadZero
  BY <1>5, LoadZeroKeeps
<1>6. CASE SegDone
  <2>1. /\ pc = "seg" /\ i >= image[idx].memsz /\ pc' = "phdr" /\ idx' = idx + 1
        /\ UNCHANGED <<header, image, i, mem, rw, empty, call, failed>>
    BY <1>6 DEF SegDone
  <2>2. idx \in 1 .. Len(image)
    BY <2>1 DEF ElfInv, NextPage, Loadable
  <2>3. \A s \in 1 .. Len(image) : Progress(s)' <= Progress(s)
    BY <1>0, <2>1, <2>2 DEF Progress, MIN
  <2>4. NextPage'
    BY <2>1 DEF NextPage
  <2> QED BY <1>0, <1>0a, <2>1, <2>3, <2>4, QuietStep
<1>7. CASE Loaded
  <2>1. /\ pc = "phdr" /\ idx > Len(image) /\ pc' = "loaded"
        /\ UNCHANGED <<header, image, idx, i, mem, rw, empty, call, failed>>
    BY <1>7 DEF Loaded
  <2>2. \A s \in 1 .. Len(image) : Progress(s)' = Progress(s)
    BY <2>1 DEF Progress
  <2>3. \A s \in 1 .. Len(image) : Progress(s)' <= Progress(s)
    BY <1>0b, <2>2
  <2>4. NextPage'
    BY <2>1 DEF NextPage
  <2> QED BY <1>0, <1>0a, <2>1, <2>3, <2>4, QuietStep
<1>8. CASE UNCHANGED elfvars
  <2>1. UNCHANGED <<header, image, pc, idx, i, mem, rw, empty, call, failed>>
    BY <1>8 DEF elfvars
  <2>2. ElfTypeOK'
    <3>1. \A a \in Addr : IsByte(mem[a])'
      BY <2>1, ZenonT(60) DEF ElfInv, ElfTypeOK, IsByte
    <3> QED BY <2>1, <3>1 DEF ElfInv, ElfTypeOK
  <2>3. NextPage' /\ PageWise'
    BY <2>1, SameSegments DEF ElfInv, NextPage, PageWise, Mapped
  <2>4. Owned' /\ NoNeedlessRemap'
    BY <2>1, SameSegments DEF ElfInv, Owned, MappedFor, NoNeedlessRemap
  <2>5. CopyStaysInPage' /\ SegmentsInPlace'
    BY <2>1 DEF ElfInv, CopyStaysInPage, SegmentsInPlace, Progress
  <2> QED BY <2>2, <2>3, <2>4, <2>5 DEF ElfInv
<1> QED BY <1>1, <1>2, <1>3, <1>4, <1>5, <1>6, <1>7, <1>8 DEF ElfNext

(* ElfInv is an invariant of load_icode.                                    *)
THEOREM ElfInvariance == ElfSpec => []ElfInv
<1> QED BY ElfInvInit, ElfInvNext, PTL DEF ElfSpec

(* At each of elf_load_seg's calls of the mapper "'offset + len' is not     *)
(* larger than 'PAGE_SIZE'": no memcpy passes the end of its page, for any  *)
(* page size and any segments.                                              *)
THEOREM CopiesStayInPage == ElfSpec => []CopyStaysInPage
<1>1. ElfInv => CopyStaysInPage
  BY DEF ElfInv
<1> QED BY <1>1, ElfInvariance, PTL

(* Every byte of a segment is where its header says, however the segments   *)
(* lie to the pages, overlap or fail to be loaded.                          *)
THEOREM BytesInPlace == ElfSpec => []SegmentsInPlace
<1>1. ElfInv => SegmentsInPlace
  BY DEF ElfInv
<1> QED BY <1>1, ElfInvariance, PTL

(* An image whose segments are aligned and share no page is not refused by  *)
(* mappages.                                                                *)
THEOREM AlignedImagesLoad == ElfSpec => []NoNeedlessRemap
<1>1. ElfInv => NoNeedlessRemap
  BY DEF ElfInv
<1> QED BY <1>1, ElfInvariance, PTL

(* PTE_W is for the segments with PF_W.                                     *)
LEMMA WriteFlag ==
  ASSUME ElfTypeOK, NEW s \in 1 .. Len(image)
  PROVE  Writable(image[s]) <=> image[s].flags = PF_R + PF_W
<1>1. PF_R + PF_W = 6 /\ PF_W = 2
  BY DEF PF_R, PF_W
<1>2. image[s].flags \in {5, 6}
  BY PhdrFields
<1>3. (5 \div 2) % 2 = 0 /\ (6 \div 2) % 2 = 1
  OBVIOUS
<1> QED BY <1>1, <1>2, <1>3 DEF Writable

(* An env whose segments are aligned has no page besides theirs, nothing in *)
(* it but their bytes and zeros while memory lasts, and may write a page    *)
(* just if the segment it is for has PF_W.                                  *)
THEOREM NothingElseMapped == ElfSpec => []OnlySegmentsMapped
<1>1. ElfInv => OnlySegmentsMapped
  <2> SUFFICES ASSUME ElfInv, Aligned, NEW a \in Addr, mem[a] # UNMAPPED
               PROVE  LET here == {s \in Loadable : a \div PAGE_SIZE \in PagesOf(s)}
                          read_write == {s \in here : image[s].flags = PF_R + PF_W}
                      IN  /\ here # {}
                          /\ mem[a] = FOREIGN => empty
                          /\ mem[a][1] > 0 => mem[a][2] < image[mem[a][1]].filesz
                          /\ IF a \div PAGE_SIZE \in rw THEN read_write # {} ELSE here # read_write
    BY DEF OnlySegmentsMapped, Aligned
  <2> DEFINE here == {s \in Loadable : a \div PAGE_SIZE \in PagesOf(s)}
             read_write == {s \in here : image[s].flags = PF_R + PF_W}
  <2>1. PICK t \in Loadable : MappedFor(a, t)
    BY DEF ElfInv, Owned
  <2>2. mem[a] = FOREIGN => empty
    BY DEF ElfInv, Owned
  <2>3. t \in here
    BY <2>1 DEF MappedFor
  <2>4. t \in read_write <=> a \div PAGE_SIZE \in rw
    <3>1. t \in 1 .. Len(image)
      BY DEF Loadable
    <3>2. Writable(image[t]) <=> image[t].flags = PF_R + PF_W
      BY <3>1, WriteFlag DEF ElfInv
    <3>3. a \div PAGE_SIZE \in rw <=> Writable(image[t])
      BY <2>1 DEF MappedFor
    <3> QED BY <2>3, <3>2, <3>3
  <2>5. mem[a][1] > 0 => mem[a][2] < image[mem[a][1]].filesz
    <3>1. IsByte(mem[a])
      BY DEF ElfInv, ElfTypeOK
    <3>2. CASE mem[a] \in {ZERO, FOREIGN, UNMAPPED}
      BY <3>2 DEF ZERO, FOREIGN, UNMAPPED
    <3>3. CASE \E s \in 1 .. Len(image) : \E j \in 0 .. image[s].filesz - 1 : mem[a] = <<s, j>>
      <4>1. PICK s \in 1 .. Len(image) : \E j \in 0 .. image[s].filesz - 1 : mem[a] = <<s, j>>
        BY <3>3
      <4>2. PICK j \in 0 .. image[s].filesz - 1 : mem[a] = <<s, j>>
        BY <4>1
      <4>3. image[s].filesz \in Nat
        BY PhdrFields DEF ElfInv
      <4>4. j < image[s].filesz
        BY <4>3
      <4> QED BY <4>2, <4>4
    <3> QED BY <3>1, <3>2, <3>3 DEF IsByte
  <2>6. IF a \div PAGE_SIZE \in rw THEN read_write # {} ELSE here # read_write
    BY <2>3, <2>4
  <2> HIDE DEF here, read_write
  <2>7. here # {}
    BY <2>3
  <2> QED BY <2>2, <2>5, <2>6, <2>7 DEF here, read_write
<1> QED BY <1>1, ElfInvariance, PTL
-----------------------------------------------------------------------------
(***************************************************************************)
(* A trap and its return.  At every step between SAVE_ALL and sret the     *)
(* frame at sp holds what has been saved so far, and the registers that    *)
(* are not saved, or already restored, are those of the trap.              *)
(***************************************************************************)
Ctl == [sscratch : Int, sstatus : Int, sepc : Int, stval : Int, scause : Int]

FrameTypeOK ==
  /\ gpr \in [Reg -> Int] /\ before.gpr \in [Reg -> Int]
  /\ ctl \in Ctl /\ before.ctl \in Ctl
  /\ frame \in [FrameBase -> [Slot -> Int]]
  /\ before.gpr[0] = 0

(* Where SAVE_ALL puts the frame: below the kernel's stack pointer, or at    *)
(* the end of env_tf; and the state that leads it there.                     *)
Base == IF FromKernel(before.ctl.sstatus) THEN KSP - FRAME ELSE TFEND - FRAME

Prepared ==
  IF FromKernel(before.ctl.sstatus) THEN before.ctl.sscratch = 0 /\ before.gpr[SP] = KSP
  ELSE before.ctl.sscratch = TFEND

OnFrame == gpr[SP] = Base /\ gpr[0] = 0

(* The registers but sp, and the control registers but sscratch, are as at   *)
(* the trap.                                                                 *)
RegistersKept == \A r \in Reg \ {SP} : gpr[r] = before.gpr[r]
ControlKept ==
  /\ ctl.sstatus = before.ctl.sstatus /\ ctl.sepc = before.ctl.sepc
  /\ ctl.stval = before.ctl.stval /\ ctl.scause = before.ctl.scause

(* What the frame holds, epc being the saved sepc. *)
SavedRegisters == \A r \in Reg \ {0, SP} : frame[Base][r] = before.gpr[r]
SavedAll(epc) ==
  /\ \A r \in Reg \ {0} : frame[Base][r] = before.gpr[r]
  /\ frame[Base][32] = before.ctl.sstatus /\ frame[Base][33] = epc
  /\ frame[Base][34] = before.ctl.stval /\ frame[Base][35] = before.ctl.scause

(* What print_tf showed. *)
Shown ==
  /\ shown \in [1 .. 36 -> Int]
  /\ \A r \in Reg \ {0} : shown[r + 1] = before.gpr[r]
  /\ shown[33] = before.ctl.sstatus /\ shown[34] = before.ctl.sepc
  /\ shown[35] = before.ctl.stval /\ shown[36] = before.ctl.scause

ControlBack ==
  /\ ctl.sscratch = before.ctl.sscratch
  /\ ctl.sstatus = before.ctl.sstatus /\ ctl.sepc = before.ctl.sepc + 2
  /\ ctl.stval = before.ctl.stval /\ ctl.scause = before.ctl.scause

FrameInv ==
  /\ FrameTypeOK /\ Prepared
  /\ fpc = "trap" => gpr = before.gpr /\ ctl = before.ctl
  /\ fpc = "save" =>
       OnFrame /\ RegistersKept /\ ControlKept /\ ctl.sscratch = before.gpr[SP]
  /\ fpc = "save csrs" =>
       OnFrame /\ SavedRegisters /\ ControlKept /\ ctl.sscratch = before.gpr[SP]
  /\ fpc = "handler" =>
       OnFrame /\ SavedAll(before.ctl.sepc) /\ ControlKept /\ ctl.sscratch = 0
  /\ fpc = "restore csrs" =>
       OnFrame /\ SavedAll(before.ctl.sepc + 2) /\ Shown /\ ControlKept /\ ctl.sscratch = 0
  /\ fpc = "restore" =>
       OnFrame /\ SavedAll(before.ctl.sepc + 2) /\ Shown /\ ControlBack
  /\ fpc = "restore sp" =>
       OnFrame /\ RegistersKept /\ SavedAll(before.ctl.sepc + 2) /\ Shown /\ ControlBack
  /\ fpc = "sret" => gpr = before.gpr /\ Shown /\ ControlBack

(* The frame of the trap is one of the two. *)
LEMMA BaseIs == Base \in FrameBase /\ KSP \in Int /\ TFEND \in Int /\ TFEND # 0 /\ STALE \in Int
  BY FrameAssumption DEF Base, FrameBase, FRAME

(* At a trap sscratch and sp are as the mode wants them. *)
LEMMA FrameInvInit == FrameInit => FrameInv
<1> SUFFICES ASSUME NEW regs \in REGS, NEW c \in TRAPS, FrameStart(regs, c)
             PROVE  FrameInv
  BY DEF FrameInit
<1>1. regs \in [Reg -> Int] /\ c.sstatus \in Int /\ c.sepc \in Int /\ c.stval \in Int /\ c.scause \in Int
  BY FrameAssumption
<1>2. gpr \in [Reg -> Int] /\ gpr[0] = 0 /\ (FromKernel(c.sstatus) => gpr[SP] = KSP)
  <2>1. PICK sp : sp = IF FromKernel(c.sstatus) THEN KSP ELSE regs[SP]
    OBVIOUS
  <2>2. SP \in Reg /\ SP # 0 /\ 0 \in Reg
    BY DEF SP, Reg
  <2>3. sp \in Int
    BY <1>1, <2>1, <2>2, BaseIs
  <2>4. gpr = [regs EXCEPT ![0] = 0, ![SP] = sp]
    BY <1>1, <2>1, <2>2 DEF FrameStart
  <2> QED BY <1>1, <2>1, <2>2, <2>3, <2>4
<1>3. ctl \in Ctl /\ ctl.sstatus = c.sstatus /\ ctl.sscratch = IF FromKernel(c.sstatus) THEN 0 ELSE TFEND
  BY <1>1, BaseIs DEF FrameStart, Ctl
<1>4. before.gpr = gpr /\ before.ctl = ctl
  BY DEF FrameStart
<1>5. frame \in [FrameBase -> [Slot -> Int]] /\ fpc = "trap"
  BY BaseIs DEF FrameStart
<1>6. Prepared
  BY <1>2, <1>3, <1>4 DEF Prepared
<1> QED BY <1>2, <1>3, <1>4, <1>5, <1>6 DEF FrameInv, FrameTypeOK

(* The invariant depends on the trap's registers, which stay. *)
LEMMA SwapStackKeeps == FrameInv /\ SwapStack => FrameInv'
<1> SUFFICES ASSUME FrameInv, SwapStack PROVE FrameInv'
  OBVIOUS
<1>1. /\ FrameTypeOK /\ Prepared /\ gpr = before.gpr /\ ctl = before.ctl
      /\ fpc' = "save" /\ before' = before /\ frame' = frame
  BY DEF FrameInv, SwapStack, Step
<1>2. Base' = Base /\ Prepared'
  BY <1>1 DEF Base, Prepared
<1>3. gpr' \in [Reg -> Int] /\ gpr'[SP] = Base /\ \A r \in Reg \ {SP} : gpr'[r] = gpr[r]
  BY <1>1, BaseIs DEF SwapStack, Base, Prepared, FrameTypeOK, SP, Reg, FRAME
<1>4. /\ ctl' \in Ctl /\ ctl'.sscratch = gpr[SP]
      /\ ctl'.sstatus = ctl.sstatus /\ ctl'.sepc = ctl.sepc /\ ctl'.stval = ctl.stval /\ ctl'.scause = ctl.scause
  BY <1>1 DEF SwapStack, FrameTypeOK, Ctl, SP, Reg
<1>5. OnFrame' /\ RegistersKept' /\ ControlKept' /\ (ctl.sscratch = before.gpr[SP])'
  BY <1>1, <1>2, <1>3, <1>4 DEF OnFrame, RegistersKept, ControlKept, FrameTypeOK, SP, Reg
<1>6. FrameTypeOK'
  BY <1>1, <1>3, <1>4 DEF FrameTypeOK
<1> QED BY <1>1, <1>2, <1>5, <1>6 DEF FrameInv

(* All registers but x0 and sp are stored. *)
LEMMA SaveRegistersKeeps == FrameInv /\ SaveRegisters => FrameInv'
<1> SUFFICES ASSUME FrameInv, SaveRegisters PROVE FrameInv'
  OBVIOUS
<1>1. /\ FrameTypeOK /\ Prepared /\ OnFrame /\ RegistersKept /\ ControlKept /\ ctl.sscratch = before.gpr[SP]
      /\ fpc' = "save csrs" /\ before' = before /\ gpr' = gpr /\ ctl' = ctl
  BY DEF FrameInv, SaveRegisters, Step
<1>2. Base' = Base /\ Prepared' /\ OnFrame' /\ ControlKept' /\ (ctl.sscratch = before.gpr[SP])'
  BY <1>1 DEF Base, Prepared, OnFrame, ControlKept
<1>3. /\ frame' \in [FrameBase -> [Slot -> Int]]
      /\ \A r \in Reg \ {0, SP} : frame'[Base][r] = gpr[r]
  <2>1. frame' = [frame EXCEPT ![Base] = [k \in Slot |-> IF k \in Reg \ {0, SP} THEN gpr[k] ELSE frame[Base][k]]]
    BY <1>1 DEF SaveRegisters, OnFrame
  <2>2. [k \in Slot |-> IF k \in Reg \ {0, SP} THEN gpr[k] ELSE frame[Base][k]] \in [Slot -> Int]
    BY <1>1, BaseIs DEF FrameTypeOK, Reg, Slot
  <2>3. Reg \subseteq Slot
    BY DEF Reg, Slot
  <2> QED BY <1>1, <2>1, <2>2, <2>3, BaseIs DEF FrameTypeOK
<1>4. SavedRegisters'
  BY <1>1, <1>2, <1>3 DEF SavedRegisters, RegistersKept
<1>5. FrameTypeOK'
  BY <1>1, <1>3 DEF FrameTypeOK
<1> QED BY <1>1, <1>2, <1>4, <1>5 DEF FrameInv

(* s0 to s4 take the control registers, sp's place in the frame is filled.   *)
LEMMA SaveControlKeeps == FrameInv /\ SaveControl => FrameInv'
<1> SUFFICES ASSUME FrameInv, SaveControl PROVE FrameInv'
  OBVIOUS
<1> DEFINE s == <<ctl.sscratch, ctl.sstatus, ctl.sepc, ctl.stval, ctl.scause>>
<1>1. /\ FrameTypeOK /\ Prepared /\ OnFrame /\ SavedRegisters /\ ControlKept /\ ctl.sscratch = before.gpr[SP]
      /\ fpc' = "handler" /\ before' = before
  BY DEF FrameInv, SaveControl, Step
<1>2. Base' = Base /\ Prepared'
  BY <1>1 DEF Base, Prepared
<1>3. /\ s[1] = ctl.sscratch /\ s[2] = ctl.sstatus /\ s[3] = ctl.sepc /\ s[4] = ctl.stval /\ s[5] = ctl.scause
      /\ \A n \in 1 .. 5 : s[n] \in Int
  <2>1. s[1] \in Int /\ s[2] \in Int /\ s[3] \in Int /\ s[4] \in Int /\ s[5] \in Int
    BY <1>1 DEF FrameTypeOK, Ctl
  <2>2. \A n \in 1 .. 5 : n = 1 \/ n = 2 \/ n = 3 \/ n = 4 \/ n = 5
    OBVIOUS
  <2> QED BY <2>1, <2>2
<1>4. /\ gpr' = [r \in Reg |-> IF \E n \in 0 .. 4 : r = S(n) THEN s[(CHOOSE n \in 0 .. 4 : r = S(n)) + 1] ELSE gpr[r]]
      /\ ctl' = [ctl EXCEPT !.sscratch = 0]
      /\ frame' = [frame EXCEPT ![gpr[SP]] = [k \in Slot |-> CASE k = SP -> s[1]
                                                             [] k >= 32 -> s[k - 30]
                                                             [] OTHER -> frame[gpr[SP]][k]]]
  BY DEF SaveControl
<1> HIDE DEF s
<1>5. gpr' \in [Reg -> Int] /\ gpr'[0] = 0 /\ gpr'[SP] = Base
  <2>1. ASSUME NEW r \in Reg, \E n \in 0 .. 4 : r = S(n) PROVE s[(CHOOSE n \in 0 .. 4 : r = S(n)) + 1] \in Int
    <3>1. PICK n : n = CHOOSE k \in 0 .. 4 : r = S(k)
      OBVIOUS
    <3>2. n \in 0 .. 4
      BY <2>1, <3>1, Zenon
    <3>3. n + 1 \in 1 .. 5
      BY <3>2
    <3>4. s[n + 1] \in Int
      BY <1>3, <3>3
    <3> QED BY <3>1, <3>4, Zenon
  <2>2. \A n \in 0 .. 4 : S(n) # 0 /\ S(n) # SP
    BY DEF S, SP
  <2>3. gpr[0] = 0 /\ gpr[SP] = Base /\ 0 \in Reg /\ SP \in Reg /\ gpr \in [Reg -> Int]
    BY <1>1 DEF OnFrame, FrameTypeOK, Reg, SP
  <2>4. \A r \in Reg : gpr'[r] \in Int
    BY <1>4, <2>1, <2>3
  <2>5. gpr' = [r \in Reg |-> gpr'[r]]
    BY <1>4, Zenon
  <2> QED BY <1>4, <2>2, <2>3, <2>4, <2>5
<1>6. ctl' \in Ctl /\ ctl'.sscratch = 0 /\ ctl'.sstatus = ctl.sstatus /\ ctl'.sepc = ctl.sepc
      /\ ctl'.stval = ctl.stval /\ ctl'.scause = ctl.scause
  BY <1>1, <1>4 DEF FrameTypeOK, Ctl
<1> DEFINE new == [k \in Slot |-> CASE k = SP -> s[1] [] k >= 32 -> s[k - 30] [] OTHER -> frame[gpr[SP]][k]]
<1>7. /\ \A k \in Slot : new[k] \in Int
      /\ new[SP] = s[1] /\ new[32] = s[2] /\ new[33] = s[3] /\ new[34] = s[4] /\ new[35] = s[5]
      /\ \A r \in Reg \ {0, SP} : new[r] = frame[Base][r]
  <2>1. \A k \in Slot : frame[Base][k] \in Int
    BY <1>1, BaseIs DEF FrameTypeOK
  <2>2. \A k \in Slot : new[k] = IF k = SP THEN s[1] ELSE IF k >= 32 THEN s[k - 30] ELSE frame[Base][k]
    BY <1>1 DEF SP, Slot, OnFrame
  <2> HIDE DEF new
  <2>3. \A k \in Slot : new[k] \in Int
    BY <1>3, <2>1, <2>2 DEF Slot
  <2>4. SP \in Slot /\ SP < 32 /\ 32 \in Slot /\ 33 \in Slot /\ 34 \in Slot /\ 35 \in Slot
    BY DEF SP, Slot
  <2>5. \A r \in Reg : r \in Slot /\ ~(r >= 32)
    BY DEF Reg, Slot
  <2>6. new[SP] = s[1] /\ \A r \in Reg \ {0, SP} : new[r] = frame[Base][r]
    BY <2>2, <2>4, <2>5
  <2>7. new[32] = s[2] /\ new[33] = s[3] /\ new[34] = s[4] /\ new[35] = s[5]
    BY <2>2, <2>4 DEF SP
  <2> QED BY <2>3, <2>6, <2>7
<1>8. frame' \in [FrameBase -> [Slot -> Int]] /\ frame'[Base] = new
  <2>1. new \in [Slot -> Int]
    BY <1>7
  <2> HIDE DEF new
  <2>2. frame' = [frame EXCEPT ![gpr[SP]] = new]
    BY <1>4 DEF new
  <2>3. frame' = [frame EXCEPT ![Base] = new]
    BY <1>1, <2>2 DEF OnFrame
  <2> QED BY <1>1, <2>1, <2>3, BaseIs DEF FrameTypeOK
<1> HIDE DEF new
<1>9. SavedAll(before.ctl.sepc)'
  <2>1. \A r \in Reg \ {0} : new[r] = before.gpr[r]
    BY <1>1, <1>3, <1>7 DEF SavedRegisters
  <2> QED BY <1>1, <1>2, <1>3, <1>7, <1>8, <2>1 DEF SavedAll, ControlKept
<1>10. FrameTypeOK' /\ OnFrame' /\ ControlKept'
  BY <1>1, <1>2, <1>5, <1>6, <1>8 DEF FrameTypeOK, OnFrame, ControlKept
<1> QED BY <1>1, <1>2, <1>6, <1>9, <1>10 DEF FrameInv

(* do_ebreak prints the frame and moves the saved sepc. *)
LEMMA HandleKeeps == FrameInv /\ Handle => FrameInv'
<1> SUFFICES ASSUME FrameInv, Handle PROVE FrameInv'
  OBVIOUS
<1>1. /\ FrameTypeOK /\ Prepared /\ OnFrame /\ SavedAll(before.ctl.sepc) /\ ControlKept /\ ctl.sscratch = 0
      /\ fpc' = "restore csrs" /\ before' = before /\ ctl' = ctl
  BY DEF FrameInv, Handle, Step
<1>2. Base' = Base /\ Prepared' /\ ControlKept'
  BY <1>1 DEF Base, Prepared, ControlKept
<1>3. gpr' \in [Reg -> Int] /\ gpr'[0] = 0 /\ gpr'[SP] = Base
  <2>1. PICK left \in LEFT : gpr' = [r \in Reg |-> IF r \in {0, SP} THEN gpr[r] ELSE left[r]]
    BY DEF Handle
  <2>2. left \in [Reg -> Int]
    BY FrameAssumption
  <2>3. 0 \in Reg /\ SP \in Reg /\ gpr \in [Reg -> Int] /\ gpr[0] = 0 /\ gpr[SP] = Base
    <3>1. 0 \in Reg /\ SP \in Reg
      BY DEF Reg, SP
    <3> QED BY <1>1, <3>1 DEF FrameTypeOK, OnFrame
  <2> QED BY <2>1, <2>2, <2>3
<1>4. /\ frame' = [frame EXCEPT ![Base][33] = frame[Base][33] + 2]
      /\ shown' = [k \in 1 .. 36 |-> frame[Base][k - 1]]
  BY <1>1 DEF Handle, STORE, LOAD, OnFrame, print_tf
<1>5. \A k \in Slot : frame[Base][k] \in Int
  BY <1>1, BaseIs DEF FrameTypeOK
<1>6. /\ frame' \in [FrameBase -> [Slot -> Int]]
      /\ frame'[Base][33] = frame[Base][33] + 2
      /\ \A k \in Slot \ {33} : frame'[Base][k] = frame[Base][k]
  <2>1. 33 \in Slot /\ frame \in [FrameBase -> [Slot -> Int]] /\ frame[Base] \in [Slot -> Int]
    <3>1. 33 \in Slot
      BY DEF Slot
    <3> QED BY <1>1, <3>1, BaseIs DEF FrameTypeOK
  <2>2. PICK v \in Int : v = frame[Base][33] + 2
    BY <1>5, <2>1
  <2>3. PICK new : new = [frame[Base] EXCEPT ![33] = v]
    OBVIOUS
  <2>4. new \in [Slot -> Int] /\ new[33] = v /\ \A k \in Slot \ {33} : new[k] = frame[Base][k]
    BY <2>1, <2>3
  <2>5. frame' = [frame EXCEPT ![Base] = new]
    BY <1>4, <2>2, <2>3
  <2>6. frame' \in [FrameBase -> [Slot -> Int]] /\ frame'[Base] = new
    BY <2>1, <2>4, <2>5, BaseIs
  <2> QED BY <2>2, <2>4, <2>6
<1>7. SavedAll(before.ctl.sepc + 2)'
  <2>1. \A r \in Reg : r \in Slot \ {33}
    BY DEF Reg, Slot
  <2>2. 32 \in Slot \ {33} /\ 34 \in Slot \ {33} /\ 35 \in Slot \ {33}
    BY DEF Slot
  <2>3. frame'[Base][33] = before.ctl.sepc + 2
    BY <1>1, <1>6 DEF SavedAll
  <2>4. /\ \A r \in Reg \ {0} : frame'[Base][r] = before.gpr[r]
        /\ frame'[Base][32] = before.ctl.sstatus
        /\ frame'[Base][34] = before.ctl.stval /\ frame'[Base][35] = before.ctl.scause
    <3>1. \A k \in Slot \ {33} : frame'[Base][k] = frame[Base][k]
      BY <1>6
    <3>2. \A r \in Reg : frame'[Base][r] = frame[Base][r]
      BY <2>1, <3>1
    <3>3. /\ frame'[Base][32] = frame[Base][32] /\ frame'[Base][34] = frame[Base][34]
          /\ frame'[Base][35] = frame[Base][35]
      BY <2>2, <3>1
    <3> QED BY <1>1, <3>2, <3>3, ZenonT(60) DEF SavedAll
  <2> QED BY <1>1, <1>2, <2>3, <2>4 DEF SavedAll
<1>8. Shown'
  <2>1. \A k \in 1 .. 36 : k - 1 \in Slot
    BY DEF Slot
  <2>2. shown' \in [1 .. 36 -> Int]
    BY <1>4, <1>5, <2>1
  <2>3. \A r \in Reg : r + 1 \in 1 .. 36 /\ (r + 1) - 1 = r
    BY DEF Reg
  <2>4. \A r \in Reg : shown'[r + 1] = frame[Base][r]
    BY <1>4, <2>3
  <2>5. /\ shown'[33] = frame[Base][32] /\ shown'[34] = frame[Base][33]
        /\ shown'[35] = frame[Base][34] /\ shown'[36] = frame[Base][35]
    BY <1>4
  <2> QED BY <1>1, <2>2, <2>4, <2>5, ZenonT(60) DEF Shown, SavedAll
<1>9. FrameTypeOK' /\ OnFrame'
  BY <1>1, <1>2, <1>3, <1>6 DEF FrameTypeOK, OnFrame
<1> QED BY <1>1, <1>2, <1>7, <1>8, <1>9 DEF FrameInv

(* sscratch is set on the way to user mode only. *)
LEMMA RestoreControlKeeps == FrameInv /\ RestoreControl => FrameInv'
<1> SUFFICES ASSUME FrameInv, RestoreControl PROVE FrameInv'
  OBVIOUS
<1>1. /\ FrameTypeOK /\ Prepared /\ OnFrame /\ SavedAll(before.ctl.sepc + 2) /\ Shown /\ ControlKept
      /\ ctl.sscratch = 0
      /\ fpc' = "restore" /\ before' = before /\ frame' = frame /\ shown' = shown
  BY DEF FrameInv, RestoreControl, Step
<1>2. Base' = Base /\ Prepared' /\ SavedAll(before.ctl.sepc + 2)' /\ Shown'
  BY <1>1 DEF Base, Prepared, SavedAll, Shown
<1>3. LOAD(32) = before.ctl.sstatus /\ LOAD(33) = before.ctl.sepc + 2
  BY <1>1 DEF LOAD, OnFrame, SavedAll
<1>4. /\ before.ctl.sstatus \in Int /\ before.ctl.sepc \in Int /\ gpr[SP] \in Int /\ SPP \in Int
      /\ gpr \in [Reg -> Int] /\ gpr[SP] + FRAME \in Int /\ gpr[SP] = Base
  BY <1>1 DEF FrameTypeOK, Ctl, SP, Reg, SPP, FRAME, OnFrame
<1>5. gpr' \in [Reg -> Int] /\ gpr'[0] = 0 /\ gpr'[SP] = Base
  <2>1. gpr' = [gpr EXCEPT ![S(0)] = IF FromKernel(LOAD(32)) THEN SPP ELSE gpr[SP] + FRAME,
                           ![S(1)] = LOAD(32), ![S(2)] = LOAD(33)]
    BY DEF RestoreControl
  <2>2. PICK a \in Int : a = IF FromKernel(LOAD(32)) THEN SPP ELSE gpr[SP] + FRAME
    BY <1>4
  <2>3. S(0) = 8 /\ S(1) = 9 /\ S(2) = 18
    BY DEF S
  <2>4. gpr' = [gpr EXCEPT ![8] = a, ![9] = LOAD(32), ![18] = LOAD(33)]
    BY <2>1, <2>2, <2>3
  <2>5. LOAD(32) \in Int /\ LOAD(33) \in Int
    BY <1>3, <1>4
  <2> QED BY <1>1, <1>4, <2>4, <2>5 DEF OnFrame, SP, Reg
<1>6. ctl' \in Ctl /\ ControlBack'
  <2>1. PICK a \in Int : a = IF FromKernel(LOAD(32)) THEN ctl.sscratch ELSE gpr[SP] + FRAME
    BY <1>1, <1>4
  <2>2. a = before.ctl.sscratch
    BY <1>1, <1>3, <1>4, <2>1, BaseIs DEF Prepared, Base, FRAME
  <2>3. ctl' = [ctl EXCEPT !.sscratch = a, !.sepc = LOAD(33), !.sstatus = LOAD(32)]
    BY <2>1 DEF RestoreControl
  <2>4. LOAD(33) \in Int /\ LOAD(32) \in Int /\ ctl \in Ctl
    BY <1>1, <1>3, <1>4 DEF FrameTypeOK
  <2>5. /\ ctl' \in Ctl /\ ctl'.sscratch = a /\ ctl'.sepc = LOAD(33) /\ ctl'.sstatus = LOAD(32)
        /\ ctl'.stval = ctl.stval /\ ctl'.scause = ctl.scause
    BY <2>3, <2>4 DEF Ctl
  <2> QED BY <1>1, <1>3, <2>2, <2>5 DEF ControlKept, ControlBack
<1>7. FrameTypeOK' /\ OnFrame'
  BY <1>1, <1>2, <1>5, <1>6 DEF FrameTypeOK, OnFrame
<1> QED BY <1>1, <1>2, <1>6, <1>7 DEF FrameInv

(* The registers come back before sp does. *)
LEMMA RestoreRegistersKeeps == FrameInv /\ RestoreRegisters => FrameInv'
<1> SUFFICES ASSUME FrameInv, RestoreRegisters PROVE FrameInv'
  OBVIOUS
<1>1. /\ FrameTypeOK /\ Prepared /\ OnFrame /\ SavedAll(before.ctl.sepc + 2) /\ Shown /\ ControlBack
      /\ fpc' = "restore sp" /\ before' = before /\ frame' = frame /\ shown' = shown /\ ctl' = ctl
  BY DEF FrameInv, RestoreRegisters, Step
<1>2. Base' = Base /\ Prepared' /\ SavedAll(before.ctl.sepc + 2)' /\ Shown' /\ ControlBack'
  BY <1>1 DEF Base, Prepared, SavedAll, Shown, ControlBack
<1>3. gpr' = [r \in Reg |-> IF r \in {0, SP} THEN gpr[r] ELSE frame[Base][r]]
  BY <1>1 DEF RestoreRegisters, LOAD, OnFrame
<1>4. \A r \in Reg \ {SP} : gpr'[r] = before.gpr[r]
  BY <1>1, <1>3 DEF SavedAll, OnFrame, FrameTypeOK
<1>5. gpr' \in [Reg -> Int] /\ gpr'[SP] = Base /\ gpr'[0] = 0
  <2>1. \A r \in Reg : frame[Base][r] \in Int
    <3>1. Reg \subseteq Slot
      BY DEF Reg, Slot
    <3> QED BY <1>1, <3>1, BaseIs DEF FrameTypeOK
  <2>2. 0 \in Reg /\ SP \in Reg
    BY DEF Reg, SP
  <2> QED BY <1>1, <1>3, <2>1, <2>2 DEF FrameTypeOK, OnFrame
<1>6. FrameTypeOK' /\ OnFrame' /\ RegistersKept'
  BY <1>1, <1>2, <1>4, <1>5 DEF FrameTypeOK, OnFrame, RegistersKept
<1> QED BY <1>1, <1>2, <1>6 DEF FrameInv

(* sp comes last. *)
LEMMA RestoreSpKeeps == FrameInv /\ RestoreSp => FrameInv'
<1> SUFFICES ASSUME FrameInv, RestoreSp PROVE FrameInv'
  OBVIOUS
<1>1. /\ FrameTypeOK /\ Prepared /\ OnFrame /\ RegistersKept /\ SavedAll(before.ctl.sepc + 2) /\ Shown /\ ControlBack
      /\ fpc' = "sret" /\ before' = before /\ frame' = frame /\ shown' = shown /\ ctl' = ctl
  BY DEF FrameInv, RestoreSp, Step
<1>2. Prepared' /\ Shown' /\ ControlBack'
  BY <1>1 DEF Prepared, Shown, ControlBack
<1>3. SP \in Reg \ {0} /\ frame[Base][SP] = before.gpr[SP]
  BY <1>1 DEF SavedAll, SP, Reg
<1>4. gpr' = [gpr EXCEPT ![SP] = before.gpr[SP]]
  BY <1>1, <1>3 DEF RestoreSp, LOAD, OnFrame
<1>5. gpr' = before.gpr
  BY <1>1, <1>3, <1>4 DEF FrameTypeOK, RegistersKept
<1>6. FrameTypeOK'
  BY <1>1, <1>5 DEF FrameTypeOK
<1> QED BY <1>1, <1>2, <1>5, <1>6 DEF FrameInv

(* The end: what the property says of sret follows. *)
LEMMA ReturnIsExact == FrameInv => RegistersRestored
<1> SUFFICES ASSUME FrameInv, fpc = "sret"
             PROVE  /\ gpr = before.gpr
                    /\ ctl = [before.ctl EXCEPT !.sepc = @ + 2]
                    /\ \A r \in Reg \ {0} : shown[r + 1] = before.gpr[r]
                    /\ SubSeq(shown, 33, 36) = <<before.ctl.sstatus, before.ctl.sepc, before.ctl.stval, before.ctl.scause>>
  BY DEF RegistersRestored
<1>1. FrameTypeOK /\ gpr = before.gpr /\ Shown /\ ControlBack
  BY DEF FrameInv
<1>2. ctl = [before.ctl EXCEPT !.sepc = @ + 2]
  BY <1>1 DEF FrameTypeOK, Ctl, ControlBack
<1>3. SubSeq(shown, 33, 36) = <<before.ctl.sstatus, before.ctl.sepc, before.ctl.stval, before.ctl.scause>>
  <2>1. \A k \in 33 .. 36 : shown[k] \in Int
    <3>1. \A k \in 1 .. 36 : shown[k] \in Int
      BY <1>1 DEF Shown
    <3> QED BY <3>1
  <2>2. PICK t : t = SubSeq(shown, 33, 36)
    OBVIOUS
  <2>3. /\ SubSeq(shown, 33, 36) \in Seq(Int)
        /\ Len(SubSeq(shown, 33, 36)) = IF 33 <= 36 THEN 36 - 33 + 1 ELSE 0
        /\ \A k \in 1 .. 36 - 33 + 1 : SubSeq(shown, 33, 36)[k] = shown[33 + k - 1]
    BY ONLY <2>1, SubSeqProperties, 33 \in Int, 36 \in Int
  <2>4. t \in Seq(Int) /\ Len(t) = 4 /\ \A k \in 1 .. 4 : t[k] = shown[32 + k]
    BY <2>2, <2>3
  <2>5. t[1] = shown[33] /\ t[2] = shown[34] /\ t[3] = shown[35] /\ t[4] = shown[36]
    BY <2>4
  <2>6. t = <<shown[33], shown[34], shown[35], shown[36]>>
    BY ONLY <2>4, <2>5
  <2> QED BY <1>1, <2>2, <2>6 DEF Shown
<1> QED BY <1>1, <1>2, <1>3 DEF Shown

(* A trap that returns gives the interrupted program all its registers back, *)
(* whatever they held and whatever the handler left in them                  *)
(* (stackframe.h:13-117), and leaves sscratch as the next trap needs it.     *)
THEOREM TrapsReturn == FrameSpec => []RegistersRestored
<1>1. FrameInv /\ [FrameNext]_framevars => FrameInv'
  <2>1. FrameInv /\ UNCHANGED framevars => FrameInv'
    BY ZenonT(90) DEF FrameInv, framevars, FrameTypeOK, Prepared, Base, OnFrame, RegistersKept, ControlKept, SavedRegisters,
           SavedAll, Shown, ControlBack
  <2> QED BY <2>1, SwapStackKeeps, SaveRegistersKeeps, SaveControlKeeps, HandleKeeps, RestoreControlKeeps,
             RestoreRegistersKeeps, RestoreSpKeeps DEF FrameNext
<1> QED BY <1>1, FrameInvInit, ReturnIsExact, PTL DEF FrameSpec
-----------------------------------------------------------------------------
(***************************************************************************)
(* The disk image.  Every File has a number of blocks (Counts), and the    *)
(* pointers of all Files together run through the blocks handed out, each  *)
(* of which is met once (BlocksShape).  Files lie in directory blocks,     *)
(* from the front, and have names of their own (FilesShape); what was      *)
(* written is still there (HostShape).                                     *)
(***************************************************************************)
FIRST == 2 + nbitblock

FileRec ==
  [name : Int, kind : {"REG", "DIR"}, size : Int, direct : [0 .. NDIRECT - 1 -> Nat], indirect : Nat]

Disk ==
  [type : [Block -> Nat], file : [Place -> FileRec], link : [Block -> [0 .. NINDIRECT - 1 -> Nat]],
   data : [Block -> Int \X Int], nextbno : Nat]

(* The n-th block of the File at f, its index block, and the type of the    *)
(* former.                                                                  *)
NthBlock(d, f, n) == IF n < NDIRECT THEN d.file[f].direct[n] ELSE d.link[d.file[f].indirect][n]
Index(d, f) == d.file[f].indirect
TypeFor(d, f) == IF d.file[f].kind = "DIR" THEN BLOCK_FILE ELSE BLOCK_DATA

(* How many blocks every File has, the one being read included. *)
Counts ==
  [f \in Place |-> IF fspc = "read" /\ f = target THEN iblk
                   ELSE IF disk.file[f].size < 0 THEN 0 ELSE disk.file[f].size]

IndexesRight(d, cnt) ==
  \A f \in Place :
    /\ Index(d, f) # 0 <=> cnt[f] > NDIRECT
    /\ Index(d, f) # 0 => Index(d, f) \in FIRST .. d.nextbno - 1 /\ d.type[Index(d, f)] = BLOCK_INDEX

PointersRight(d, cnt) ==
  \A f \in Place : \A n \in 0 .. cnt[f] - 1 :
    NthBlock(d, f, n) \in FIRST .. d.nextbno - 1 /\ d.type[NthBlock(d, f, n)] = TypeFor(d, f)

IndexesDiffer(d) ==
  \A f, g \in Place : Index(d, f) # 0 /\ Index(d, f) = Index(d, g) => f = g

PointersDiffer(d, cnt) ==
  \A f, g \in Place : \A n \in 0 .. cnt[f] - 1, m \in 0 .. cnt[g] - 1 :
    NthBlock(d, f, n) = NthBlock(d, g, m) => f = g /\ n = m

NoneLost(d, cnt) ==
  \A b \in FIRST .. d.nextbno - 1 :
    \E f \in Place : b = Index(d, f) \/ \E n \in 0 .. cnt[f] - 1 : b = NthBlock(d, f, n)

BlocksShape(d, cnt) ==
  /\ d \in Disk /\ cnt \in [Place -> 0 .. NINDIRECT] /\ d.nextbno >= FIRST
  /\ IndexesRight(d, cnt) /\ PointersRight(d, cnt)
  /\ IndexesDiffer(d) /\ PointersDiffer(d, cnt)
  /\ NoneLost(d, cnt)

(* The numbers of the layout.                                               *)
LEMMA FsNumbers ==
  /\ NBLOCK \in Nat /\ NBLOCK >= 1 /\ BLOCK_SIZE_BIT \in Nat /\ BLOCK_SIZE_BIT >= 1
  /\ WORD \in Nat /\ WORD >= 1 /\ BYTE \in Nat /\ BYTE >= 1
  /\ NDIRECT \in Nat /\ NDIRECT >= 1 /\ NINDIRECT \in Nat /\ NDIRECT < NINDIRECT
  /\ FILE2BLK \in Nat /\ FILE2BLK >= 1
  /\ nbitblock \in Nat /\ nbitblock >= 1 /\ FIRST \in Nat /\ FIRST >= 3 /\ FIRST <= NBLOCK
<1>1. \A n \in {NBLOCK, BLOCK_SIZE_BIT, WORD, BYTE, NDIRECT, NINDIRECT, FILE2BLK} : n \in Nat /\ n >= 1
  BY FsAssumption
<1>2. /\ NBLOCK \in Nat /\ NBLOCK >= 1 /\ BLOCK_SIZE_BIT \in Nat /\ BLOCK_SIZE_BIT >= 1
      /\ WORD \in Nat /\ WORD >= 1 /\ BYTE \in Nat /\ BYTE >= 1
      /\ NDIRECT \in Nat /\ NDIRECT >= 1 /\ NINDIRECT \in Nat
      /\ FILE2BLK \in Nat /\ FILE2BLK >= 1
  BY <1>1
<1>3. nbitblock \in Nat /\ nbitblock >= 1
  <2> DEFINE y == NBLOCK + BLOCK_SIZE_BIT - 1
  <2>1. y \in Nat /\ y >= BLOCK_SIZE_BIT
    BY <1>2
  <2>2. PICK n \in Nat, r \in 0 .. BLOCK_SIZE_BIT - 1 :
          n = y \div BLOCK_SIZE_BIT /\ n * BLOCK_SIZE_BIT \in Nat /\ y = n * BLOCK_SIZE_BIT + r
    <3> HIDE DEF y
    <3> QED BY <2>1, <1>2, Divide
  <2>3. n # 0
    <3>1. ASSUME n = 0 PROVE FALSE
      <4>1. n * BLOCK_SIZE_BIT = 0
        BY <1>2, <3>1
      <4> HIDE DEF y
      <4> QED BY <2>1, <2>2, <4>1, <1>2
    <3> QED BY <3>1
  <2>4. nbitblock = n
    BY <2>2 DEF nbitblock
  <2> QED BY <2>2, <2>3, <2>4
<1>4. 2 + nbitblock <= NBLOCK /\ NDIRECT < NINDIRECT
  BY FsAssumption
<1> HIDE DEF nbitblock
<1> QED BY <1>2, <1>3, <1>4 DEF FIRST

(* A place is a block and a position in it.                                 *)
LEMMA PlaceParts ==
  /\ \A f \in Place : f[1] \in Block /\ f[2] \in 0 .. FILE2BLK - 1 /\ f = <<f[1], f[2]>>
  /\ \A b \in Block, k \in 0 .. FILE2BLK - 1 : <<b, k>> \in Place
  /\ \A f, g \in Place : f[1] = g[1] /\ f[2] = g[2] => f = g
  /\ ROOT \in Place /\ ROOT[1] = 1 /\ ROOT[2] = 0
<1>1. 1 \in Block /\ 0 \in 0 .. FILE2BLK - 1
  BY FsNumbers DEF Block
<1> QED BY <1>1 DEF Place, ROOT

(* What a disk is made of.                                                  *)
LEMMA DiskParts ==
  ASSUME NEW d \in Disk
  PROVE  /\ d.nextbno \in Nat /\ d.type \in [Block -> Nat]
         /\ d.link \in [Block -> [0 .. NINDIRECT - 1 -> Nat]]
         /\ d.data \in [Block -> Int \X Int] /\ d.file \in [Place -> FileRec]
         /\ \A f \in Place : /\ d.file[f] \in FileRec
                             /\ d.file[f].name \in Int /\ d.file[f].size \in Int
                             /\ d.file[f].kind \in {"REG", "DIR"}
                             /\ d.file[f].direct \in [0 .. NDIRECT - 1 -> Nat]
                             /\ d.file[f].indirect \in Nat
<1>1. d.file \in [Place -> FileRec]
  BY DEF Disk
<1>2. \A f \in Place : d.file[f] \in FileRec
  BY <1>1
<1>3. \A r \in FileRec : /\ r.name \in Int /\ r.size \in Int /\ r.kind \in {"REG", "DIR"}
                         /\ r.direct \in [0 .. NDIRECT - 1 -> Nat] /\ r.indirect \in Nat
  BY DEF FileRec
<1> QED BY <1>1, <1>2, <1>3 DEF Disk
-----------------------------------------------------------------------------
(* next_block, entry by entry.                                              *)
LEMMA NextBlock ==
  ASSUME NEW d \in Disk, d.nextbno \in Block, NEW t \in Nat, NEW e, e = next_block(d, t)
  PROVE  /\ e \in Disk /\ e.nextbno = d.nextbno + 1
         /\ e.file = d.file /\ e.link = d.link /\ e.data = d.data
         /\ \A c \in Block : e.type[c] = IF c = d.nextbno THEN t ELSE d.type[c]
<1>1. d.type \in [Block -> Nat] /\ d.nextbno \in Nat
  BY DiskParts
<1>2. PICK ty : ty = [d.type EXCEPT ![d.nextbno] = t]
  OBVIOUS
<1>3. ty \in [Block -> Nat] /\ \A c \in Block : ty[c] = IF c = d.nextbno THEN t ELSE d.type[c]
  BY <1>1, <1>2
<1>4. PICK nb : nb = d.nextbno + 1
  OBVIOUS
<1>5. nb \in Nat
  BY <1>1, <1>4
<1>6. e = [d EXCEPT !.type = ty, !.nextbno = nb]
  BY <1>2, <1>4 DEF next_block
<1>7. /\ e \in Disk /\ e.type = ty /\ e.nextbno = nb
      /\ e.file = d.file /\ e.link = d.link /\ e.data = d.data
  BY ONLY <1>6, <1>3, <1>5, d \in Disk DEF Disk
<1> QED BY <1>3, <1>4, <1>7

(* What save_block_link does: a new index block where it is needed, and one *)
(* pointer.                                                                 *)
Fresh(d, f, n) == n >= NDIRECT /\ Index(d, f) = 0

Saved(d, e, f, n, b) ==
  /\ e \in Disk /\ e.data = d.data
  /\ e.nextbno = IF Fresh(d, f, n) THEN d.nextbno + 1 ELSE d.nextbno
  /\ \A c \in Block : e.type[c] = IF Fresh(d, f, n) /\ c = d.nextbno THEN BLOCK_INDEX ELSE d.type[c]
  /\ \A g \in Place : /\ e.file[g].name = d.file[g].name /\ e.file[g].kind = d.file[g].kind
                      /\ e.file[g].size = d.file[g].size
  /\ \A g \in Place : Index(e, g) = IF Fresh(d, f, n) /\ g = f THEN d.nextbno ELSE Index(d, g)
  /\ \A g \in Place : \A m \in 0 .. NDIRECT - 1 :
       e.file[g].direct[m] = IF g = f /\ m = n THEN b ELSE d.file[g].direct[m]
  /\ \A c \in Block : \A m \in 0 .. NINDIRECT - 1 :
       e.link[c][m] = IF n >= NDIRECT /\ c = Index(e, f) /\ m = n THEN b ELSE d.link[c][m]

(* The case of a direct pointer.                                            *)
LEMMA SavedDirect ==
  ASSUME NEW d \in Disk, NEW f \in Place, NEW n \in 0 .. NDIRECT - 1, NEW b \in Nat,
         NEW e, e = save_block_link(d, f, n, b)
  PROVE  Saved(d, e, f, n, b)
<1>0. NDIRECT \in Nat /\ NINDIRECT \in Nat /\ NDIRECT < NINDIRECT
  BY FsNumbers
<1>1. e = [d EXCEPT !.file[f].direct[n] = b]
  <2>1. n < NDIRECT
    BY <1>0
  <2> QED BY ONLY <2>1, e = save_block_link(d, f, n, b), SMTT(30) DEF save_block_link
<1>2. d.file \in [Place -> FileRec] /\ d.file[f] \in FileRec /\ d.file[f].direct \in [0 .. NDIRECT - 1 -> Nat]
  BY DiskParts
<1>3. PICK dr : dr = [d.file[f].direct EXCEPT ![n] = b]
  OBVIOUS
<1>4. dr \in [0 .. NDIRECT - 1 -> Nat] /\ \A m \in 0 .. NDIRECT - 1 : dr[m] = IF m = n THEN b ELSE d.file[f].direct[m]
  BY <1>2, <1>3
<1>5. PICK r : r = [d.file[f] EXCEPT !.direct = dr]
  OBVIOUS
<1>6. /\ r \in FileRec /\ r.direct = dr /\ r.name = d.file[f].name /\ r.kind = d.file[f].kind
      /\ r.size = d.file[f].size /\ r.indirect = d.file[f].indirect
  BY <1>2, <1>4, <1>5 DEF FileRec
<1>7. PICK fl : fl = [d.file EXCEPT ![f] = r]
  OBVIOUS
<1>8. fl \in [Place -> FileRec] /\ fl[f] = r /\ \A g \in Place : g # f => fl[g] = d.file[g]
  BY <1>2, <1>6, <1>7
<1>9. e = [d EXCEPT !.file = fl]
  BY <1>1, <1>3, <1>5, <1>7
<1>10. /\ e \in Disk /\ e.file = fl /\ e.type = d.type /\ e.link = d.link /\ e.data = d.data
       /\ e.nextbno = d.nextbno
  BY ONLY <1>9, <1>8, d \in Disk DEF Disk
<1>11. ~Fresh(d, f, n) /\ ~(n >= NDIRECT)
  BY <1>0 DEF Fresh
<1>12. \A g \in Place : /\ e.file[g].name = d.file[g].name /\ e.file[g].kind = d.file[g].kind
                        /\ e.file[g].size = d.file[g].size /\ Index(e, g) = Index(d, g)
  BY <1>6, <1>8, <1>10 DEF Index
<1>13. \A g \in Place : \A m \in 0 .. NDIRECT - 1 :
         e.file[g].direct[m] = IF g = f /\ m = n THEN b ELSE d.file[g].direct[m]
  BY <1>4, <1>6, <1>8, <1>10, ZenonT(30)
<1> QED BY <1>10, <1>11, <1>12, <1>13 DEF Saved

(* The case of the index block, made if there is none.                      *)
LEMMA SavedIndirect ==
  ASSUME NEW d \in Disk, NEW f \in Place, NEW n \in NDIRECT .. NINDIRECT - 1, NEW b \in Nat,
         d.nextbno \in Block, Index(d, f) \in Block,
         NEW e, e = save_block_link(d, f, n, b)
  PROVE  Saved(d, e, f, n, b)
<1>0. NDIRECT \in Nat /\ NINDIRECT \in Nat /\ NDIRECT < NINDIRECT /\ n >= NDIRECT /\ ~(n < NDIRECT)
      /\ n \in 0 .. NINDIRECT - 1
  BY FsNumbers
<1>1. PICK made : made = IF d.file[f].indirect # 0 THEN d
                ELSE [next_block(d, BLOCK_INDEX) EXCEPT !.file[f].indirect = d.nextbno]
  OBVIOUS
<1>2. e = [made EXCEPT !.link[made.file[f].indirect][n] = b]
  BY <1>0, <1>1 DEF save_block_link
<1>3. /\ made \in Disk /\ made.data = d.data /\ made.link = d.link
      /\ made.nextbno = IF Fresh(d, f, n) THEN d.nextbno + 1 ELSE d.nextbno
      /\ \A c \in Block : made.type[c] = IF Fresh(d, f, n) /\ c = d.nextbno THEN BLOCK_INDEX ELSE d.type[c]
      /\ \A g \in Place : /\ made.file[g].name = d.file[g].name /\ made.file[g].kind = d.file[g].kind
                          /\ made.file[g].size = d.file[g].size /\ made.file[g].direct = d.file[g].direct
      /\ \A g \in Place : Index(made, g) = IF Fresh(d, f, n) /\ g = f THEN d.nextbno ELSE Index(d, g)
  <2>1. CASE Index(d, f) # 0
    BY <2>1, <1>1 DEF Index, Fresh
  <2>2. CASE Index(d, f) = 0
    <3>1. Fresh(d, f, n)
      BY <2>2, <1>0 DEF Fresh
    <3>2. PICK nx : nx = next_block(d, BLOCK_INDEX)
      OBVIOUS
    <3>3. /\ nx \in Disk /\ nx.nextbno = d.nextbno + 1
          /\ nx.file = d.file /\ nx.link = d.link /\ nx.data = d.data
          /\ \A c \in Block : nx.type[c] = IF c = d.nextbno THEN BLOCK_INDEX ELSE d.type[c]
      BY <3>2, NextBlock DEF BLOCK_INDEX
    <3>4. made = [nx EXCEPT !.file[f].indirect = d.nextbno]
      BY <1>1, <2>2, <3>2 DEF Index
    <3>5. d.file \in [Place -> FileRec] /\ d.file[f] \in FileRec /\ d.nextbno \in Nat
      BY DiskParts
    <3>6. PICK r : r = [d.file[f] EXCEPT !.indirect = d.nextbno]
      OBVIOUS
    <3>7. /\ r \in FileRec /\ r.indirect = d.nextbno /\ r.name = d.file[f].name /\ r.kind = d.file[f].kind
          /\ r.size = d.file[f].size /\ r.direct = d.file[f].direct
      BY <3>5, <3>6 DEF FileRec
    <3>8. PICK fl : fl = [d.file EXCEPT ![f] = r]
      OBVIOUS
    <3>9. fl \in [Place -> FileRec] /\ fl[f] = r /\ \A g \in Place : g # f => fl[g] = d.file[g]
      BY <3>5, <3>7, <3>8
    <3>10. made = [nx EXCEPT !.file = fl]
      BY <3>3, <3>4, <3>6, <3>8
    <3>11. /\ made \in Disk /\ made.file = fl /\ made.type = nx.type /\ made.link = nx.link
           /\ made.data = nx.data /\ made.nextbno = nx.nextbno
      BY ONLY <3>10, <3>9, <3>3 DEF Disk
    <3>12. \A g \in Place : /\ made.file[g].name = d.file[g].name /\ made.file[g].kind = d.file[g].kind
                            /\ made.file[g].size = d.file[g].size /\ made.file[g].direct = d.file[g].direct
      BY <3>7, <3>9, <3>11
    <3>13. \A g \in Place : Index(made, g) = IF g = f THEN d.nextbno ELSE Index(d, g)
      BY <3>7, <3>9, <3>11 DEF Index
    <3> QED BY <3>1, <3>3, <3>11, <3>12, <3>13
  <2> QED BY <2>1, <2>2
<1>4. PICK x : x = Index(made, f)
  OBVIOUS
<1>5. x \in Block
  BY <1>3, <1>4
<1>6. made.link \in [Block -> [0 .. NINDIRECT - 1 -> Nat]]
  BY <1>3, DiskParts
<1>7. PICK row : row = [made.link[x] EXCEPT ![n] = b]
  OBVIOUS
<1>8. row \in [0 .. NINDIRECT - 1 -> Nat] /\ \A m \in 0 .. NINDIRECT - 1 : row[m] = IF m = n THEN b ELSE made.link[x][m]
  BY <1>0, <1>5, <1>6, <1>7
<1>9. PICK ln : ln = [made.link EXCEPT ![x] = row]
  OBVIOUS
<1>10. ln \in [Block -> [0 .. NINDIRECT - 1 -> Nat]] /\ ln[x] = row /\ \A c \in Block : c # x => ln[c] = made.link[c]
  BY <1>5, <1>6, <1>8, <1>9
<1>11. e = [made EXCEPT !.link = ln]
  BY <1>2, <1>4, <1>7, <1>9 DEF Index
<1>12. /\ e \in Disk /\ e.link = ln /\ e.type = made.type /\ e.file = made.file /\ e.data = made.data
       /\ e.nextbno = made.nextbno
  BY ONLY <1>11, <1>10, <1>3 DEF Disk
<1>13. \A g \in Place : Index(e, g) = Index(made, g)
  BY <1>12 DEF Index
<1>14. \A c \in Block : \A m \in 0 .. NINDIRECT - 1 :
         e.link[c][m] = IF c = Index(e, f) /\ m = n THEN b ELSE d.link[c][m]
  <2>1. Index(e, f) = x /\ made.link = d.link /\ e.link = ln
    BY <1>3, <1>4, <1>12, <1>13
  <2>2. ASSUME NEW c \in Block, NEW m \in 0 .. NINDIRECT - 1
        PROVE  ln[c][m] = IF c = x /\ m = n THEN b ELSE made.link[c][m]
    BY <1>8, <1>10
  <2> QED BY <2>1, <2>2
<1>15. \A m \in 0 .. NDIRECT - 1 : m # n
  BY <1>0
<1>16. \A g \in Place : \A m \in 0 .. NDIRECT - 1 :
         e.file[g].direct[m] = IF g = f /\ m = n THEN b ELSE d.file[g].direct[m]
  BY <1>3, <1>12, <1>15
<1>17. \A g \in Place : /\ e.file[g].name = d.file[g].name /\ e.file[g].kind = d.file[g].kind
                        /\ e.file[g].size = d.file[g].size
  BY <1>3, <1>12
<1>18. \A g \in Place : Index(e, g) = IF Fresh(d, f, n) /\ g = f THEN d.nextbno ELSE Index(d, g)
  BY <1>3, <1>13
<1> QED BY <1>0, <1>3, <1>12, <1>14, <1>16, <1>17, <1>18 DEF Saved

(* The File at f has taken a block of type t, the next of its blocks, and   *)
(* before that an index block if it needs one.  The blocks all Files had    *)
(* are still theirs.                                                        *)
Took(d, e, cnt, f, t) ==
  /\ e \in Disk
  /\ e.nextbno = IF Fresh(d, f, cnt[f]) THEN d.nextbno + 2 ELSE d.nextbno + 1
  /\ e.type[d.nextbno] = t /\ (Fresh(d, f, cnt[f]) => e.type[d.nextbno + 1] = BLOCK_INDEX)
  /\ \A c \in Block : c < d.nextbno \/ c >= e.nextbno => e.type[c] = d.type[c]
  /\ \A g \in Place : /\ e.file[g].name = d.file[g].name /\ e.file[g].kind = d.file[g].kind
                      /\ e.file[g].size = d.file[g].size
  /\ \A g \in Place : Index(e, g) = IF Fresh(d, f, cnt[f]) /\ g = f THEN d.nextbno + 1 ELSE Index(d, g)
  /\ NthBlock(e, f, cnt[f]) = d.nextbno
  /\ \A g \in Place : \A m \in 0 .. cnt[g] - 1 : NthBlock(e, g, m) = NthBlock(d, g, m)

(* next_block and save_block_link together do that.                         *)
LEMMA TookBlock ==
  ASSUME NEW d, NEW cnt, BlocksShape(d, cnt), d.nextbno <= NBLOCK,
         NEW f \in Place, cnt[f] < NINDIRECT, NEW t \in Nat,
         NEW nx \in Disk, nx.nextbno = d.nextbno + 1, nx.file = d.file, nx.link = d.link,
         \A c \in Block : nx.type[c] = IF c = d.nextbno THEN t ELSE d.type[c],
         NEW e, e = save_block_link(nx, f, cnt[f], d.nextbno)
  PROVE  Took(d, e, cnt, f, t) /\ e.data = nx.data
<1> DEFINE n == cnt[f]
           b == d.nextbno
<1>0. /\ NDIRECT \in Nat /\ NINDIRECT \in Nat /\ NDIRECT < NINDIRECT /\ NBLOCK \in Nat
      /\ FIRST \in Nat /\ FIRST >= 3 /\ FIRST <= NBLOCK
  BY FsNumbers
<1>1. /\ d \in Disk /\ cnt \in [Place -> 0 .. NINDIRECT] /\ b >= FIRST /\ b \in Nat
      /\ IndexesRight(d, cnt) /\ PointersRight(d, cnt) /\ IndexesDiffer(d)
  BY DiskParts DEF BlocksShape
<1>2. n \in 0 .. NINDIRECT - 1
  BY <1>0, <1>1
<1>3. b \in Block /\ b + 1 \in Block
  BY <1>0, <1>1 DEF Block
<1>4. \A g \in Place : Index(d, g) \in Block /\ Index(d, g) # b /\ Index(d, g) # b + 1
  <2> TAKE g \in Place
  <2>1. Index(d, g) = 0 \/ Index(d, g) \in FIRST .. b - 1
    BY <1>1 DEF IndexesRight
  <2> HIDE DEF b
  <2> QED BY <2>1, <1>0, <1>1, <1>3 DEF Block
<1>5. \A g \in Place : Index(nx, g) = Index(d, g)
  BY DEF Index
<1>6. Saved(nx, e, f, n, b)
  <2>1. CASE n < NDIRECT
    <3>1. n \in 0 .. NDIRECT - 1
      BY <2>1, <1>0, <1>2
    <3> QED BY <3>1, <1>1, SavedDirect
  <2>2. CASE ~(n < NDIRECT)
    <3>1. n \in NDIRECT .. NINDIRECT - 1
      BY <2>2, <1>0, <1>2
    <3>2. nx.nextbno \in Block /\ Index(nx, f) \in Block
      BY <1>3, <1>4, <1>5
    <3> QED BY <3>1, <3>2, <1>1, SavedIndirect
  <2> QED BY <2>1, <2>2
<1>7. Fresh(nx, f, n) <=> Fresh(d, f, n)
  BY <1>5 DEF Fresh
<1>8. /\ e \in Disk /\ e.data = nx.data
      /\ e.nextbno = IF Fresh(d, f, n) THEN b + 2 ELSE b + 1
      /\ \A c \in Block : e.type[c] = IF Fresh(d, f, n) /\ c = b + 1 THEN BLOCK_INDEX ELSE nx.type[c]
      /\ \A g \in Place : /\ e.file[g].name = d.file[g].name /\ e.file[g].kind = d.file[g].kind
                          /\ e.file[g].size = d.file[g].size
      /\ \A g \in Place : Index(e, g) = IF Fresh(d, f, n) /\ g = f THEN b + 1 ELSE Index(d, g)
      /\ \A g \in Place : \A m \in 0 .. NDIRECT - 1 :
           e.file[g].direct[m] = IF g = f /\ m = n THEN b ELSE d.file[g].direct[m]
      /\ \A c \in Block : \A m \in 0 .. NINDIRECT - 1 :
           e.link[c][m] = IF n >= NDIRECT /\ c = Index(e, f) /\ m = n THEN b ELSE d.link[c][m]
  <2> HIDE DEF b, n
  <2>1. b \in Nat /\ nx.nextbno = b + 1 /\ b + 1 + 1 = b + 2
    BY <1>1 DEF b
  <2> QED BY <2>1, <1>5, <1>6, <1>7 DEF Saved
<1>9. \A c \in Block : c < b \/ c >= e.nextbno => e.type[c] = d.type[c]
  <2> TAKE c \in Block
  <2>1. c \in Nat
    BY <1>0 DEF Block
  <2> HIDE DEF b, n
  <2> QED BY <2>1, <1>8, <1>1 DEF b
<1>10. e.type[b] = t /\ (Fresh(d, f, n) => e.type[b + 1] = BLOCK_INDEX)
  <2>1. b # b + 1
    BY <1>1
  <2> QED BY <2>1, <1>3, <1>8
<1>11. NthBlock(e, f, n) = b
  <2>1. CASE n < NDIRECT
    <3>1. n \in 0 .. NDIRECT - 1
      BY <2>1, <1>0, <1>2
    <3> HIDE DEF n, b
    <3> QED BY <2>1, <3>1, <1>8 DEF NthBlock
  <2>2. CASE ~(n < NDIRECT)
    <3>1. n >= NDIRECT
      BY <2>2, <1>0, <1>2
    <3>2. Index(e, f) \in Block
      BY <1>3, <1>4, <1>8
    <3> HIDE DEF n, b
    <3>3. e.link[Index(e, f)][n] = b
      BY <3>1, <3>2, <1>2, <1>8
    <3> QED BY <2>2, <3>3 DEF NthBlock, Index
  <2> QED BY <2>1, <2>2
<1>12. ASSUME NEW g \in Place, NEW m \in 0 .. cnt[g] - 1
       PROVE  NthBlock(e, g, m) = NthBlock(d, g, m)
  <2>0. cnt[g] \in 0 .. NINDIRECT /\ m \in 0 .. NINDIRECT - 1 /\ m < cnt[g] /\ m \in Nat
    BY <1>0, <1>1
  <2>1. g # f \/ m # n
    BY <2>0
  <2>2. CASE m < NDIRECT
    <3>1. m \in 0 .. NDIRECT - 1
      BY <2>0, <2>2, <1>0
    <3> HIDE DEF n, b
    <3> QED BY <2>1, <2>2, <3>1, <1>8 DEF NthBlock
  <2>3. CASE ~(m < NDIRECT)
    <3>1. cnt[g] > NDIRECT
      BY <2>0, <2>3, <1>0
    <3>2. Index(d, g) # 0 /\ Index(d, g) \in Block
      BY <3>1, <1>1, <1>4 DEF IndexesRight
    <3>3. Index(e, g) = Index(d, g)
      <4>1. g = f => ~Fresh(d, f, n)
        BY <3>2 DEF Fresh
      <4> QED BY <4>1, <1>8
    <3>4. ~(Index(d, g) = Index(e, f) /\ m = n)
      <4> SUFFICES ASSUME Index(d, g) = Index(e, f), m = n PROVE FALSE
        OBVIOUS
      <4>1. g # f
        BY <2>1
      <4>2. Index(d, f) = Index(e, f)
        BY <1>4, <1>8
      <4> QED BY <4>1, <4>2, <3>2, <1>1 DEF IndexesDiffer
    <3> HIDE DEF n, b
    <3>5. e.link[Index(e, g)][m] = d.link[Index(d, g)][m]
      BY <3>2, <3>3, <3>4, <2>0, <1>8
    <3> QED BY <2>3, <3>5 DEF NthBlock, Index
  <2> QED BY <2>2, <2>3
<1> HIDE DEF n, b
<1>13. n = cnt[f] /\ b = d.nextbno
  BY DEF n, b
<1> QED BY <1>8, <1>9, <1>10, <1>11, <1>12, <1>13 DEF Took

(* Taking a block keeps the blocks in shape.                                *)
LEMMA TookShape ==
  ASSUME NEW d, NEW cnt, BlocksShape(d, cnt), d.nextbno <= NBLOCK,
         NEW f \in Place, cnt[f] < NINDIRECT,
         NEW e, Took(d, e, cnt, f, TypeFor(d, f)),
         NEW more, more \in [Place -> 0 .. NINDIRECT], more[f] = cnt[f] + 1,
         \A g \in Place : g # f => more[g] = cnt[g]
  PROVE  BlocksShape(e, more)
<1>0. /\ NDIRECT \in Nat /\ NINDIRECT \in Nat /\ NDIRECT < NINDIRECT /\ NBLOCK \in Nat
      /\ FIRST \in Nat /\ FIRST >= 3 /\ FIRST <= NBLOCK
  BY FsNumbers
<1>1. PICK b, n, t : b = d.nextbno /\ n = cnt[f] /\ t = TypeFor(d, f)
  OBVIOUS
<1>2. /\ d \in Disk /\ cnt \in [Place -> 0 .. NINDIRECT] /\ b >= FIRST /\ b \in Nat
      /\ IndexesRight(d, cnt) /\ PointersRight(d, cnt) /\ IndexesDiffer(d)
      /\ PointersDiffer(d, cnt) /\ NoneLost(d, cnt)
  BY <1>1, DiskParts DEF BlocksShape
<1>3. n \in 0 .. NINDIRECT - 1 /\ b \in Block /\ b + 1 \in Block /\ b <= NBLOCK
  BY <1>0, <1>1, <1>2 DEF Block
<1>4. PICK fr \in BOOLEAN : fr = Fresh(d, f, n)
  BY DEF Fresh
<1>5. /\ e \in Disk
      /\ e.nextbno = IF fr THEN b + 2 ELSE b + 1
      /\ e.type[b] = t /\ (fr => e.type[b + 1] = BLOCK_INDEX)
      /\ \A c \in Block : c < b => e.type[c] = d.type[c]
      /\ \A g \in Place : TypeFor(e, g) = TypeFor(d, g)
      /\ \A g \in Place : Index(e, g) = IF fr /\ g = f THEN b + 1 ELSE Index(d, g)
      /\ NthBlock(e, f, n) = b
      /\ \A g \in Place : \A m \in 0 .. cnt[g] - 1 : NthBlock(e, g, m) = NthBlock(d, g, m)
  BY <1>1, <1>4 DEF Took, TypeFor
<1>6. e.nextbno \in Nat /\ e.nextbno >= b + 1 /\ (fr => e.nextbno = b + 2)
      /\ FIRST .. b - 1 \subseteq FIRST .. e.nextbno - 1 /\ b \in FIRST .. e.nextbno - 1
      /\ (fr => b + 1 \in FIRST .. e.nextbno - 1)
      /\ \A c \in FIRST .. b - 1 : c \in Block /\ c < b /\ c # b /\ c # b + 1 /\ c # 0
  BY <1>0, <1>2, <1>3, <1>5 DEF Block
<1>7. \A g \in Place : \A m \in 0 .. more[g] - 1 : m \in 0 .. cnt[g] - 1 \/ (g = f /\ m = n)
  <2> TAKE g \in Place
  <2>1. cnt[g] \in Nat /\ n \in Nat /\ more[f] = n + 1
    BY <1>0, <1>1, <1>2
  <2> QED BY <2>1, <1>1
<1>8. \A g \in Place : \A m \in 0 .. cnt[g] - 1 : /\ NthBlock(d, g, m) \in FIRST .. b - 1
                                                  /\ NthBlock(e, g, m) \in FIRST .. b - 1
                                                  /\ NthBlock(e, g, m) = NthBlock(d, g, m)
  BY <1>1, <1>2, <1>5 DEF PointersRight
<1>9. \A g \in Place : Index(d, g) # 0 => Index(d, g) \in FIRST .. b - 1
  BY <1>1, <1>2 DEF IndexesRight
<1>10. IndexesRight(e, more)
  <2> SUFFICES ASSUME NEW g \in Place
               PROVE  /\ Index(e, g) # 0 <=> more[g] > NDIRECT
                      /\ Index(e, g) # 0 => /\ Index(e, g) \in FIRST .. e.nextbno - 1
                                            /\ e.type[Index(e, g)] = BLOCK_INDEX
    BY DEF IndexesRight
  <2>1. Index(d, g) # 0 <=> cnt[g] > NDIRECT
    BY <1>2 DEF IndexesRight
  <2>2. Index(d, g) # 0 => Index(d, g) \in FIRST .. b - 1 /\ d.type[Index(d, g)] = BLOCK_INDEX
    BY <1>1, <1>2 DEF IndexesRight
  <2>3. CASE fr /\ g = f
    <3>1. Index(e, g) = b + 1 /\ b + 1 # 0 /\ n >= NDIRECT
      <4>1. Fresh(d, f, n)
        BY <2>3, <1>4
      <4>2. b + 1 # 0
        BY <1>2
      <4> QED BY <2>3, <4>1, <4>2, <1>5 DEF Fresh
    <3>2. more[g] > NDIRECT
      BY <2>3, <3>1, <1>0, <1>1, <1>3
    <3> QED BY <2>3, <3>1, <3>2, <1>5, <1>6
  <2>4. CASE ~(fr /\ g = f)
    <3>1. Index(e, g) = Index(d, g)
      BY <2>4, <1>5
    <3>2. more[g] > NDIRECT <=> cnt[g] > NDIRECT
      <4>1. CASE g # f
        BY <4>1
      <4>2. CASE g = f
        <5>1. ~Fresh(d, f, n)
          BY <2>4, <4>2, <1>4
        <5>2. n >= NDIRECT => n > NDIRECT
          BY <5>1, <2>1, <4>2, <1>1 DEF Fresh
        <5>3. more[g] = n + 1 /\ cnt[g] = n
          BY <4>2, <1>1
        <5> QED BY <5>2, <5>3, <1>0, <1>3
      <4> QED BY <4>1, <4>2
    <3>3. Index(d, g) # 0 => e.type[Index(d, g)] = BLOCK_INDEX
      BY <2>2, <1>5, <1>6
    <3>4. Index(d, g) # 0 => Index(d, g) \in FIRST .. e.nextbno - 1
      BY <2>2, <1>6
    <3> QED BY <3>1, <3>2, <3>3, <3>4, <2>1
  <2> QED BY <2>3, <2>4
<1>11. PointersRight(e, more)
  <2> SUFFICES ASSUME NEW g \in Place, NEW m \in 0 .. more[g] - 1
               PROVE  /\ NthBlock(e, g, m) \in FIRST .. e.nextbno - 1
                      /\ e.type[NthBlock(e, g, m)] = TypeFor(e, g)
    BY DEF PointersRight
  <2>1. CASE m \in 0 .. cnt[g] - 1
    <3>1. d.type[NthBlock(d, g, m)] = TypeFor(d, g)
      BY <2>1, <1>2 DEF PointersRight
    <3> QED BY <2>1, <3>1, <1>5, <1>6, <1>8
  <2>2. CASE g = f /\ m = n
    BY <2>2, <1>1, <1>5, <1>6
  <2> QED BY <2>1, <2>2, <1>7
<1>12. IndexesDiffer(e)
  <2> SUFFICES ASSUME NEW g \in Place, NEW h \in Place, Index(e, g) # 0, Index(e, g) = Index(e, h)
               PROVE  g = h
    BY DEF IndexesDiffer
  <2>1. CASE fr /\ (g = f \/ h = f)
    BY <2>1, <1>2, <1>5, <1>6, <1>9
  <2>2. CASE ~(fr /\ (g = f \/ h = f))
    BY <2>2, <1>2, <1>5 DEF IndexesDiffer
  <2> QED BY <2>1, <2>2
<1>13. PointersDiffer(e, more)
  <2> SUFFICES ASSUME NEW g \in Place, NEW h \in Place, NEW m \in 0 .. more[g] - 1, NEW k \in 0 .. more[h] - 1,
                      NthBlock(e, g, m) = NthBlock(e, h, k)
               PROVE  g = h /\ m = k
    BY DEF PointersDiffer
  <2>1. CASE m \in 0 .. cnt[g] - 1 /\ k \in 0 .. cnt[h] - 1
    BY <2>1, <1>2, <1>8 DEF PointersDiffer
  <2>2. CASE m \in 0 .. cnt[g] - 1 /\ h = f /\ k = n
    BY <2>2, <1>5, <1>6, <1>8
  <2>3. CASE k \in 0 .. cnt[h] - 1 /\ g = f /\ m = n
    BY <2>3, <1>5, <1>6, <1>8
  <2>4. CASE g = f /\ m = n /\ h = f /\ k = n
    BY <2>4
  <2> QED BY <2>1, <2>2, <2>3, <2>4, <1>7
<1>14. NoneLost(e, more)
  <2> SUFFICES ASSUME NEW c \in FIRST .. e.nextbno - 1
               PROVE  \E g \in Place : c = Index(e, g) \/ \E m \in 0 .. more[g] - 1 : c = NthBlock(e, g, m)
    BY DEF NoneLost
  <2>0. n \in 0 .. more[f] - 1 /\ \A g \in Place : 0 .. cnt[g] - 1 \subseteq 0 .. more[g] - 1
    <3>1. n \in 0 .. more[f] - 1
      BY <1>0, <1>1, <1>3
    <3>2. ASSUME NEW g \in Place PROVE 0 .. cnt[g] - 1 \subseteq 0 .. more[g] - 1
      <4>1. cnt[g] \in Nat /\ more[g] \in Nat /\ more[g] >= cnt[g]
        BY <1>0, <1>1, <1>2, <1>3
      <4> QED BY <4>1
    <3> QED BY <3>1, <3>2
  <2>1. c \in FIRST .. b - 1 \/ c = b \/ (fr /\ c = b + 1)
    BY <1>0, <1>2, <1>5
  <2>2. CASE c = b
    BY <2>0, <2>2, <1>5
  <2>3. CASE fr /\ c = b + 1
    BY <2>3, <1>5
  <2>4. CASE c \in FIRST .. b - 1
    <3>1. PICK g \in Place : c = Index(d, g) \/ \E m \in 0 .. cnt[g] - 1 : c = NthBlock(d, g, m)
      BY <2>4, <1>1, <1>2 DEF NoneLost
    <3>2. CASE c = Index(d, g)
      <4>1. Index(d, g) # 0
        BY <2>4, <3>2, <1>6
      <4>2. ~(fr /\ g = f)
        BY <4>1, <1>4 DEF Fresh
      <4>3. Index(e, g) = c
        BY <3>2, <4>2, <1>5
      <4> QED BY <4>3
    <3>3. CASE \E m \in 0 .. cnt[g] - 1 : c = NthBlock(d, g, m)
      BY <2>0, <3>3, <1>8
    <3> QED BY <3>1, <3>2, <3>3
  <2> QED BY <2>1, <2>2, <2>3, <2>4
<1>15. e.nextbno >= FIRST
  BY <1>0, <1>2, <1>6
<1> QED BY <1>5, <1>10, <1>11, <1>12, <1>13, <1>14, <1>15 DEF BlocksShape

(* Other fields of one File.                                                *)
Redone(d, e, f) ==
  /\ e \in Disk /\ e.type = d.type /\ e.link = d.link /\ e.data = d.data /\ e.nextbno = d.nextbno
  /\ \A g \in Place : g # f => e.file[g] = d.file[g]
  /\ e.file[f].indirect = d.file[f].indirect /\ e.file[f].direct = d.file[f].direct

(* Setting the fields of a File leaves all pointers of the image alone.     *)
LEMMA RedonePointers ==
  ASSUME NEW d, NEW e, NEW f \in Place, Redone(d, e, f)
  PROVE  \A g \in Place : Index(e, g) = Index(d, g) /\ \A m : NthBlock(e, g, m) = NthBlock(d, g, m)
  BY DEF Redone, Index, NthBlock

(* Nor does it disturb which blocks the Files have, if no type changes.     *)
LEMMA RedoneShape ==
  ASSUME NEW d, NEW cnt, BlocksShape(d, cnt), NEW f \in Place, NEW e, Redone(d, e, f),
         cnt[f] = 0 \/ e.file[f].kind = d.file[f].kind
  PROVE  BlocksShape(e, cnt)
<1>1. \A g \in Place : Index(e, g) = Index(d, g) /\ \A m : NthBlock(e, g, m) = NthBlock(d, g, m)
  BY RedonePointers
<1>2. e \in Disk /\ e.type = d.type /\ e.nextbno = d.nextbno
  BY DEF Redone
<1>3. \A g \in Place : \A m \in 0 .. cnt[g] - 1 : TypeFor(e, g) = TypeFor(d, g)
  <2> TAKE g \in Place
  <2>1. CASE g # f \/ e.file[f].kind = d.file[f].kind
    BY <2>1 DEF Redone, TypeFor
  <2>2. CASE g = f /\ cnt[f] = 0
    <3>1. 0 .. cnt[g] - 1 = {}
      BY <2>2
    <3> QED BY <3>1
  <2> QED BY <2>1, <2>2
<1>4. /\ IndexesRight(d, cnt) /\ PointersRight(d, cnt) /\ IndexesDiffer(d) /\ PointersDiffer(d, cnt)
      /\ NoneLost(d, cnt) /\ cnt \in [Place -> 0 .. NINDIRECT] /\ d.nextbno >= FIRST
  BY DEF BlocksShape
<1>5. IndexesRight(e, cnt)
  BY <1>1, <1>2, <1>4 DEF IndexesRight
<1>6. PointersRight(e, cnt)
  BY <1>1, <1>2, <1>3, <1>4 DEF PointersRight
<1>7. IndexesDiffer(e)
  BY <1>1, <1>4 DEF IndexesDiffer
<1>8. PointersDiffer(e, cnt)
  BY <1>1, <1>4 DEF PointersDiffer
<1>9. NoneLost(e, cnt)
  BY <1>1, <1>2, <1>4 DEF NoneLost
<1> QED BY <1>2, <1>4, <1>5, <1>6, <1>7, <1>8, <1>9 DEF BlocksShape
-----------------------------------------------------------------------------
IsUsed(d, f) == d.file[f].name # Unused

(* A File is the root or lies in a directory block, behind Files only; a    *)
(* directory has at most one block behind its direct ones.                  *)
Placed(d) ==
  \A f \in Place : IsUsed(d, f) => f = ROOT \/ (f[1] \in FIRST .. d.nextbno - 1 /\ d.type[f[1]] = BLOCK_FILE)
Directories(d, cnt) ==
  \A f \in Place : IsUsed(d, f) /\ d.file[f].kind = "DIR" => d.file[f].size = cnt[f] /\ cnt[f] <= NDIRECT + 1
FromFront(d) ==
  \A f \in Place : IsUsed(d, f) => \A k \in 0 .. f[2] : IsUsed(d, <<f[1], k>>)
NamesDiffer(d) ==
  \A f, g \in Place : IsUsed(d, f) /\ d.file[f].name = d.file[g].name => f = g

FilesShape(d, cnt) ==
  /\ d.file[ROOT].name = 0 /\ d.file[ROOT].kind = "DIR"
  /\ \A f \in Place : ~IsUsed(d, f) => cnt[f] = 0
  /\ Placed(d) /\ Directories(d, cnt) /\ FromFront(d) /\ NamesDiffer(d)

(* The blocks in front of the first and behind the last one handed out. *)
TypesShape(d) ==
  /\ d.type[0] = BLOCK_BOOT /\ d.type[1] = BLOCK_SUPER
  /\ \A b \in 2 .. FIRST - 1 : d.type[b] = BLOCK_BMAP
  /\ \A b \in Block : b >= d.nextbno => d.type[b] = BLOCK_FREE

(* h was written as the File at f, into the directory at g. *)
OnDisk(d, cnt, h, f, g) ==
  /\ IsUsed(d, f) /\ d.file[f].name = h.name /\ d.file[f].kind = h.kind
  /\ IsUsed(d, g) /\ d.file[g].name = h.dir /\ d.file[g].kind = "DIR"
  /\ \E n \in 0 .. cnt[g] - 1 : f[1] = NthBlock(d, g, n)
  /\ h.kind = "REG" => /\ d.file[f].size = h.size
                       /\ \A n \in 0 .. cnt[f] - 1 : d.data[NthBlock(d, f, n)] = <<h.name, n>>

HostShape(d, cnt, hs) ==
  /\ IsFiniteSet(hs)
  /\ \A h \in hs : h.name \in 1 .. Cardinality(hs) /\ \E f, g \in Place : OnDisk(d, cnt, h, f, g)
  /\ \A f \in Place : IsUsed(d, f) => d.file[f].name \in 0 .. Cardinality(hs)

DiskShape(d, cnt, hs) ==
  BlocksShape(d, cnt) /\ FilesShape(d, cnt) /\ TypesShape(d) /\ HostShape(d, cnt, hs) /\ d.nextbno <= NBLOCK

DirsShape ==
  /\ dirs \in Seq(Place) /\ dirs # <<>>
  /\ \A n \in 1 .. Len(dirs) : IsUsed(disk, dirs[n]) /\ disk.file[dirs[n]].kind = "DIR"

ReadShape ==
  fspc = "read" =>
    /\ target \in Place /\ IsUsed(disk, target) /\ disk.file[target].kind = "REG"
    /\ iblk \in Nat /\ iblk < disk.file[target].size

FsInv ==
  fspc \in {"tree", "read", "done"} => DiskShape(disk, Counts, host) /\ DirsShape /\ ReadShape

(* From d to e blocks were handed out: Files keep their names, kinds and    *)
(* blocks, and the new blocks of a file hold what was read.                 *)
Grown(d, cnt, e, more) ==
  /\ BlocksShape(e, more)
  /\ e.nextbno >= d.nextbno
  /\ \A c \in Block : /\ c < d.nextbno => e.type[c] = d.type[c] /\ e.data[c] = d.data[c]
                      /\ c >= e.nextbno => e.type[c] = d.type[c]
  /\ \A f \in Place : /\ e.file[f].name = d.file[f].name /\ e.file[f].kind = d.file[f].kind
                      /\ more[f] >= cnt[f] /\ (~IsUsed(d, f) => more[f] = cnt[f])
                      /\ \A n \in 0 .. cnt[f] - 1 : NthBlock(e, f, n) = NthBlock(d, f, n)
  /\ \A f \in Place : IsUsed(d, f) /\ d.file[f].kind = "DIR" => e.file[f].size = more[f] /\ more[f] <= NDIRECT + 1
  /\ \A f \in Place : IsUsed(d, f) /\ d.file[f].kind = "REG" =>
       /\ e.file[f].size = d.file[f].size
       /\ \A n \in cnt[f] .. more[f] - 1 : e.data[NthBlock(e, f, n)] = <<d.file[f].name, n>>

(* A block more for a File keeps the Files and the types of blocks right.   *)
LEMMA GrownFiles ==
  ASSUME NEW d, NEW cnt, BlocksShape(d, cnt), FilesShape(d, cnt), TypesShape(d), d.nextbno <= NBLOCK,
         NEW e, NEW more, Grown(d, cnt, e, more)
  PROVE  FilesShape(e, more) /\ TypesShape(e)
<1>0. FIRST \in Nat /\ FIRST >= 3 /\ NBLOCK \in Nat /\ \A c \in Block : c \in Nat
  BY FsNumbers DEF Block
<1>1. d.nextbno \in Nat /\ d.nextbno >= FIRST /\ e.nextbno \in Nat /\ e.nextbno >= d.nextbno
  BY DiskParts DEF BlocksShape, Grown
<1>2. /\ \A c \in Block : c < d.nextbno => e.type[c] = d.type[c]
      /\ \A c \in Block : c >= e.nextbno => e.type[c] = d.type[c]
      /\ \A f \in Place : e.file[f].name = d.file[f].name /\ e.file[f].kind = d.file[f].kind
      /\ \A f \in Place : ~IsUsed(d, f) => more[f] = cnt[f]
      /\ \A f \in Place : IsUsed(d, f) /\ d.file[f].kind = "DIR" => e.file[f].size = more[f] /\ more[f] <= NDIRECT + 1
  BY DEF Grown
<1>3. \A f \in Place : IsUsed(e, f) <=> IsUsed(d, f)
  BY <1>2 DEF IsUsed
<1>4. /\ d.file[ROOT].name = 0 /\ d.file[ROOT].kind = "DIR"
      /\ \A f \in Place : ~IsUsed(d, f) => cnt[f] = 0
      /\ Placed(d) /\ FromFront(d) /\ NamesDiffer(d)
  BY DEF FilesShape
<1>5. e.file[ROOT].name = 0 /\ e.file[ROOT].kind = "DIR"
  BY <1>2, <1>4, PlaceParts
<1>6. \A f \in Place : ~IsUsed(e, f) => more[f] = 0
  BY <1>2, <1>3, <1>4
<1>7. Placed(e)
  <2>1. ASSUME NEW f \in Place, IsUsed(e, f), f # ROOT
        PROVE  f[1] \in FIRST .. e.nextbno - 1 /\ e.type[f[1]] = BLOCK_FILE
    <3>1. f[1] \in FIRST .. d.nextbno - 1 /\ d.type[f[1]] = BLOCK_FILE
      BY <2>1, <1>3, <1>4 DEF Placed
    <3>2. f[1] \in Block /\ f[1] < d.nextbno
      BY <3>1, <1>0, <1>1, PlaceParts
    <3>3. FIRST .. d.nextbno - 1 \subseteq FIRST .. e.nextbno - 1
      BY <1>0, <1>1
    <3> QED BY <3>1, <3>2, <3>3, <1>2
  <2> QED BY <2>1 DEF Placed
<1>8. Directories(e, more)
  BY <1>2, <1>3 DEF Directories
<1>9. FromFront(e)
  <2>1. ASSUME NEW f \in Place, IsUsed(e, f), NEW k \in 0 .. f[2]
        PROVE  IsUsed(e, <<f[1], k>>)
    <3>1. IsUsed(d, <<f[1], k>>)
      BY <2>1, <1>3, <1>4 DEF FromFront
    <3>2. f[1] \in Block /\ k \in 0 .. FILE2BLK - 1
      BY PlaceParts, FsNumbers
    <3>3. <<f[1], k>> \in Place
      BY <3>2, PlaceParts
    <3> QED BY <3>1, <3>3, <1>3
  <2> QED BY <2>1 DEF FromFront
<1>10. NamesDiffer(e)
  BY <1>2, <1>3, <1>4 DEF NamesDiffer
<1>11. TypesShape(e)
  <2>1. /\ d.type[0] = BLOCK_BOOT /\ d.type[1] = BLOCK_SUPER
        /\ \A b \in 2 .. FIRST - 1 : d.type[b] = BLOCK_BMAP
        /\ \A b \in Block : b >= d.nextbno => d.type[b] = BLOCK_FREE
    BY DEF TypesShape
  <2>2. \A c \in 0 .. FIRST - 1 : c \in Block /\ c < d.nextbno
    BY <1>0, <1>1, FsNumbers DEF Block
  <2>3. \A c \in 0 .. FIRST - 1 : e.type[c] = d.type[c]
    BY <2>2, <1>2
  <2>4. 0 \in 0 .. FIRST - 1 /\ 1 \in 0 .. FIRST - 1 /\ 2 .. FIRST - 1 \subseteq 0 .. FIRST - 1
    BY <1>0
  <2>5. \A b \in Block : b >= e.nextbno => b >= d.nextbno
    BY <1>0, <1>1
  <2>6. \A b \in Block : b >= e.nextbno => e.type[b] = BLOCK_FREE
    BY <2>1, <2>5, <1>2
  <2> QED BY <2>1, <2>3, <2>4, <2>6 DEF TypesShape
<1> QED BY <1>5, <1>6, <1>7, <1>8, <1>9, <1>10, <1>11 DEF FilesShape

(* A block more for a File keeps what was written before on the disk.       *)
LEMMA GrownHost ==
  ASSUME NEW d, NEW cnt, NEW hs, BlocksShape(d, cnt), HostShape(d, cnt, hs), d.nextbno <= NBLOCK,
         NEW e, NEW more, Grown(d, cnt, e, more)
  PROVE  HostShape(e, more, hs)
<1>0. FIRST \in Nat /\ FIRST >= 3 /\ NBLOCK \in Nat
  BY FsNumbers
<1>1. /\ d.nextbno \in Nat /\ d.nextbno >= FIRST /\ PointersRight(d, cnt)
      /\ cnt \in [Place -> 0 .. NINDIRECT] /\ more \in [Place -> 0 .. NINDIRECT] /\ NINDIRECT \in Nat
  BY DiskParts, FsNumbers DEF BlocksShape, Grown
<1>2. /\ \A c \in Block : c < d.nextbno => e.data[c] = d.data[c]
      /\ \A f \in Place : /\ e.file[f].name = d.file[f].name /\ e.file[f].kind = d.file[f].kind
                          /\ more[f] >= cnt[f]
                          /\ \A n \in 0 .. cnt[f] - 1 : NthBlock(e, f, n) = NthBlock(d, f, n)
      /\ \A f \in Place : IsUsed(d, f) /\ d.file[f].kind = "REG" =>
           /\ e.file[f].size = d.file[f].size
           /\ \A n \in cnt[f] .. more[f] - 1 : e.data[NthBlock(e, f, n)] = <<d.file[f].name, n>>
  BY DEF Grown
<1>3. \A f \in Place : IsUsed(e, f) <=> IsUsed(d, f)
  BY <1>2 DEF IsUsed
<1>4. ASSUME NEW h \in hs, NEW f \in Place, NEW g \in Place, OnDisk(d, cnt, h, f, g)
      PROVE  OnDisk(e, more, h, f, g)
  <2>1. /\ IsUsed(e, f) /\ e.file[f].name = h.name /\ e.file[f].kind = h.kind
        /\ IsUsed(e, g) /\ e.file[g].name = h.dir /\ e.file[g].kind = "DIR"
    BY <1>2, <1>3, <1>4 DEF OnDisk
  <2>2. \E n \in 0 .. more[g] - 1 : f[1] = NthBlock(e, g, n)
    <3>1. PICK n \in 0 .. cnt[g] - 1 : f[1] = NthBlock(d, g, n)
      BY <1>4 DEF OnDisk
    <3>2. n \in 0 .. more[g] - 1
      <4>1. cnt[g] \in Nat /\ more[g] \in Nat /\ more[g] >= cnt[g]
        BY <1>1, <1>2
      <4> QED BY <4>1
    <3> QED BY <3>1, <3>2, <1>2
  <2>3. ASSUME h.kind = "REG"
        PROVE  /\ e.file[f].size = h.size
               /\ \A n \in 0 .. more[f] - 1 : e.data[NthBlock(e, f, n)] = <<h.name, n>>
    <3>1. IsUsed(d, f) /\ d.file[f].kind = "REG" /\ d.file[f].name = h.name /\ d.file[f].size = h.size
      BY <1>4, <2>3 DEF OnDisk
    <3>2. \A n \in 0 .. cnt[f] - 1 : d.data[NthBlock(d, f, n)] = <<h.name, n>>
      BY <1>4, <2>3 DEF OnDisk
    <3>3. ASSUME NEW n \in 0 .. more[f] - 1
          PROVE  e.data[NthBlock(e, f, n)] = <<h.name, n>>
      <4>1. CASE n \in cnt[f] .. more[f] - 1
        BY <3>1, <4>1, <1>2
      <4>2. CASE n \in 0 .. cnt[f] - 1
        <5>1. NthBlock(d, f, n) \in FIRST .. d.nextbno - 1
          BY <4>2, <1>1 DEF PointersRight
        <5>2. NthBlock(d, f, n) \in Block /\ NthBlock(d, f, n) < d.nextbno
          BY <5>1, <1>0, <1>1 DEF Block
        <5> QED BY <3>2, <4>2, <5>2, <1>2
      <4>3. cnt[f] \in Nat /\ more[f] \in Nat
        BY <1>1
      <4> QED BY <4>1, <4>2, <4>3
    <3> QED BY <3>1, <3>3, <1>2
  <2> QED BY <2>1, <2>2, <2>3 DEF OnDisk
<1>5. \A h \in hs : h.name \in 1 .. Cardinality(hs) /\ \E f, g \in Place : OnDisk(e, more, h, f, g)
  BY <1>4 DEF HostShape
<1>6. \A f \in Place : IsUsed(e, f) => e.file[f].name \in 0 .. Cardinality(hs)
  BY <1>2, <1>3 DEF HostShape
<1> QED BY <1>5, <1>6 DEF HostShape

(* A place takes a name: f, in the block n of the directory at g, behind    *)
(* Files only.                                                              *)
LEMMA NamedFiles ==
  ASSUME NEW d, NEW cnt, BlocksShape(d, cnt), FilesShape(d, cnt), TypesShape(d), NEW hs, HostShape(d, cnt, hs),
         NEW f \in Place, ~IsUsed(d, f), NEW e, Redone(d, e, f), e.file[f].name = 1 + Cardinality(hs),
         e.file[f].kind = "DIR" => e.file[f].size = 0,
         f[1] \in FIRST .. d.nextbno - 1, d.type[f[1]] = BLOCK_FILE,
         \A k \in 0 .. f[2] - 1 : IsUsed(d, <<f[1], k>>)
  PROVE  BlocksShape(e, cnt) /\ FilesShape(e, cnt) /\ TypesShape(e)
<1>0. Cardinality(hs) \in Nat /\ Unused = -1
  BY FS_CardinalityType DEF HostShape, Unused
<1>1. /\ d.file[ROOT].name = 0 /\ d.file[ROOT].kind = "DIR"
      /\ \A g \in Place : ~IsUsed(d, g) => cnt[g] = 0
      /\ Placed(d) /\ Directories(d, cnt) /\ FromFront(d) /\ NamesDiffer(d)
  BY DEF FilesShape
<1>2. /\ \A g \in Place : g # f => e.file[g] = d.file[g]
      /\ e.type = d.type /\ e.nextbno = d.nextbno
  BY DEF Redone
<1>3. f # ROOT /\ ROOT \in Place
  BY <1>0, <1>1, PlaceParts DEF IsUsed
<1>4. IsUsed(e, f) /\ \A g \in Place : g # f => (IsUsed(e, g) <=> IsUsed(d, g))
  BY <1>0, <1>2 DEF IsUsed
<1>5. cnt[f] = 0
  BY <1>1
<1>6. BlocksShape(e, cnt)
  BY <1>5, RedoneShape
<1>7. TypesShape(e)
  BY <1>2 DEF TypesShape
<1>8. e.file[ROOT].name = 0 /\ e.file[ROOT].kind = "DIR" /\ \A g \in Place : ~IsUsed(e, g) => cnt[g] = 0
  BY <1>1, <1>2, <1>3, <1>4
<1>9. Placed(e)
  BY <1>1, <1>2, <1>4 DEF Placed
<1>10. Directories(e, cnt)
  <2>1. 0 <= NDIRECT + 1
    BY FsNumbers
  <2>2. ASSUME NEW g \in Place, IsUsed(e, g), e.file[g].kind = "DIR"
        PROVE  e.file[g].size = cnt[g] /\ cnt[g] <= NDIRECT + 1
    <3>1. CASE g = f
      BY <3>1, <2>1, <2>2, <1>5
    <3>2. CASE g # f
      BY <3>2, <2>2, <1>1, <1>2, <1>4 DEF Directories
    <3> QED BY <3>1, <3>2
  <2> QED BY <2>2 DEF Directories
<1>11. FromFront(e)
  <2>1. ASSUME NEW g \in Place, IsUsed(e, g), NEW k \in 0 .. g[2]
        PROVE  IsUsed(e, <<g[1], k>>)
    <3>1. g[1] \in Block /\ g[2] \in 0 .. FILE2BLK - 1 /\ g = <<g[1], g[2]>> /\ k \in 0 .. FILE2BLK - 1
      BY PlaceParts, FsNumbers
    <3>2. <<g[1], k>> \in Place
      BY <3>1, PlaceParts
    <3>3. CASE <<g[1], k>> = f
      BY <3>3, <1>4
    <3>4. CASE <<g[1], k>> # f /\ g # f
      BY <3>2, <3>4, <2>1, <1>1, <1>4 DEF FromFront
    <3>5. CASE <<g[1], k>> # f /\ g = f
      <4>1. k # f[2]
        BY <3>1, <3>5
      <4>2. k \in 0 .. f[2] - 1
        BY <4>1, <3>1, <3>5, <2>1, FsNumbers
      <4> QED BY <4>2, <3>2, <3>5, <1>4
    <3> QED BY <3>3, <3>4, <3>5
  <2> QED BY <2>1 DEF FromFront
<1>12. NamesDiffer(e)
  <2>1. \A g \in Place : g # f /\ IsUsed(e, g) => e.file[g].name \in 0 .. Cardinality(hs)
    BY <1>2, <1>4 DEF HostShape
  <2>2. \A g \in Place : g # f => e.file[g].name # e.file[f].name
    <3> TAKE g \in Place
    <3>1. CASE IsUsed(e, g)
      BY <3>1, <2>1, <1>0
    <3>2. CASE ~IsUsed(e, g)
      BY <3>2, <1>0 DEF IsUsed
    <3> QED BY <3>1, <3>2
  <2> QED BY <2>2, <1>1, <1>2, <1>4 DEF NamesDiffer
<1> QED BY <1>6, <1>7, <1>8, <1>9, <1>10, <1>11, <1>12 DEF FilesShape

(* A File that is given a name and is in a directory block joins the rest.  *)
LEMMA NamedHost ==
  ASSUME NEW d, NEW cnt, FilesShape(d, cnt), NEW hs, HostShape(d, cnt, hs),
         NEW f \in Place, ~IsUsed(d, f), NEW e, Redone(d, e, f), e.file[f].name = 1 + Cardinality(hs),
         NEW g \in Place, IsUsed(d, g), d.file[g].kind = "DIR",
         NEW n \in 0 .. cnt[g] - 1, f[1] = NthBlock(d, g, n),
         NEW h, h.name = 1 + Cardinality(hs), h.dir = d.file[g].name, h.kind = e.file[f].kind, h.size = e.file[f].size
  PROVE  HostShape(e, cnt, hs \cup {h})
<1>0. IsFiniteSet(hs) /\ Cardinality(hs) \in Nat /\ Unused = -1
  BY FS_CardinalityType DEF HostShape, Unused
<1>1. h \notin hs
  BY <1>0 DEF HostShape
<1>2. IsFiniteSet(hs \cup {h}) /\ Cardinality(hs \cup {h}) = Cardinality(hs) + 1
  BY <1>0, <1>1, FS_AddElement
<1>3. \A b \in Place : b # f => e.file[b] = d.file[b]
  BY DEF Redone
<1>4. \A b \in Place : \A m : NthBlock(e, b, m) = NthBlock(d, b, m)
  BY RedonePointers
<1>5. e.data = d.data
  BY DEF Redone
<1>6. IsUsed(e, f) /\ \A b \in Place : b # f => (IsUsed(e, b) <=> IsUsed(d, b))
  BY <1>0, <1>3 DEF IsUsed
<1>7. cnt[f] = 0 /\ g # f
  BY DEF FilesShape
<1>8. ASSUME NEW o \in hs PROVE o.name \in 1 .. Cardinality(hs) /\ \E a, b \in Place : OnDisk(e, cnt, o, a, b)
  <2>1. PICK a \in Place, b \in Place : OnDisk(d, cnt, o, a, b)
    BY DEF HostShape
  <2>2. a # f /\ b # f
    BY <2>1 DEF OnDisk
  <2>3. OnDisk(e, cnt, o, a, b)
    BY <2>1, <2>2, <1>3, <1>4, <1>5, <1>6 DEF OnDisk
  <2> QED BY <2>3 DEF HostShape
<1>9. OnDisk(e, cnt, h, f, g)
  <2>1. IsUsed(e, g) /\ e.file[g].name = h.dir /\ e.file[g].kind = "DIR"
    BY <1>3, <1>6, <1>7
  <2>2. 0 .. cnt[f] - 1 = {}
    BY <1>7
  <2>3. \E m \in 0 .. cnt[g] - 1 : f[1] = NthBlock(e, g, m)
    BY <1>4
  <2> QED BY <2>1, <2>2, <2>3, <1>6 DEF OnDisk
<1>10. \A o \in hs \cup {h} : o.name \in 1 .. Cardinality(hs) + 1 /\ \E a, b \in Place : OnDisk(e, cnt, o, a, b)
  <2>1. 1 .. Cardinality(hs) \subseteq 1 .. Cardinality(hs) + 1 /\ 1 + Cardinality(hs) \in 1 .. Cardinality(hs) + 1
    BY <1>0
  <2> QED BY <2>1, <1>8, <1>9
<1>11. \A b \in Place : IsUsed(e, b) => e.file[b].name \in 0 .. Cardinality(hs) + 1
  <2>1. 0 .. Cardinality(hs) \subseteq 0 .. Cardinality(hs) + 1 /\ 1 + Cardinality(hs) \in 0 .. Cardinality(hs) + 1
    BY <1>0
  <2> QED BY <2>1, <1>3, <1>6 DEF HostShape
<1> QED BY <1>2, <1>10, <1>11 DEF HostShape
-----------------------------------------------------------------------------
(* A File with another size, and one with another name, kind and size.      *)
LEMMA Resized ==
  ASSUME NEW d \in Disk, NEW f \in Place, NEW e, e = [d EXCEPT !.file[f].size = @ + 1]
  PROVE  /\ Redone(d, e, f) /\ e.file[f].name = d.file[f].name /\ e.file[f].kind = d.file[f].kind
         /\ e.file[f].size = d.file[f].size + 1
<1>1. d.file \in [Place -> FileRec] /\ d.file[f] \in FileRec /\ d.file[f].size \in Int
  BY DiskParts
<1>2. PICK s : s = d.file[f].size + 1
  OBVIOUS
<1>3. s \in Int
  BY <1>1, <1>2
<1>4. PICK r : r = [d.file[f] EXCEPT !.size = s]
  OBVIOUS
<1>5. /\ r \in FileRec /\ r.size = s /\ r.name = d.file[f].name /\ r.kind = d.file[f].kind
      /\ r.direct = d.file[f].direct /\ r.indirect = d.file[f].indirect
  BY <1>1, <1>3, <1>4 DEF FileRec
<1>6. PICK fl : fl = [d.file EXCEPT ![f] = r]
  OBVIOUS
<1>7. fl \in [Place -> FileRec] /\ fl[f] = r /\ \A g \in Place : g # f => fl[g] = d.file[g]
  BY <1>1, <1>5, <1>6
<1>8. e = [d EXCEPT !.file = fl]
  BY <1>2, <1>4, <1>6
<1>9. /\ e \in Disk /\ e.file = fl /\ e.type = d.type /\ e.link = d.link
      /\ e.data = d.data /\ e.nextbno = d.nextbno
  BY ONLY <1>8, <1>7, d \in Disk DEF Disk
<1> QED BY <1>2, <1>5, <1>7, <1>9 DEF Redone

WithName(d, f, nm, kd, sz) == [d EXCEPT !.file[f] = [@ EXCEPT !.name = nm, !.kind = kd, !.size = sz]]

(* What WithName does to the disk.                                          *)
LEMMA Renamed ==
  ASSUME NEW d \in Disk, NEW f \in Place, NEW nm \in Int, NEW kd \in {"REG", "DIR"}, NEW sz \in Int,
         NEW e, e = WithName(d, f, nm, kd, sz)
  PROVE  Redone(d, e, f) /\ e.file[f].name = nm /\ e.file[f].kind = kd /\ e.file[f].size = sz
<1>1. d.file \in [Place -> FileRec] /\ d.file[f] \in FileRec
  BY DiskParts
<1>2. PICK r : r = [d.file[f] EXCEPT !.name = nm, !.kind = kd, !.size = sz]
  OBVIOUS
<1>3. /\ r \in FileRec /\ r.size = sz /\ r.name = nm /\ r.kind = kd
      /\ r.direct = d.file[f].direct /\ r.indirect = d.file[f].indirect
  BY <1>1, <1>2 DEF FileRec
<1>4. PICK fl : fl = [d.file EXCEPT ![f] = r]
  OBVIOUS
<1>5. fl \in [Place -> FileRec] /\ fl[f] = r /\ \A g \in Place : g # f => fl[g] = d.file[g]
  BY <1>1, <1>3, <1>4
<1>6. e = [d EXCEPT !.file = fl]
  BY <1>2, <1>4 DEF WithName
<1>7. /\ e \in Disk /\ e.file = fl /\ e.type = d.type /\ e.link = d.link
      /\ e.data = d.data /\ e.nextbno = d.nextbno
  BY ONLY <1>6, <1>5, d \in Disk DEF Disk
<1> QED BY <1>3, <1>5, <1>7 DEF Redone

(* Pairs of numbers have a first one.                                       *)
LEMMA FirstPair ==
  ASSUME NEW v, v \subseteq Nat \X Nat, v # {}
  PROVE  \E x \in v : \A y \in v : x[1] < y[1] \/ (x[1] = y[1] /\ x[2] <= y[2])
<1> DEFINE A == {x[1] : x \in v}
<1>0. \A x \in v : x[1] \in Nat /\ x[2] \in Nat
  OBVIOUS
<1>1. A \subseteq Nat /\ A # {}
  BY <1>0
<1>2. PICK a \in A : \A k \in A : a <= k
  <2> HIDE DEF A
  <2> QED BY <1>1, Least
<1> DEFINE B == {x[2] : x \in {y \in v : y[1] = a}}
<1>3. B \subseteq Nat /\ B # {}
  BY <1>0
<1>4. PICK b \in B : \A k \in B : b <= k
  <2> HIDE DEF B
  <2> QED BY <1>3, Least
<1>5. PICK x \in v : x[1] = a /\ x[2] = b
  BY <1>4
<1>6. ASSUME NEW y \in v PROVE x[1] < y[1] \/ (x[1] = y[1] /\ x[2] <= y[2])
  <2>1. y[1] \in A /\ a <= y[1] /\ a \in Nat /\ y[1] \in Nat
    BY <1>0, <1>1, <1>2
  <2>2. CASE y[1] = a
    <3>1. y[2] \in B
      BY <2>2
    <3>2. b <= y[2]
      <4> HIDE DEF B
      <4> QED BY <3>1, <1>4
    <3> QED BY <2>2, <3>2, <1>5
  <2>3. CASE y[1] # a
    <3> HIDE DEF A
    <3> QED BY <2>1, <2>3, <1>5
  <2> QED BY <2>2, <2>3
<1> QED BY <1>6

(* The place create_file returns: not used, behind Files only, in a block   *)
(* of the directory at g.                                                   *)
Opening(e, more, g, f) ==
  /\ f \in Place /\ ~IsUsed(e, f)
  /\ \A k \in 0 .. f[2] - 1 : IsUsed(e, <<f[1], k>>)
  /\ \E n \in 0 .. more[g] - 1 : f[1] = NthBlock(e, g, n)

(* Only the directory has grown. *)
Local(d, cnt, e, more, g) ==
  \A f \in Place : f # g => e.file[f].size = d.file[f].size /\ more[f] = cnt[f]

(* An index block has no Files, since what create_file returns inside one   *)
(* is where the model ends.                                                 *)
LEMMA IndexEmpty ==
  ASSUME NEW d, NEW cnt, BlocksShape(d, cnt), FilesShape(d, cnt), d.nextbno <= NBLOCK,
         NEW g \in Place, Index(d, g) # 0
  PROVE  /\ Index(d, g) \in Block /\ d.type[Index(d, g)] = BLOCK_INDEX
         /\ \A k \in 0 .. FILE2BLK - 1 : ~IsUsed(d, <<Index(d, g), k>>)
<1>0. FIRST \in Nat /\ FIRST >= 3 /\ NBLOCK \in Nat /\ d.nextbno \in Nat
  BY FsNumbers, DiskParts DEF BlocksShape
<1>1. Index(d, g) \in FIRST .. d.nextbno - 1 /\ d.type[Index(d, g)] = BLOCK_INDEX
  BY DEF BlocksShape, IndexesRight
<1>2. Index(d, g) \in Block /\ Index(d, g) # 1
  BY <1>0, <1>1 DEF Block
<1>3. ASSUME NEW k \in 0 .. FILE2BLK - 1, IsUsed(d, <<Index(d, g), k>>) PROVE FALSE
  <2>1. PICK f \in Place : f = <<Index(d, g), k>>
    BY <1>2, PlaceParts
  <2>2. f[1] = Index(d, g)
    BY <2>1
  <2>3. f # ROOT
    BY <2>2, <1>2, PlaceParts
  <2>4. d.type[f[1]] = BLOCK_FILE
    BY <2>1, <2>3, <1>3 DEF FilesShape, Placed
  <2> QED BY <2>2, <2>4, <1>1 DEF BLOCK_FILE, BLOCK_INDEX
<1> QED BY <1>1, <1>2, <1>3

(* A directory without a vacancy takes a new block.                         *)
LEMMA LinkBlock ==
  ASSUME NEW d, NEW cnt, BlocksShape(d, cnt), FilesShape(d, cnt), TypesShape(d), d.nextbno <= NBLOCK,
         NEW g \in Place, IsUsed(d, g), d.file[g].kind = "DIR", cnt[g] <= NDIRECT,
         NEW e, e = make_link_block(d, g, d.file[g].size)
  PROVE  \E more : /\ Grown(d, cnt, e, more) /\ Local(d, cnt, e, more, g)
                   /\ Opening(e, more, g, <<d.nextbno, 0>>)
<1>0. /\ NDIRECT \in Nat /\ NINDIRECT \in Nat /\ NDIRECT < NINDIRECT /\ NBLOCK \in Nat
      /\ FIRST \in Nat /\ FIRST >= 3 /\ FILE2BLK \in Nat /\ FILE2BLK >= 1
  BY FsNumbers
<1>1. d \in Disk /\ cnt \in [Place -> 0 .. NINDIRECT] /\ d.nextbno \in Nat /\ d.nextbno >= FIRST
  BY DiskParts DEF BlocksShape
<1>2. PICK b : b = d.nextbno
  OBVIOUS
<1>3. b \in Block /\ b \in Nat
  BY <1>0, <1>1, <1>2 DEF Block
<1>4. d.file[g].size = cnt[g] /\ cnt[g] \in Nat /\ cnt[g] < NINDIRECT
  BY <1>0, <1>1 DEF FilesShape, Directories
<1>5. PICK nx : nx = next_block(d, BLOCK_FILE)
  OBVIOUS
<1>6. /\ nx \in Disk /\ nx.nextbno = d.nextbno + 1
      /\ nx.file = d.file /\ nx.link = d.link /\ nx.data = d.data
      /\ \A c \in Block : nx.type[c] = IF c = d.nextbno THEN BLOCK_FILE ELSE d.type[c]
  BY <1>1, <1>2, <1>3, <1>5, NextBlock DEF BLOCK_FILE
<1>7. PICK sv : sv = save_block_link(nx, g, cnt[g], d.nextbno)
  OBVIOUS
<1>8. Took(d, sv, cnt, g, BLOCK_FILE) /\ sv.data = d.data
  <2>1. BLOCK_FILE \in Nat
    BY DEF BLOCK_FILE
  <2> QED BY <2>1, <1>4, <1>6, <1>7, TookBlock
<1>9. TypeFor(d, g) = BLOCK_FILE
  BY DEF TypeFor
<1>10. PICK more : more = [cnt EXCEPT ![g] = cnt[g] + 1]
  OBVIOUS
<1>11. /\ more \in [Place -> 0 .. NINDIRECT] /\ more[g] = cnt[g] + 1
       /\ \A f \in Place : f # g => more[f] = cnt[f]
  <2>1. cnt[g] + 1 \in 0 .. NINDIRECT
    BY <1>0, <1>4
  <2> QED BY <2>1, <1>1, <1>10
<1>12. BlocksShape(sv, more)
  BY <1>4, <1>8, <1>9, <1>11, TookShape
<1>13. e = [sv EXCEPT !.file[g].size = @ + 1]
  BY <1>4, <1>5, <1>7 DEF make_link_block
<1>14. /\ Redone(sv, e, g) /\ e.file[g].name = sv.file[g].name /\ e.file[g].kind = sv.file[g].kind
       /\ e.file[g].size = sv.file[g].size + 1
  <2>1. sv \in Disk
    BY <1>8 DEF Took
  <2> QED BY <2>1, <1>13, Resized, ZenonT(30)
<1>15. BlocksShape(e, more)
  BY <1>12, <1>14, RedoneShape
<1>16. /\ e.type = sv.type /\ e.data = d.data /\ e.nextbno = sv.nextbno
       /\ \A f \in Place : f # g => e.file[f] = sv.file[f]
       /\ \A f \in Place : \A m : NthBlock(e, f, m) = NthBlock(sv, f, m)
  <2>1. \A f \in Place : \A m : NthBlock(e, f, m) = NthBlock(sv, f, m)
    BY ONLY <1>14, g \in Place, RedonePointers
  <2>2. /\ e.type = sv.type /\ e.data = sv.data /\ e.nextbno = sv.nextbno
        /\ \A f \in Place : f # g => e.file[f] = sv.file[f]
    BY ONLY <1>14 DEF Redone
  <2> QED BY ONLY <1>8, <2>1, <2>2
<1>17. /\ sv.nextbno = IF Fresh(d, g, cnt[g]) THEN b + 2 ELSE b + 1
       /\ sv.type[b] = BLOCK_FILE
       /\ \A c \in Block : c < b \/ c >= sv.nextbno => sv.type[c] = d.type[c]
       /\ \A f \in Place : /\ sv.file[f].name = d.file[f].name /\ sv.file[f].kind = d.file[f].kind
                           /\ sv.file[f].size = d.file[f].size
       /\ NthBlock(sv, g, cnt[g]) = b
       /\ \A f \in Place : \A m \in 0 .. cnt[f] - 1 : NthBlock(sv, f, m) = NthBlock(d, f, m)
  BY <1>2, <1>8 DEF Took
<1>18. e.nextbno >= d.nextbno
  BY <1>1, <1>2, <1>16, <1>17
<1>19. \A f \in Place : e.file[f].name = d.file[f].name /\ e.file[f].kind = d.file[f].kind
  BY <1>14, <1>16, <1>17, ZenonT(30)
<1>20. e.file[g].size = more[g] /\ more[g] <= NDIRECT + 1
  BY <1>0, <1>4, <1>11, <1>14, <1>17
<1>21. \A f \in Place : f # g => e.file[f].size = d.file[f].size
  BY <1>16, <1>17
<1>22. Grown(d, cnt, e, more)
  <2>1. \A c \in Block : /\ c < d.nextbno => e.type[c] = d.type[c] /\ e.data[c] = d.data[c]
                         /\ c >= e.nextbno => e.type[c] = d.type[c]
    BY <1>2, <1>16, <1>17
  <2>2. \A f \in Place : /\ more[f] >= cnt[f] /\ (~IsUsed(d, f) => more[f] = cnt[f])
                         /\ \A n \in 0 .. cnt[f] - 1 : NthBlock(e, f, n) = NthBlock(d, f, n)
    <3> TAKE f \in Place
    <3>1. cnt[f] \in Nat
      BY <1>0, <1>1
    <3> QED BY <3>1, <1>11, <1>16, <1>17
  <2>3. \A f \in Place : IsUsed(d, f) /\ d.file[f].kind = "DIR" => e.file[f].size = more[f] /\ more[f] <= NDIRECT + 1
    BY <1>11, <1>20, <1>21 DEF FilesShape, Directories
  <2>4. ASSUME NEW f \in Place, d.file[f].kind = "REG"
        PROVE  /\ e.file[f].size = d.file[f].size
               /\ \A n \in cnt[f] .. more[f] - 1 : e.data[NthBlock(e, f, n)] = <<d.file[f].name, n>>
    <3>1. f # g
      BY <2>4
    <3>2. cnt[f] \in Nat /\ more[f] = cnt[f]
      BY <3>1, <1>0, <1>1, <1>11
    <3>3. cnt[f] .. more[f] - 1 = {}
      BY <3>2
    <3> QED BY <3>1, <3>3, <1>21
  <2> QED BY <2>1, <2>2, <2>3, <2>4, <1>15, <1>18, <1>19 DEF Grown
<1>23. Opening(e, more, g, <<d.nextbno, 0>>)
  <2>1. PICK f : f = <<b, 0>>
    OBVIOUS
  <2>2. f \in Place /\ f[1] = b /\ f[2] = 0
    <3>1. 0 \in 0 .. FILE2BLK - 1
      BY <1>0
    <3> QED BY <3>1, <2>1, <1>3, PlaceParts
  <2>3. ~IsUsed(e, f)
    <3>1. f # ROOT
      BY <2>2, <1>0, <1>1, <1>2, PlaceParts
    <3>2. ~(f[1] \in FIRST .. d.nextbno - 1)
      BY <2>2, <1>2, <1>1
    <3>3. ~IsUsed(d, f)
      BY <3>1, <3>2, <2>2 DEF FilesShape, Placed
    <3> QED BY <3>3, <2>2, <1>19 DEF IsUsed
  <2>4. 0 .. f[2] - 1 = {}
    BY <2>2
  <2>5. \E n \in 0 .. more[g] - 1 : f[1] = NthBlock(e, g, n)
    <3>1. cnt[g] \in 0 .. more[g] - 1
      BY <1>4, <1>11
    <3>2. NthBlock(e, g, cnt[g]) = b
      BY <1>16, <1>17
    <3> QED BY <3>1, <3>2, <2>2
  <2>6. Opening(e, more, g, f)
    BY <2>2, <2>3, <2>4, <2>5 DEF Opening
  <2> QED BY <2>1, <2>6, <1>2
<1>24. Local(d, cnt, e, more, g)
  BY <1>11, <1>21 DEF Local
<1> QED BY <1>22, <1>23, <1>24

(* create_file returns an opening of the directory, or a place inside an    *)
(* index block.                                                             *)
LEMMA CreateFile ==
  ASSUME NEW d, NEW cnt, BlocksShape(d, cnt), FilesShape(d, cnt), TypesShape(d), d.nextbno <= NBLOCK,
         NEW g \in Place, IsUsed(d, g), d.file[g].kind = "DIR",
         NEW made, made = create_file(d, g)
  PROVE  \/ made.disk.type[made.file[1]] = BLOCK_INDEX
         \/ \E more : /\ Grown(d, cnt, made.disk, more) /\ Local(d, cnt, made.disk, more, g)
                      /\ Opening(made.disk, more, g, made.file)
<1>0. /\ NDIRECT \in Nat /\ NINDIRECT \in Nat /\ NDIRECT < NINDIRECT /\ NBLOCK \in Nat
      /\ FIRST \in Nat /\ FIRST >= 3 /\ FILE2BLK \in Nat /\ FILE2BLK >= 1
  BY FsNumbers
<1>1. d \in Disk /\ cnt \in [Place -> 0 .. NINDIRECT] /\ d.nextbno \in Nat /\ d.nextbno >= FIRST
  BY DiskParts DEF BlocksShape
<1>2. d.file[g].size = cnt[g] /\ cnt[g] \in Nat /\ cnt[g] <= NDIRECT + 1
  BY <1>0, <1>1 DEF FilesShape, Directories
<1>3. PICK v : v = Vacant(d, g)
  OBVIOUS
<1>4. \A x : x \in v <=> /\ x \in (0 .. cnt[g] - 1) \X (0 .. FILE2BLK - 1)
                         /\ ~IsUsed(d, <<DirBlock(d, g, x[1]), x[2]>>)
  BY <1>2, <1>3 DEF Vacant, IsUsed
<1>5. cnt[g] = NDIRECT + 1 => Index(d, g) # 0
  BY <1>0, <1>2 DEF BlocksShape, IndexesRight
<1>6. DirBlock(d, g, NDIRECT) = Index(d, g)
  BY <1>0 DEF DirBlock, Index
<1>7. \A n \in 0 .. NDIRECT - 1 : DirBlock(d, g, n) = NthBlock(d, g, n)
  BY <1>0 DEF DirBlock, NthBlock
<1>8. CASE v = {}
  <2>1. cnt[g] <= NDIRECT
    <3> SUFFICES ASSUME cnt[g] = NDIRECT + 1 PROVE FALSE
      BY <1>0, <1>2
    <3>1. ~IsUsed(d, <<Index(d, g), 0>>)
      BY <1>0, <1>5, IndexEmpty
    <3>2. PICK x : x = <<NDIRECT, 0>>
      OBVIOUS
    <3>3. x \in (0 .. cnt[g] - 1) \X (0 .. FILE2BLK - 1) /\ x[1] = NDIRECT /\ x[2] = 0
      BY <3>2, <1>0
    <3>4. x \in v
      BY <3>1, <3>3, <1>4, <1>6
    <3> QED BY <3>4, <1>8
  <2>2. PICK e : e = make_link_block(d, g, d.file[g].size)
    OBVIOUS
  <2>3. made = [disk |-> e, file |-> <<d.nextbno, 0>>]
    BY <2>2, <1>3, <1>8 DEF create_file
  <2>4. made.disk = e /\ made.file = <<d.nextbno, 0>>
    BY <2>3
  <2> QED BY <2>1, <2>2, <2>4, LinkBlock
<1>9. CASE v # {}
  <2>1. PICK first : first = CHOOSE x \in v : \A y \in v : x[1] < y[1] \/ (x[1] = y[1] /\ x[2] <= y[2])
    OBVIOUS
  <2>2. v \subseteq Nat \X Nat
    <3>1. v \subseteq (0 .. cnt[g] - 1) \X (0 .. FILE2BLK - 1)
      BY <1>4
    <3>2. 0 .. cnt[g] - 1 \subseteq Nat /\ 0 .. FILE2BLK - 1 \subseteq Nat
      BY <1>0, <1>2
    <3> QED BY <3>1, <3>2
  <2>3. first \in v /\ \A y \in v : first[1] < y[1] \/ (first[1] = y[1] /\ first[2] <= y[2])
    <3>1. \E x \in v : \A y \in v : x[1] < y[1] \/ (x[1] = y[1] /\ x[2] <= y[2])
      BY <2>2, <1>9, FirstPair
    <3> QED BY <3>1, <2>1
  <2>4. made = [disk |-> d, file |-> <<DirBlock(d, g, first[1]), first[2]>>]
    BY <2>1, <1>3, <1>9 DEF create_file
  <2>5. PICK b, k : b = DirBlock(d, g, first[1]) /\ k = first[2]
    OBVIOUS
  <2>6. made.disk = d /\ made.file = <<b, k>>
    BY <2>4, <2>5
  <2>7. PICK n : n = first[1]
    OBVIOUS
  <2>8. /\ n \in 0 .. cnt[g] - 1 /\ k \in 0 .. FILE2BLK - 1 /\ ~IsUsed(d, <<b, k>>) /\ b = DirBlock(d, g, n)
        /\ n \in 0 .. NDIRECT
    BY <2>3, <2>5, <2>7, <1>0, <1>2, <1>4
  <2>9. CASE n = NDIRECT
    <3>1. cnt[g] = NDIRECT + 1
      BY <2>8, <2>9, <1>0, <1>2
    <3>2. b = Index(d, g)
      BY <2>8, <2>9, <1>6
    <3>3. d.type[b] = BLOCK_INDEX
      BY <3>1, <3>2, <1>5, IndexEmpty
    <3> QED BY <3>3, <2>6
  <2>10. CASE n # NDIRECT
    <3>1. n \in 0 .. NDIRECT - 1
      BY <2>8, <2>10, <1>0
    <3>2. b = NthBlock(d, g, n)
      BY <3>1, <2>8, <1>7
    <3>3. b \in FIRST .. d.nextbno - 1
      BY <3>2, <2>8 DEF BlocksShape, PointersRight
    <3>4. b \in Block
      BY <3>3, <1>0, <1>1 DEF Block
    <3>5. <<b, k>> \in Place /\ made.file[1] = b /\ made.file[2] = k
      BY <3>4, <2>6, <2>8, PlaceParts
    <3>6. ASSUME NEW j \in 0 .. k - 1, ~IsUsed(d, <<b, j>>) PROVE FALSE
      <4>1. j \in 0 .. FILE2BLK - 1 /\ j < k /\ j \in Nat /\ k \in Nat
        BY <2>8, <1>0
      <4>2. PICK x : x = <<n, j>>
        OBVIOUS
      <4>3. x \in (0 .. cnt[g] - 1) \X (0 .. FILE2BLK - 1) /\ x[1] = n /\ x[2] = j
        BY <4>1, <4>2, <2>8
      <4>4. x \in v
        BY <4>3, <3>6, <2>8, <1>4
      <4>5. n < n \/ k <= j
        BY <4>3, <4>4, <2>3, <2>5, <2>7
      <4> QED BY <4>1, <4>5, <2>8, <1>0
    <3>7. Opening(d, cnt, g, made.file)
      BY <3>2, <3>5, <3>6, <2>6, <2>8 DEF Opening
    <3>8. Grown(d, cnt, d, cnt)
      <4>1. \A f \in Place : IsUsed(d, f) /\ d.file[f].kind = "DIR" => d.file[f].size = cnt[f] /\ cnt[f] <= NDIRECT + 1
        BY DEF FilesShape, Directories
      <4>2. \A f \in Place : cnt[f] .. cnt[f] - 1 = {} /\ cnt[f] >= cnt[f]
        <5> TAKE f \in Place
        <5>1. cnt[f] \in Nat
          BY <1>0, <1>1
        <5> QED BY <5>1
      <4>3. d.nextbno >= d.nextbno
        BY <1>1
      <4> QED BY <4>1, <4>2, <4>3 DEF Grown
    <3>9. Local(d, cnt, d, cnt, g)
      BY DEF Local
    <3> QED BY <3>7, <3>8, <3>9, <2>6
  <2> QED BY <2>9, <2>10
<1> QED BY <1>8, <1>9
-----------------------------------------------------------------------------
LEMMA FsInitInv == FsInit => FsInv
<1> SUFFICES ASSUME FsInit PROVE FsInv
  OBVIOUS
<1> USE DEF FsInit, init_disk
<1>0. /\ NDIRECT \in Nat /\ NINDIRECT \in Nat /\ NBLOCK \in Nat /\ nbitblock \in Nat
      /\ FIRST \in Nat /\ FIRST >= 3 /\ FIRST <= NBLOCK /\ FIRST = 2 + nbitblock /\ NINDIRECT > 0
      /\ NDIRECT < NINDIRECT
  BY FsNumbers DEF FIRST
<1>1. PICK none : none = NoFile
  OBVIOUS
<1>2. /\ none \in FileRec /\ none.name = -1 /\ none.kind = "REG" /\ none.size = 0 /\ none.indirect = 0
  <2>1. PICK dr : dr = [n \in 0 .. NDIRECT - 1 |-> 0]
    OBVIOUS
  <2>2. dr \in [0 .. NDIRECT - 1 -> Nat]
    BY <2>1
  <2>3. none = [name |-> -1, kind |-> "REG", size |-> 0, direct |-> dr, indirect |-> 0]
    BY ONLY <1>1, <2>1 DEF NoFile, Unused
  <2> QED BY ONLY <2>2, <2>3 DEF FileRec
<1>3. PICK root : root = [none EXCEPT !.name = 0, !.kind = "DIR"]
  OBVIOUS
<1>4. root \in FileRec /\ root.name = 0 /\ root.kind = "DIR" /\ root.size = 0 /\ root.indirect = 0
  BY ONLY <1>2, <1>3 DEF FileRec
<1>5. /\ disk.type = [b \in Block |-> CASE b = 0 -> BLOCK_BOOT
                                         [] b = 1 -> BLOCK_SUPER
                                         [] b \in 2 .. 1 + nbitblock -> BLOCK_BMAP
                                         [] OTHER -> BLOCK_FREE]
      /\ disk.file = [f \in Place |-> IF f = ROOT THEN root ELSE none]
      /\ disk.link = [b \in Block |-> [n \in 0 .. NINDIRECT - 1 |-> 0]]
      /\ disk.data = [b \in Block |-> <<Unused, 0>>]
      /\ disk.nextbno = FIRST
  BY <1>1, <1>3 DEF FIRST
<1>6. \A f \in Place : disk.file[f] = IF f = ROOT THEN root ELSE none
  BY <1>5
<1>7. \A b \in Block : disk.type[b] = CASE b = 0 -> BLOCK_BOOT
                                         [] b = 1 -> BLOCK_SUPER
                                         [] b \in 2 .. 1 + nbitblock -> BLOCK_BMAP
                                         [] OTHER -> BLOCK_FREE
  BY <1>5
<1>8. /\ disk.type[0] = BLOCK_BOOT /\ disk.type[1] = BLOCK_SUPER
      /\ \A b \in 2 .. FIRST - 1 : disk.type[b] = BLOCK_BMAP
      /\ \A b \in Block : b >= FIRST => disk.type[b] = BLOCK_FREE
  <2>1. 0 \in Block /\ 1 \in Block
    BY <1>0 DEF Block
  <2>2. ASSUME NEW b \in 2 .. FIRST - 1 PROVE disk.type[b] = BLOCK_BMAP
    <3>1. b \in Block /\ b # 0 /\ b # 1 /\ b \in 2 .. 1 + nbitblock
      BY <1>0 DEF Block
    <3> QED BY <3>1, <1>7
  <2>3. ASSUME NEW b \in Block, b >= FIRST PROVE disk.type[b] = BLOCK_FREE
    <3>1. b # 0 /\ b # 1 /\ ~(b \in 2 .. 1 + nbitblock)
      BY <2>3, <1>0 DEF Block
    <3> QED BY <3>1, <1>7
  <2>4. disk.type[0] = BLOCK_BOOT /\ disk.type[1] = BLOCK_SUPER
    BY <2>1, <1>7
  <2> QED BY <2>2, <2>3, <2>4
<1>9. disk \in Disk
  <2>1. disk.file \in [Place -> FileRec]
    BY <1>2, <1>4, <1>5
  <2>2. disk.type \in [Block -> Nat]
    <3>1. \A b \in Block : disk.type[b] \in Nat
      <4>1. ASSUME NEW b \in Block PROVE disk.type[b] \in {BLOCK_BOOT, BLOCK_SUPER, BLOCK_BMAP, BLOCK_FREE}
        <5>1. b \in 2 .. FIRST - 1 \/ b = 0 \/ b = 1 \/ b >= FIRST
          BY <1>0 DEF Block
        <5> QED BY <5>1, <1>8
      <4> QED BY <4>1 DEF BLOCK_BOOT, BLOCK_SUPER, BLOCK_BMAP, BLOCK_FREE
    <3> QED BY <3>1, <1>5
  <2>3. disk.link \in [Block -> [0 .. NINDIRECT - 1 -> Nat]]
    BY <1>5
  <2>4. disk.data \in [Block -> Int \X Int]
    BY <1>5 DEF Unused
  <2>5. disk.nextbno \in Nat
    BY <1>0, <1>5
  <2>6. PICK ty, fl, ln, dt, nb : disk = [type |-> ty, file |-> fl, link |-> ln, data |-> dt, nextbno |-> nb]
    OBVIOUS
  <2>7. disk.type = ty /\ disk.file = fl /\ disk.link = ln /\ disk.data = dt /\ disk.nextbno = nb
    BY ONLY <2>6
  <2> QED BY ONLY <2>1, <2>2, <2>3, <2>4, <2>5, <2>6, <2>7 DEF Disk
<1> HIDE DEF init_disk
<1>10. Counts = [f \in Place |-> 0]
  <2>1. \A f \in Place : disk.file[f].size = 0
    BY <1>2, <1>4, <1>6
  <2>2. fspc # "read"
    OBVIOUS
  <2> QED BY <2>1, <2>2 DEF Counts
<1>11. PICK cnt : cnt = Counts
  OBVIOUS
<1>12. cnt \in [Place -> 0 .. NINDIRECT] /\ \A f \in Place : cnt[f] = 0 /\ 0 .. cnt[f] - 1 = {}
  BY <1>0, <1>10, <1>11
<1>13. \A f \in Place : Index(disk, f) = 0
  BY <1>2, <1>4, <1>6 DEF Index
<1>14. BlocksShape(disk, cnt)
  <2>1. IndexesRight(disk, cnt)
    BY <1>0, <1>12, <1>13 DEF IndexesRight
  <2>2. PointersRight(disk, cnt) /\ PointersDiffer(disk, cnt) /\ IndexesDiffer(disk)
    BY <1>12, <1>13 DEF PointersRight, PointersDiffer, IndexesDiffer
  <2>3. NoneLost(disk, cnt)
    <3>1. FIRST .. disk.nextbno - 1 = {}
      BY <1>0, <1>5
    <3> QED BY <3>1 DEF NoneLost
  <2>4. disk.nextbno >= FIRST
    BY <1>0, <1>5
  <2> QED BY <2>1, <2>2, <2>3, <2>4, <1>9, <1>12 DEF BlocksShape
<1>15. ROOT \in Place /\ IsUsed(disk, ROOT) /\ \A f \in Place : IsUsed(disk, f) => f = ROOT
  BY <1>2, <1>4, <1>6, PlaceParts DEF IsUsed, Unused
<1>16. FilesShape(disk, cnt)
  <2>1. disk.file[ROOT] = root
    BY <1>6, <1>15
  <2>2. disk.file[ROOT].name = 0 /\ disk.file[ROOT].kind = "DIR" /\ disk.file[ROOT].size = cnt[ROOT]
    BY <2>1, <1>4, <1>12, <1>15
  <2>3. Placed(disk)
    BY <1>15 DEF Placed
  <2>4. Directories(disk, cnt)
    BY <2>2, <1>0, <1>12, <1>15 DEF Directories
  <2>5. FromFront(disk)
    <3>1. \A k \in 0 .. ROOT[2] : <<ROOT[1], k>> = ROOT
      BY PlaceParts DEF ROOT
    <3> QED BY <3>1, <1>15 DEF FromFront
  <2>6. NamesDiffer(disk)
    BY <1>15 DEF NamesDiffer, IsUsed
  <2> QED BY <2>2, <2>3, <2>4, <2>5, <2>6, <1>12 DEF FilesShape
<1>17. TypesShape(disk)
  BY <1>5, <1>8 DEF TypesShape
<1>18. HostShape(disk, cnt, host)
  <2>1. IsFiniteSet(host) /\ Cardinality(host) = 0 /\ host = {}
    BY FS_EmptySet
  <2>2. \A f \in Place : IsUsed(disk, f) => disk.file[f].name = 0
    BY <1>15, <1>16 DEF FilesShape
  <2> QED BY <2>1, <2>2 DEF HostShape
<1>19. DirsShape
  <2>1. dirs = <<ROOT>> /\ dirs \in Seq(Place) /\ Len(dirs) = 1 /\ dirs[1] = ROOT
    BY <1>15
  <2>2. disk.file[ROOT].kind = "DIR"
    BY <1>16 DEF FilesShape
  <2>3. dirs # <<>> /\ \A n \in 1 .. Len(dirs) : dirs[n] = ROOT
    BY <2>1
  <2> QED BY <2>1, <2>2, <2>3, <1>15 DEF DirsShape
<1>20. ReadShape
  BY DEF ReadShape
<1>21. disk.nextbno <= NBLOCK
  BY <1>0, <1>5
<1> QED BY <1>11, <1>14, <1>16, <1>17, <1>18, <1>19, <1>20, <1>21 DEF FsInv, DiskShape

(* How many blocks the sizes of the Files say they have. *)
SizeCount(d, f) == IF d.file[f].size < 0 THEN 0 ELSE d.file[f].size

(* Files stay, with their kinds. *)
KeptFiles == \A f \in Place : IsUsed(disk, f) => IsUsed(disk', f) /\ disk'.file[f].kind = disk.file[f].kind

(* The directories being written are still directories.                     *)
LEMMA DirsKept ==
  ASSUME DirsShape, KeptFiles, NEW s \in Seq(Place), s # <<>>,
         \A n \in 1 .. Len(s) : \/ \E m \in 1 .. Len(dirs) : s[n] = dirs[m]
                                \/ IsUsed(disk', s[n]) /\ disk'.file[s[n]].kind = "DIR",
         dirs' = s
  PROVE  DirsShape'
<1>1. ASSUME NEW n \in 1 .. Len(s)
      PROVE  IsUsed(disk', s[n]) /\ disk'.file[s[n]].kind = "DIR"
  <2>1. CASE \E m \in 1 .. Len(dirs) : s[n] = dirs[m]
    <3>1. PICK m \in 1 .. Len(dirs) : s[n] = dirs[m]
      BY <2>1
    <3>2. dirs[m] \in Place /\ IsUsed(disk, dirs[m]) /\ disk.file[dirs[m]].kind = "DIR"
      BY DEF DirsShape
    <3> QED BY <3>1, <3>2 DEF KeptFiles
  <2> QED BY <2>1
<1> QED BY <1>1 DEF DirsShape

(* A new File in the innermost directory.                                   *)
LEMMA EnterShape ==
  ASSUME FsInv, fspc = "tree", NEW kd \in {"REG", "DIR"}, NEW sz \in Int, kd = "DIR" => sz = 0,
         NEW nxt, Enter(kd, sz, nxt)
  PROVE  \/ fspc' \in {"overlaid", "overrun"}
         \/ /\ fspc' = nxt /\ KeptFiles
            /\ target' \in Place /\ IsUsed(disk', target')
            /\ disk'.file[target'].kind = kd /\ disk'.file[target'].size = sz
            /\ \E more : /\ DiskShape(disk', more, host') /\ more[target'] = 0
                         /\ \A f \in Place : f # target' => more[f] = SizeCount(disk', f)
<1>1. PICK cnt : cnt = Counts
  OBVIOUS
<1>2. /\ BlocksShape(disk, cnt) /\ FilesShape(disk, cnt) /\ TypesShape(disk) /\ HostShape(disk, cnt, host)
      /\ disk.nextbno <= NBLOCK /\ DirsShape
  BY <1>1 DEF FsInv, DiskShape
<1>3. PICK g : g = Head(dirs)
  OBVIOUS
<1>4. g \in Place /\ IsUsed(disk, g) /\ disk.file[g].kind = "DIR"
  <2>1. dirs \in Seq(Place) /\ dirs # <<>>
    BY <1>2 DEF DirsShape
  <2>2. Len(dirs) >= 1 /\ Head(dirs) = dirs[1] /\ 1 \in 1 .. Len(dirs) /\ dirs[1] \in Place
    BY <2>1
  <2> QED BY <2>2, <1>2, <1>3 DEF DirsShape
<1>5. PICK made : made = create_file(disk, g)
  OBVIOUS
<1>6. PICK md, f : md = made.disk /\ f = made.file
  OBVIOUS
<1>7. PICK d : d = WithName(md, f, Name, kd, sz)
  OBVIOUS
<1>8. PICK h : h = [dir |-> disk.file[g].name, name |-> Name, kind |-> kd, size |-> sz]
  OBVIOUS
<1>9. h.dir = disk.file[g].name /\ h.name = Name /\ h.kind = kd /\ h.size = sz
  BY <1>8
<1>10. IF md.type[f[1]] = BLOCK_INDEX
       THEN fspc' = "overlaid" /\ UNCHANGED <<disk, target, host>>
       ELSE /\ disk' = d /\ target' = f /\ host' = host \cup {h}
            /\ fspc' = IF Overrun(d) THEN "overrun" ELSE nxt
  BY <1>3, <1>5, <1>6, <1>7, <1>8 DEF Enter, WithName
<1>11. CASE md.type[f[1]] = BLOCK_INDEX \/ fspc' = "overrun"
  BY <1>10, <1>11
<1>12. CASE ~(md.type[f[1]] = BLOCK_INDEX) /\ fspc' # "overrun"
  <2>1. disk' = d /\ target' = f /\ host' = host \cup {h} /\ fspc' = nxt /\ ~Overrun(d)
    BY <1>10, <1>12
  <2>2. PICK more : Grown(disk, cnt, md, more) /\ Local(disk, cnt, md, more, g) /\ Opening(md, more, g, f)
    BY <1>2, <1>4, <1>5, <1>6, <1>12, CreateFile
  <2>3. FilesShape(md, more) /\ TypesShape(md)
    BY <2>2, <1>2, GrownFiles
  <2>4. HostShape(md, more, host)
    BY <2>2, <1>2, GrownHost
  <2>5. BlocksShape(md, more) /\ md \in Disk /\ more \in [Place -> 0 .. NINDIRECT]
    BY <2>2 DEF Grown, BlocksShape
  <2>6. Name \in Int /\ Name = 1 + Cardinality(host)
    BY <1>2, FS_CardinalityType DEF Name, HostShape
  <2>7. f \in Place /\ ~IsUsed(md, f) /\ \A k \in 0 .. f[2] - 1 : IsUsed(md, <<f[1], k>>)
    BY <2>2 DEF Opening
  <2>8. PICK n \in 0 .. more[g] - 1 : f[1] = NthBlock(md, g, n)
    BY <2>2 DEF Opening
  <2>9. Redone(md, d, f) /\ d.file[f].name = Name /\ d.file[f].kind = kd /\ d.file[f].size = sz
    BY <2>5, <2>6, <2>7, <1>7, Renamed, SMTT(60)
  <2>10. \A a \in Place : md.file[a].name = disk.file[a].name /\ md.file[a].kind = disk.file[a].kind
    BY <2>2 DEF Grown
  <2>11. IsUsed(md, g) /\ md.file[g].kind = "DIR" /\ md.file[g].name = disk.file[g].name
    BY <2>10, <1>4 DEF IsUsed
  <2>12. f[1] \in FIRST .. md.nextbno - 1 /\ md.type[f[1]] = BLOCK_FILE
    <3>1. NthBlock(md, g, n) \in FIRST .. md.nextbno - 1 /\ md.type[NthBlock(md, g, n)] = TypeFor(md, g)
      BY <2>5, <1>4 DEF BlocksShape, PointersRight
    <3>2. TypeFor(md, g) = BLOCK_FILE
      BY <2>11 DEF TypeFor
    <3> QED BY <3>1, <3>2, <2>8
  <2>13. BlocksShape(d, more) /\ FilesShape(d, more) /\ TypesShape(d)
    BY <2>3, <2>4, <2>5, <2>6, <2>7, <2>9, <2>12, NamedFiles
  <2>14. HostShape(d, more, host \cup {h})
    BY <2>3, <2>4, <2>6, <2>7, <2>8, <2>9, <2>11, <1>4, <1>9, NamedHost
  <2>15. d.nextbno <= NBLOCK
    <3>1. d.nextbno \in Nat /\ NBLOCK \in Nat
      BY <2>13, DiskParts, FsNumbers DEF BlocksShape
    <3> QED BY <3>1, <2>1 DEF Overrun
  <2>16. DiskShape(d, more, host \cup {h})
    BY <2>13, <2>14, <2>15 DEF DiskShape
  <2>17. more[f] = 0
    BY <2>3, <2>7 DEF FilesShape
  <2>18. \A a \in Place : a # f => d.file[a] = md.file[a]
    BY <2>9 DEF Redone
  <2>19. \A a \in Place : a # f => more[a] = SizeCount(d, a)
    <3> SUFFICES ASSUME NEW a \in Place, a # f PROVE more[a] = SizeCount(md, a)
      BY <2>18 DEF SizeCount
    <3>1. CASE a = g
      <4>1. md.file[g].size = more[g]
        BY <2>11, <2>3, <1>4 DEF FilesShape, Directories
      <4>2. more[g] \in Nat
        BY <2>5, <1>4, FsNumbers
      <4> QED BY <3>1, <4>1, <4>2 DEF SizeCount
    <3>2. CASE a # g
      <4>1. more[a] = cnt[a] /\ md.file[a].size = disk.file[a].size
        BY <2>2, <3>2 DEF Local
      <4>2. cnt[a] = SizeCount(disk, a)
        BY <1>1 DEF Counts, SizeCount
      <4> QED BY <4>1, <4>2 DEF SizeCount
    <3> QED BY <3>1, <3>2
  <2>20. IsUsed(d, f)
    BY <2>6, <2>9, <1>2, FS_CardinalityType DEF IsUsed, Unused, HostShape
  <2>21. KeptFiles
    <3>1. ASSUME NEW a \in Place, IsUsed(disk, a) PROVE IsUsed(d, a) /\ d.file[a].kind = disk.file[a].kind
      <4>1. IsUsed(md, a)
        BY <3>1, <2>10 DEF IsUsed
      <4>2. a # f
        BY <4>1, <2>7
      <4> QED BY <4>1, <4>2, <2>10, <2>18 DEF IsUsed
    <3> QED BY <3>1, <2>1 DEF KeptFiles
  <2>22. /\ DiskShape(disk', more, host') /\ more[target'] = 0
         /\ \A a \in Place : a # target' => more[a] = SizeCount(disk', a)
    BY <2>1, <2>16, <2>17, <2>19
  <2> QED BY <2>1, <2>7, <2>9, <2>20, <2>21, <2>22
<1> QED BY <1>11, <1>12
-----------------------------------------------------------------------------
(* Where the counts come from after a step. *)
LEMMA CountsAfter ==
  ASSUME NEW more, more \in [Place -> 0 .. NINDIRECT],
         \A f \in Place : f # target' \/ fspc' # "read" => more[f] = SizeCount(disk', f),
         fspc' = "read" => (target' \in Place => more[target'] = iblk')
  PROVE  Counts' = more
<1>1. Counts' = [f \in Place |-> IF fspc' = "read" /\ f = target' THEN iblk' ELSE SizeCount(disk', f)]
  BY DEF Counts, SizeCount
<1>2. \A f \in Place : more[f] = IF fspc' = "read" /\ f = target' THEN iblk' ELSE SizeCount(disk', f)
  OBVIOUS
<1>3. more = [f \in Place |-> more[f]]
  OBVIOUS
<1> QED BY <1>1, <1>2, <1>3

(* write_file up to its first read keeps the invariant.                     *)
LEMMA WriteFileInv ==
  ASSUME FsInv, NEW sz \in Int, write_file(sz)
  PROVE  FsInv'
<1>1. /\ fspc = "tree" /\ Enter("REG", sz, IF sz > 0 THEN "read" ELSE "tree")
      /\ iblk' = 0 /\ dirs' = dirs
  BY DEF write_file
<1>2. SUFFICES ASSUME fspc' \in {"tree", "read", "done"}
               PROVE  DiskShape(disk', Counts', host') /\ DirsShape' /\ ReadShape'
  BY DEF FsInv
<1>3. PICK nxt : nxt = IF sz > 0 THEN "read" ELSE "tree"
  OBVIOUS
<1>4. /\ fspc' = nxt /\ KeptFiles
      /\ target' \in Place /\ IsUsed(disk', target')
      /\ disk'.file[target'].kind = "REG" /\ disk'.file[target'].size = sz
      /\ \E more : /\ DiskShape(disk', more, host') /\ more[target'] = 0
                   /\ \A f \in Place : f # target' => more[f] = SizeCount(disk', f)
  <2>1. "REG" \in {"REG", "DIR"} /\ "REG" # "DIR"
    OBVIOUS
  <2>2. Enter("REG", sz, nxt)
    BY <1>1, <1>3
  <2>3. ~(fspc' \in {"overlaid", "overrun"})
    BY <1>2
  <2> QED BY <2>1, <2>2, <2>3, <1>1, EnterShape
<1>5. PICK more : /\ DiskShape(disk', more, host') /\ more[target'] = 0
                  /\ \A f \in Place : f # target' => more[f] = SizeCount(disk', f)
  BY <1>4
<1>6. fspc' # "read" => SizeCount(disk', target') = 0
  <2>1. fspc' # "read" => ~(sz > 0)
    BY <1>3, <1>4
  <2> QED BY <2>1, <1>4 DEF SizeCount
<1>7. more \in [Place -> 0 .. NINDIRECT]
  BY <1>5 DEF DiskShape, BlocksShape
<1>8. Counts' = more
  BY <1>1, <1>5, <1>6, <1>7, CountsAfter
<1>9. DirsShape'
  BY <1>1, <1>4, DirsKept DEF FsInv, DirsShape
<1>10. ReadShape'
  <2>1. fspc' = "read" => sz > 0
    BY <1>3, <1>4
  <2> QED BY <2>1, <1>1, <1>4 DEF ReadShape
<1> QED BY <1>5, <1>8, <1>9, <1>10

(* write_directory up to its first entry keeps the invariant.               *)
LEMMA WriteDirectoryInv ==
  ASSUME FsInv, write_directory
  PROVE  FsInv'
<1>1. fspc = "tree" /\ Enter("DIR", 0, "tree") /\ dirs' = <<target'>> \o dirs
  BY DEF write_directory
<1>2. SUFFICES ASSUME fspc' \in {"tree", "read", "done"}
               PROVE  DiskShape(disk', Counts', host') /\ DirsShape' /\ ReadShape'
  BY DEF FsInv
<1>3. /\ fspc' = "tree" /\ KeptFiles
      /\ target' \in Place /\ IsUsed(disk', target')
      /\ disk'.file[target'].kind = "DIR" /\ disk'.file[target'].size = 0
      /\ \E more : /\ DiskShape(disk', more, host') /\ more[target'] = 0
                   /\ \A f \in Place : f # target' => more[f] = SizeCount(disk', f)
  <2>1. "DIR" \in {"REG", "DIR"} /\ 0 \in Int
    OBVIOUS
  <2>2. ~(fspc' \in {"overlaid", "overrun"})
    BY <1>2
  <2> QED BY <2>1, <2>2, <1>1, EnterShape
<1>4. PICK more : /\ DiskShape(disk', more, host') /\ more[target'] = 0
                  /\ \A f \in Place : f # target' => more[f] = SizeCount(disk', f)
  BY <1>3
<1>5. SizeCount(disk', target') = 0 /\ fspc' # "read"
  BY <1>3 DEF SizeCount
<1>6. more \in [Place -> 0 .. NINDIRECT]
  BY <1>4 DEF DiskShape, BlocksShape
<1>7. Counts' = more
  BY <1>4, <1>5, <1>6, CountsAfter
<1>8. DirsShape'
  <2>1. DirsShape /\ dirs \in Seq(Place)
    BY <1>1 DEF FsInv, DirsShape
  <2>2. PICK s : s = <<target'>> \o dirs
    OBVIOUS
  <2>3. s \in Seq(Place) /\ Len(s) = 1 + Len(dirs) /\ s[1] = target' /\ \A n \in 2 .. Len(s) : s[n] = dirs[n - 1]
    BY <2>1, <2>2, <1>3
  <2>4. Len(dirs) \in Nat
    BY <2>1
  <2>5. s # <<>>
    BY <2>3, <2>4
  <2>6. ASSUME NEW n \in 1 .. Len(s)
        PROVE  \/ \E m \in 1 .. Len(dirs) : s[n] = dirs[m]
               \/ IsUsed(disk', s[n]) /\ disk'.file[s[n]].kind = "DIR"
    <3>1. CASE n = 1
      BY <3>1, <2>3, <1>3
    <3>2. CASE n # 1
      <4>1. n \in 2 .. Len(s) /\ n - 1 \in 1 .. Len(dirs)
        BY <3>2, <2>3, <2>4
      <4> QED BY <4>1, <2>3
    <3> QED BY <3>1, <3>2
  <2> QED BY <2>1, <2>2, <2>3, <2>5, <2>6, <1>1, <1>3, DirsKept
<1>9. ReadShape'
  BY <1>5 DEF ReadShape
<1> QED BY <1>4, <1>7, <1>8, <1>9

(* A block read into a file.                                                *)
LEMMA ReadBlockInv ==
  ASSUME FsInv, ReadBlock
  PROVE  FsInv'
<1>0. /\ NDIRECT \in Nat /\ NINDIRECT \in Nat /\ NDIRECT < NINDIRECT /\ NBLOCK \in Nat
      /\ FIRST \in Nat /\ FIRST >= 3
  BY FsNumbers
<1>1. SUFFICES ASSUME fspc' \in {"tree", "read", "done"}
               PROVE  DiskShape(disk', Counts', host') /\ DirsShape' /\ ReadShape'
  BY DEF FsInv
<1>2. PICK b, w : b = disk.nextbno /\ w = <<disk.file[target].name, iblk>>
  OBVIOUS
<1>3. PICK nx : nx = next_block(disk, BLOCK_DATA)
  OBVIOUS
<1>4. PICK dx : dx = [nx EXCEPT !.data[b] = w]
  OBVIOUS
<1>5. PICK e : e = save_block_link(dx, target, iblk, b)
  OBVIOUS
<1>6. /\ fspc = "read" /\ iblk' = iblk + 1 /\ UNCHANGED <<dirs, target, host>>
      /\ ~(iblk >= NINDIRECT) /\ disk' = e
      /\ fspc' = CASE Overrun(e) -> "overrun"
                   [] ~Overrun(e) /\ iblk + 1 = disk.file[target].size -> "tree"
                   [] OTHER -> "read"
  <2>1. fspc' # "assert"
    BY <1>1
  <2> QED BY <2>1, <1>2, <1>3, <1>4, <1>5 DEF ReadBlock
<1>7. /\ ~Overrun(e)
      /\ fspc' = IF iblk + 1 = disk.file[target].size THEN "tree" ELSE "read"
  <2>1. ~Overrun(e)
    BY <1>1, <1>6
  <2> QED BY <2>1, <1>6
<1>8. PICK cnt : cnt = Counts
  OBVIOUS
<1>9. /\ BlocksShape(disk, cnt) /\ FilesShape(disk, cnt) /\ TypesShape(disk) /\ HostShape(disk, cnt, host)
      /\ disk.nextbno <= NBLOCK /\ DirsShape
      /\ target \in Place /\ IsUsed(disk, target) /\ disk.file[target].kind = "REG"
      /\ iblk \in Nat /\ iblk < disk.file[target].size
  BY <1>6, <1>8 DEF FsInv, DiskShape, ReadShape
<1>10. disk \in Disk /\ cnt \in [Place -> 0 .. NINDIRECT] /\ b \in Nat /\ b >= FIRST /\ b <= NBLOCK /\ b \in Block
  <2>1. disk \in Disk /\ cnt \in [Place -> 0 .. NINDIRECT] /\ b >= FIRST
    BY <1>2, <1>9 DEF BlocksShape
  <2>2. b \in Nat
    BY <2>1, <1>2, DiskParts
  <2> QED BY <2>1, <2>2, <1>0, <1>2, <1>9 DEF Block
<1>11. cnt[target] = iblk /\ iblk < NINDIRECT /\ \A f \in Place : f # target => cnt[f] = SizeCount(disk, f)
  BY <1>0, <1>6, <1>8, <1>9 DEF Counts, SizeCount
<1>12. /\ nx \in Disk /\ nx.nextbno = b + 1
       /\ nx.file = disk.file /\ nx.link = disk.link /\ nx.data = disk.data
       /\ \A c \in Block : nx.type[c] = IF c = b THEN BLOCK_DATA ELSE disk.type[c]
  BY <1>2, <1>3, <1>10, NextBlock DEF BLOCK_DATA
<1>13. /\ dx \in Disk /\ dx.nextbno = nx.nextbno /\ dx.file = nx.file /\ dx.link = nx.link /\ dx.type = nx.type
       /\ \A c \in Block : dx.data[c] = IF c = b THEN w ELSE disk.data[c]
  <2>1. nx.data \in [Block -> Int \X Int] /\ w \in Int \X Int
    BY <1>2, <1>9, <1>10, <1>12, DiskParts
  <2>2. PICK dt : dt = [nx.data EXCEPT ![b] = w]
    OBVIOUS
  <2>3. dt \in [Block -> Int \X Int] /\ \A c \in Block : dt[c] = IF c = b THEN w ELSE nx.data[c]
    BY <2>1, <2>2, <1>10
  <2>4. dx = [nx EXCEPT !.data = dt]
    BY <2>2, <1>4
  <2>5. /\ dx \in Disk /\ dx.nextbno = nx.nextbno /\ dx.file = nx.file /\ dx.link = nx.link /\ dx.type = nx.type
        /\ dx.data = dt
    BY ONLY <2>3, <2>4, <1>12 DEF Disk
  <2> QED BY <2>3, <2>5, <1>12
<1>14. Took(disk, e, cnt, target, BLOCK_DATA) /\ e.data = dx.data
  <2>1. BLOCK_DATA \in Nat
    BY DEF BLOCK_DATA
  <2>2. e = save_block_link(dx, target, cnt[target], disk.nextbno)
    BY <1>2, <1>5, <1>11
  <2> QED BY <2>1, <2>2, <1>2, <1>9, <1>11, <1>12, <1>13, TookBlock
<1>15. PICK more : more = [cnt EXCEPT ![target] = iblk + 1]
  OBVIOUS
<1>16. /\ more \in [Place -> 0 .. NINDIRECT] /\ more[target] = iblk + 1
       /\ \A f \in Place : f # target => more[f] = cnt[f]
  <2>1. iblk + 1 \in 0 .. NINDIRECT
    BY <1>0, <1>9, <1>11
  <2> QED BY <2>1, <1>9, <1>10, <1>15
<1>17. BlocksShape(e, more)
  <2>1. TypeFor(disk, target) = BLOCK_DATA
    BY <1>9 DEF TypeFor
  <2> QED BY <2>1, <1>9, <1>11, <1>14, <1>16, TookShape
<1>18. /\ e.nextbno = IF Fresh(disk, target, cnt[target]) THEN b + 2 ELSE b + 1
       /\ \A c \in Block : c < b \/ c >= e.nextbno => e.type[c] = disk.type[c]
       /\ \A f \in Place : /\ e.file[f].name = disk.file[f].name /\ e.file[f].kind = disk.file[f].kind
                           /\ e.file[f].size = disk.file[f].size
       /\ NthBlock(e, target, iblk) = b
       /\ \A f \in Place : \A m \in 0 .. cnt[f] - 1 : NthBlock(e, f, m) = NthBlock(disk, f, m)
  BY <1>2, <1>11, <1>14 DEF Took
<1>19. Grown(disk, cnt, e, more)
  <2>1. e.nextbno >= disk.nextbno
    BY <1>2, <1>10, <1>18
  <2>2. \A c \in Block : /\ c < disk.nextbno => e.type[c] = disk.type[c] /\ e.data[c] = disk.data[c]
                         /\ c >= e.nextbno => e.type[c] = disk.type[c]
    <3> TAKE c \in Block
    <3>1. c < disk.nextbno => c # b
      BY <1>2, <1>10
    <3> QED BY <3>1, <1>2, <1>13, <1>14, <1>18
  <2>3. \A f \in Place : /\ more[f] >= cnt[f] /\ (~IsUsed(disk, f) => more[f] = cnt[f])
                         /\ \A n \in 0 .. cnt[f] - 1 : NthBlock(e, f, n) = NthBlock(disk, f, n)
    <3> TAKE f \in Place
    <3>1. cnt[f] \in Nat
      BY <1>0, <1>10
    <3>2. more[f] >= cnt[f]
      BY <3>1, <1>9, <1>11, <1>16
    <3> QED BY <3>2, <1>9, <1>16, <1>18
  <2>4. ASSUME NEW f \in Place, IsUsed(disk, f), disk.file[f].kind = "DIR"
        PROVE  e.file[f].size = more[f] /\ more[f] <= NDIRECT + 1
    <3>1. f # target
      BY <2>4, <1>9
    <3> QED BY <3>1, <2>4, <1>9, <1>16, <1>18 DEF FilesShape, Directories
  <2>5. ASSUME NEW f \in Place, NEW n \in cnt[f] .. more[f] - 1
        PROVE  e.data[NthBlock(e, f, n)] = <<disk.file[f].name, n>>
    <3>1. cnt[f] \in Nat /\ more[f] \in Nat
      BY <1>0, <1>10, <1>16
    <3>2. f = target
      BY <3>1, <1>16
    <3>3. n = iblk
      BY <3>1, <3>2, <1>9, <1>11, <1>16
    <3>4. e.data[b] = w
      BY <1>10, <1>13, <1>14
    <3> QED BY <3>2, <3>3, <3>4, <1>2, <1>18
  <2> QED BY <2>1, <2>2, <2>3, <2>4, <2>5, <1>17, <1>18 DEF Grown
<1>20. FilesShape(e, more) /\ TypesShape(e)
  BY <1>9, <1>19, GrownFiles
<1>21. HostShape(e, more, host)
  BY <1>9, <1>19, GrownHost
<1>22. DiskShape(disk', more, host')
  <2>1. e.nextbno \in Nat
    BY <1>17, DiskParts DEF BlocksShape
  <2>2. e.nextbno <= NBLOCK
    BY <2>1, <1>0, <1>7 DEF Overrun
  <2> QED BY <2>2, <1>6, <1>17, <1>20, <1>21 DEF DiskShape
<1>23. Counts' = more
  <2>1. \A f \in Place : f # target => more[f] = SizeCount(disk', f)
    BY <1>6, <1>11, <1>16, <1>18 DEF SizeCount
  <2>2. fspc' # "read" => more[target] = SizeCount(disk', target)
    BY <1>6, <1>7, <1>9, <1>16, <1>18 DEF SizeCount
  <2>3. target' = target
    BY <1>6
  <2> QED BY <2>1, <2>2, <2>3, <1>6, <1>16, CountsAfter
<1>24. DirsShape'
  <2>1. KeptFiles
    BY <1>6, <1>18 DEF KeptFiles, IsUsed
  <2> QED BY <2>1, <1>6, <1>9, DirsKept DEF DirsShape
<1>25. ReadShape'
  <2>1. fspc' = "read" => iblk + 1 < disk.file[target].size
    <3>1. disk.file[target].size \in Int
      BY <1>9, <1>10, DiskParts
    <3> QED BY <3>1, <1>7, <1>9
  <2>2. IsUsed(e, target)
    BY <1>9, <1>18 DEF IsUsed
  <2>3. target' = target /\ disk' = e /\ iblk' = iblk + 1 /\ iblk + 1 \in Nat
    BY <1>6, <1>9
  <2> QED BY <2>1, <2>2, <2>3, <1>9, <1>18 DEF ReadShape
<1> QED BY <1>22, <1>23, <1>24, <1>25

(* A step that leaves the disk alone, from between two files.               *)
LEMMA QuietInv ==
  ASSUME FsInv, fspc = "tree", UNCHANGED <<disk, target, iblk, host>>,
         fspc' # "read", DirsShape'
  PROVE  FsInv'
<1>1. Counts' = Counts
  <2>1. disk' = disk /\ fspc # "read"
    OBVIOUS
  <2>2. Counts = [f \in Place |-> SizeCount(disk, f)]
    BY <2>1 DEF Counts, SizeCount
  <2>3. Counts' = [f \in Place |-> SizeCount(disk, f)]
    BY <2>1 DEF Counts, SizeCount
  <2> QED BY <2>2, <2>3
<1>2. DiskShape(disk, Counts, host)
  BY DEF FsInv
<1>3. DiskShape(disk', Counts', host')
  BY <1>1, <1>2
<1>4. ReadShape'
  BY DEF ReadShape
<1> QED BY <1>3, <1>4 DEF FsInv

(* Every step of main keeps the invariant.                                  *)
LEMMA FsStepInv == FsInv /\ [FsNext]_fsvars => FsInv'
<1> SUFFICES ASSUME FsInv, [FsNext]_fsvars PROVE FsInv'
  OBVIOUS
<1>1. ASSUME NEW sz \in READS \cup {-1}, write_file(sz) PROVE FsInv'
  <2>1. sz \in Int
    BY FsAssumption
  <2> QED BY <2>1, <1>1, WriteFileInv
<1>2. CASE ReadBlock
  BY <1>2, ReadBlockInv
<1>3. CASE write_directory
  BY <1>3, WriteDirectoryInv
<1>4. CASE closedir
  <2>1. fspc = "tree" /\ Len(dirs) > 1 /\ dirs' = Tail(dirs) /\ UNCHANGED <<disk, fspc, target, iblk, host>>
    BY <1>4 DEF closedir
  <2>2. DirsShape /\ dirs \in Seq(Place)
    BY <2>1 DEF FsInv, DirsShape
  <2>3. PICK s : s = Tail(dirs)
    OBVIOUS
  <2>4. dirs # <<>>
    BY <2>2 DEF DirsShape
  <2>5. /\ s \in Seq(Place) /\ Len(s) = Len(dirs) - 1 /\ Len(dirs) \in Nat
        /\ \A n \in 1 .. Len(s) : s[n] = dirs[n + 1]
    BY <2>2, <2>3, <2>4
  <2>6. s # <<>> /\ \A n \in 1 .. Len(s) : n + 1 \in 1 .. Len(dirs)
    BY <2>1, <2>5
  <2>7. KeptFiles
    BY <2>1 DEF KeptFiles
  <2>8. DirsShape'
    BY <2>1, <2>2, <2>3, <2>5, <2>6, <2>7, DirsKept
  <2> QED BY <2>1, <2>8, QuietInv
<1>5. CASE Refuse
  BY <1>5 DEF Refuse, FsInv
<1>6. CASE Finish
  <2>1. fspc = "tree" /\ fspc' \in {"done", "assert"} /\ UNCHANGED <<disk, dirs, target, iblk, host>>
    BY <1>6 DEF Finish, finish_fs
  <2>2. DirsShape'
    BY <2>1 DEF FsInv, DirsShape
  <2>3. fspc' # "read"
    BY <2>1
  <2> QED BY <2>1, <2>2, <2>3, QuietInv
<1>7. CASE UNCHANGED fsvars
  <2>1. UNCHANGED <<disk, dirs, fspc, target, iblk, host>>
    BY <1>7 DEF fsvars
  <2> QED BY <2>1 DEF FsInv, DiskShape, DirsShape, ReadShape, Counts
<1> QED BY <1>1, <1>2, <1>3, <1>4, <1>5, <1>6, <1>7 DEF FsNext
-----------------------------------------------------------------------------
(* The blocks of a File, as the properties name them.                       *)
LEMMA SameBlocks ==
  ASSUME FsInv, fspc \in {"tree", "read", "done"}
  PROVE  \A f \in Place : /\ BlocksOf(f) = 0 .. Counts[f] - 1
                          /\ \A n : BlockOf(f, n) = NthBlock(disk, f, n)
<1>1. DiskShape(disk, Counts, host) /\ ReadShape
  BY DEF FsInv
<1>2. disk \in Disk
  BY <1>1 DEF DiskShape, BlocksShape
<1>3. ASSUME NEW f \in Place PROVE BlocksOf(f) = 0 .. Counts[f] - 1
  <2>1. disk.file[f].size \in Int
    BY <1>2, DiskParts
  <2>2. CASE fspc = "read" /\ f = target
    BY <2>2 DEF BlocksOf, Counts
  <2>3. CASE ~(fspc = "read" /\ f = target) /\ disk.file[f].size < 0
    <3>1. Counts[f] = 0
      BY <2>3 DEF Counts
    <3>2. BlocksOf(f) = 0 .. disk.file[f].size - 1
      BY <2>3 DEF BlocksOf
    <3> QED BY <3>1, <3>2, <2>1, <2>3
  <2>4. CASE ~(fspc = "read" /\ f = target) /\ ~(disk.file[f].size < 0)
    <3>1. Counts[f] = disk.file[f].size
      BY <2>4 DEF Counts
    <3>2. BlocksOf(f) = 0 .. disk.file[f].size - 1
      BY <2>4 DEF BlocksOf
    <3> QED BY <3>1, <3>2
  <2> QED BY <2>2, <2>3, <2>4
<1>4. \A f \in Place : \A n : BlockOf(f, n) = NthBlock(disk, f, n)
  BY DEF BlockOf, NthBlock
<1> QED BY <1>3, <1>4

(* An image under a function that is one to one has as many members.        *)
LEMMA OneToOne ==
  ASSUME NEW dom, IsFiniteSet(dom), NEW fn, fn \in [dom -> Nat], \A x, y \in dom : fn[x] = fn[y] => x = y
  PROVE  IsFiniteSet({fn[x] : x \in dom}) /\ Cardinality({fn[x] : x \in dom}) = Cardinality(dom)
<1> DEFINE T == {fn[x] : x \in dom}
<1>1. fn \in Bijection(dom, T)
  BY DEF Bijection, Injection, Surjection, IsInjective
<1>2. ExistsBijection(dom, T)
  BY <1>1 DEF ExistsBijection
<1> HIDE DEF T
<1>3. IsFiniteSet(T) /\ Cardinality(T) = Cardinality(dom)
  BY <1>2, FS_Bijection
<1> QED BY <1>3 DEF T

(* Every block handed out has one owner.                                    *)
LEMMA OwnedOnce == FsInv => BlocksOwnedOnce
<1> SUFFICES ASSUME FsInv, fspc \in {"tree", "read", "done"} PROVE BlocksOwnedOnce
  BY DEF BlocksOwnedOnce
<1>0. /\ NDIRECT \in Nat /\ NINDIRECT \in Nat /\ NBLOCK \in Nat /\ FIRST \in Nat /\ FIRST >= 3 /\ FILE2BLK \in Nat
      /\ FIRST = 2 + nbitblock
  BY FsNumbers DEF FIRST
<1>1. PICK cnt : cnt = Counts
  OBVIOUS
<1>2. /\ disk \in Disk /\ cnt \in [Place -> 0 .. NINDIRECT] /\ disk.nextbno \in Nat
      /\ IndexesRight(disk, cnt) /\ PointersRight(disk, cnt)
      /\ IndexesDiffer(disk) /\ PointersDiffer(disk, cnt) /\ NoneLost(disk, cnt)
      /\ FilesShape(disk, cnt)
  BY <1>1, DiskParts DEF FsInv, DiskShape, BlocksShape
<1>3. \A f \in Place : BlocksOf(f) = 0 .. cnt[f] - 1 /\ \A n : BlockOf(f, n) = NthBlock(disk, f, n)
  BY <1>1, SameBlocks
<1> DEFINE pts == {x \in Used \X (0 .. NINDIRECT - 1) : x[2] \in BlocksOf(x[1])}
           ixs == {f \in Used : disk.file[f].indirect # 0}
           P == {BlockOf(x[1], x[2]) : x \in pts}
           X == {disk.file[f].indirect : f \in ixs}
<1>4. \A f \in Place : f \in Used <=> IsUsed(disk, f)
  BY DEF Used, IsUsed
<1>5. Used \subseteq Place
  BY DEF Used
<1>6. \A x \in pts : /\ x[1] \in Place /\ x[2] \in 0 .. cnt[x[1]] - 1 /\ x = <<x[1], x[2]>>
                     /\ BlockOf(x[1], x[2]) = NthBlock(disk, x[1], x[2])
  <2>1. ASSUME NEW x \in pts PROVE x[1] \in Used /\ x[2] \in BlocksOf(x[1]) /\ x = <<x[1], x[2]>>
    OBVIOUS
  <2> HIDE DEF pts
  <2> QED BY <2>1, <1>3, <1>5
<1>7. \A f \in Place : \A n \in 0 .. cnt[f] - 1 : <<f, n>> \in pts
  <2> TAKE f \in Place
  <2> TAKE n \in 0 .. cnt[f] - 1
  <2>1. cnt[f] \in 0 .. NINDIRECT
    BY <1>2
  <2>2. n \in 0 .. NINDIRECT - 1 /\ cnt[f] # 0
    BY <2>1, <1>0
  <2>3. f \in Used
    BY <2>2, <1>2, <1>4 DEF FilesShape
  <2>4. PICK x : x = <<f, n>>
    OBVIOUS
  <2>5. x \in Used \X (0 .. NINDIRECT - 1) /\ x[1] = f /\ x[2] = n
    BY <2>2, <2>3, <2>4
  <2>6. x[2] \in BlocksOf(x[1])
    BY <2>5, <1>3
  <2> QED BY <2>4, <2>5, <2>6
<1>8. \A f \in Place : Index(disk, f) # 0 => f \in ixs
  <2> TAKE f \in Place
  <2>1. Index(disk, f) # 0 => cnt[f] # 0
    <3>1. Index(disk, f) # 0 => cnt[f] > NDIRECT
      BY <1>2 DEF IndexesRight
    <3> QED BY <3>1, <1>0
  <2> QED BY <2>1, <1>2, <1>4 DEF FilesShape, Index
<1>9. \A f \in ixs : f \in Place /\ disk.file[f].indirect = Index(disk, f) /\ Index(disk, f) # 0
  BY <1>5 DEF Index
<1>10. \A f \in ixs : disk.file[f].indirect \in FIRST .. disk.nextbno - 1 /\ disk.type[disk.file[f].indirect] = BLOCK_INDEX
  <2> HIDE DEF ixs
  <2> QED BY <1>2, <1>9 DEF IndexesRight
<1>11. \A x \in pts : /\ BlockOf(x[1], x[2]) \in FIRST .. disk.nextbno - 1
                      /\ disk.type[BlockOf(x[1], x[2])] = TypeFor(disk, x[1])
  <2> HIDE DEF pts
  <2> QED BY <1>2, <1>6 DEF PointersRight
<1>12. P \cup X = FIRST .. disk.nextbno - 1
  <2>1. P \cup X \subseteq FIRST .. disk.nextbno - 1
    <3> HIDE DEF pts, ixs
    <3> QED BY <1>10, <1>11
  <2>2. ASSUME NEW b \in FIRST .. disk.nextbno - 1 PROVE b \in P \cup X
    <3>1. PICK f \in Place : b = Index(disk, f) \/ \E n \in 0 .. cnt[f] - 1 : b = NthBlock(disk, f, n)
      BY <1>2 DEF NoneLost
    <3>2. CASE b = Index(disk, f)
      <4>1. b # 0
        BY <1>0
      <4>2. f \in ixs
        BY <3>2, <4>1, <1>8
      <4>3. b = disk.file[f].indirect
        BY <3>2 DEF Index
      <4> HIDE DEF ixs
      <4> QED BY <4>2, <4>3
    <3>3. CASE \E n \in 0 .. cnt[f] - 1 : b = NthBlock(disk, f, n)
      <4>1. PICK n \in 0 .. cnt[f] - 1 : b = NthBlock(disk, f, n)
        BY <3>3
      <4>2. PICK x : x = <<f, n>>
        OBVIOUS
      <4>3. x \in pts /\ x[1] = f /\ x[2] = n
        BY <4>2, <1>7
      <4>4. b = BlockOf(x[1], x[2])
        BY <4>1, <4>3, <1>3
      <4> HIDE DEF pts
      <4> QED BY <4>3, <4>4
    <3> QED BY <3>1, <3>2, <3>3
  <2> HIDE DEF P, X
  <2> QED BY <2>1, <2>2
<1>13. IsFiniteSet(Place)
  <2>1. IsFiniteSet(Block)
    <3>1. 0 \in Int /\ NBLOCK + 1 \in Int
      BY <1>0
    <3> QED BY <3>1, FS_Interval DEF Block
  <2>2. IsFiniteSet(0 .. FILE2BLK - 1)
    <3>1. 0 \in Int /\ FILE2BLK - 1 \in Int
      BY <1>0
    <3> QED BY <3>1, FS_Interval
  <2> QED BY <2>1, <2>2, FS_Product DEF Place
<1>14. IsFiniteSet(pts)
  <2>1. IsFiniteSet(0 .. NINDIRECT - 1)
    <3>1. 0 \in Int /\ NINDIRECT - 1 \in Int
      BY <1>0
    <3> QED BY <3>1, FS_Interval
  <2>2. IsFiniteSet(Place \X (0 .. NINDIRECT - 1))
    BY <2>1, <1>13, FS_Product
  <2>3. pts \subseteq Place \X (0 .. NINDIRECT - 1)
    BY <1>5
  <2> HIDE DEF pts
  <2> QED BY <2>2, <2>3, FS_Subset
<1>15. IsFiniteSet(ixs)
  <2>1. ixs \subseteq Place
    BY <1>5
  <2> HIDE DEF ixs
  <2> QED BY <2>1, <1>13, FS_Subset
<1>16. IsFiniteSet(P) /\ Cardinality(P) = Cardinality(pts)
  <2>1. PICK fn : fn = [x \in pts |-> BlockOf(x[1], x[2])]
    OBVIOUS
  <2>2. \A x \in pts : fn[x] = BlockOf(x[1], x[2])
    BY <2>1
  <2>3. fn \in [pts -> Nat]
    <3>1. \A x \in pts : BlockOf(x[1], x[2]) \in Nat
      <4> HIDE DEF pts
      <4> QED BY <1>0, <1>11
    <3> HIDE DEF pts
    <3> QED BY <3>1, <2>1
  <2>4. ASSUME NEW x \in pts, NEW y \in pts, fn[x] = fn[y] PROVE x = y
    <3>1. NthBlock(disk, x[1], x[2]) = NthBlock(disk, y[1], y[2])
      BY <2>2, <2>4, <1>6
    <3>2. x[1] \in Place /\ y[1] \in Place /\ x[2] \in 0 .. cnt[x[1]] - 1 /\ y[2] \in 0 .. cnt[y[1]] - 1
          /\ x = <<x[1], x[2]>> /\ y = <<y[1], y[2]>>
      BY <1>6
    <3>3. x[1] = y[1] /\ x[2] = y[2]
      BY <3>1, <3>2, <1>2 DEF PointersDiffer
    <3> QED BY ONLY <3>2, <3>3
  <2>5. P = {fn[x] : x \in pts}
    <3> HIDE DEF pts
    <3> QED BY <2>2
  <2> HIDE DEF pts, P
  <2> QED BY <2>3, <2>4, <2>5, <1>14, OneToOne
<1>17. IsFiniteSet(X) /\ Cardinality(X) = Cardinality(ixs)
  <2>1. PICK fn : fn = [f \in ixs |-> disk.file[f].indirect]
    OBVIOUS
  <2>2. \A f \in ixs : fn[f] = disk.file[f].indirect
    BY <2>1
  <2> HIDE DEF ixs
  <2>3. fn \in [ixs -> Nat]
    <3>1. \A f \in ixs : disk.file[f].indirect \in Nat
      BY <1>0, <1>10
    <3> QED BY <3>1, <2>1
  <2>4. \A f, g \in ixs : fn[f] = fn[g] => f = g
    BY <2>2, <1>2, <1>9 DEF IndexesDiffer
  <2>5. X = {fn[f] : f \in ixs}
    BY <2>2
  <2> HIDE DEF X
  <2> QED BY <2>3, <2>4, <2>5, <1>15, OneToOne
<1>18. P \cap X = {}
  <2>1. ASSUME NEW b \in P, b \in X PROVE FALSE
    <3>1. PICK x \in pts : b = BlockOf(x[1], x[2])
      OBVIOUS
    <3>2. disk.type[b] = TypeFor(disk, x[1])
      BY <3>1, <1>11
    <3>3. PICK f \in ixs : b = disk.file[f].indirect
      BY <2>1
    <3>4. disk.type[b] = BLOCK_INDEX
      BY <3>3, <1>10
    <3> QED BY <3>2, <3>4 DEF TypeFor, BLOCK_FILE, BLOCK_DATA, BLOCK_INDEX
  <2> HIDE DEF P, X
  <2> QED BY <2>1
<1>19. Cardinality(P \cup X) = Cardinality(pts) + Cardinality(ixs)
  <2> HIDE DEF P, X, pts, ixs
  <2>1. Cardinality(P \cap X) = 0
    BY <1>18, FS_EmptySet
  <2>2. Cardinality(pts) \in Nat /\ Cardinality(ixs) \in Nat
    BY <1>14, <1>15, FS_CardinalityType
  <2>3. Cardinality(P \cup X) = Cardinality(P) + Cardinality(X) - Cardinality(P \cap X)
    BY <1>16, <1>17, FS_Union
  <2> QED BY <2>1, <2>2, <2>3, <1>16, <1>17
<1>20. \A x \in pts : disk.type[BlockOf(x[1], x[2])] = IF disk.file[x[1]].kind = "DIR" THEN BLOCK_FILE ELSE BLOCK_DATA
  <2> HIDE DEF pts
  <2> QED BY <1>11 DEF TypeFor
<1>21. P \cup X = 2 + nbitblock .. disk.nextbno - 1
  BY <1>0, <1>12
<1>22. \A f \in ixs : disk.type[disk.file[f].indirect] = BLOCK_INDEX
  BY <1>10
<1> QED BY ONLY <1>19, <1>20, <1>21, <1>22 DEF BlocksOwnedOnce

(* Whatever was written is found.                                           *)
LEMMA ReadBack == FsInv => FilesReadBack
<1> SUFFICES ASSUME FsInv, fspc \in {"tree", "read", "done"}, NEW h \in host
             PROVE  /\ FileOf(h.name) \in Listed(FileOf(h.dir))
                    /\ h.kind = "REG" =>
                         /\ disk.file[FileOf(h.name)].size = h.size
                         /\ \A n \in BlocksOf(FileOf(h.name)) : disk.data[BlockOf(FileOf(h.name), n)] = <<h.name, n>>
  BY DEF FilesReadBack
<1>1. PICK cnt : cnt = Counts
  OBVIOUS
<1>2. FilesShape(disk, cnt) /\ HostShape(disk, cnt, host)
  BY <1>1 DEF FsInv, DiskShape
<1>3. \A f \in Place : BlocksOf(f) = 0 .. cnt[f] - 1 /\ \A n : BlockOf(f, n) = NthBlock(disk, f, n)
  BY <1>1, SameBlocks
<1>4. PICK f \in Place, g \in Place : OnDisk(disk, cnt, h, f, g)
  BY <1>2 DEF HostShape
<1>5. ASSUME NEW a \in Place, IsUsed(disk, a) PROVE FileOf(disk.file[a].name) = a
  <2>1. a \in Used /\ Used \subseteq Place
    BY <1>5 DEF Used, IsUsed
  <2>2. \A c \in Used : disk.file[c].name = disk.file[a].name => c = a
    BY <2>1, <1>2, <1>5 DEF FilesShape, NamesDiffer
  <2>3. FileOf(disk.file[a].name) \in Used /\ disk.file[FileOf(disk.file[a].name)].name = disk.file[a].name
    BY <2>1, Zenon DEF FileOf
  <2> QED BY <2>2, <2>3
<1>6. FileOf(h.name) = f /\ FileOf(h.dir) = g
  BY <1>4, <1>5 DEF OnDisk
<1>7. f \in Listed(g)
  <2>1. disk.file[g].size = cnt[g]
    BY <1>2, <1>4 DEF OnDisk, FilesShape, Directories
  <2>2. PICK n \in 0 .. cnt[g] - 1 : f[1] = NthBlock(disk, g, n)
    BY <1>4 DEF OnDisk
  <2>3. f[1] \in {BlockOf(g, m) : m \in 0 .. disk.file[g].size - 1}
    BY <2>1, <2>2, <1>3
  <2>4. f[2] \in 0 .. FILE2BLK - 1 /\ f = <<f[1], f[2]>>
    BY PlaceParts
  <2> QED BY <2>3, <2>4 DEF Listed
<1>8. h.kind = "REG" => /\ disk.file[f].size = h.size
                        /\ \A n \in BlocksOf(f) : disk.data[BlockOf(f, n)] = <<h.name, n>>
  BY <1>3, <1>4 DEF OnDisk
<1> QED BY <1>6, <1>7, <1>8

(* For every size of the disk, of its blocks and Files, and every tree of   *)
(* files: no block of the image is lost or shared (next_block,              *)
(* save_block_link), until the disk overruns or create_file takes an index  *)
(* block for a directory block.                                             *)
THEOREM ImageOwnsBlocks == FsSpec => []BlocksOwnedOnce
  BY FsInitInv, FsStepInv, OwnedOnce, PTL DEF FsSpec

(* Likewise: what fsformat was given is found in the image, block by block, *)
(* until create_file takes an index block for a directory block.            *)
THEOREM ImageHoldsFiles == FsSpec => []FilesReadBack
  BY FsInitInv, FsStepInv, ReadBack, PTL DEF FsSpec
-----------------------------------------------------------------------------
(***************************************************************************)
(* The bitmap and the order of the bytes.  flush_bitmap finds the bit of a *)
(* block by a block, a word and a bit of it; the word size divides the     *)
(* block size, so that this is the block's number.                         *)
(***************************************************************************)
LEMMA Multiple ==
  ASSUME NEW u \in Nat, u >= 1, NEW y \in Nat, y % u = 0
  PROVE  \E n \in Nat : y = n * u
<1>1. PICK n \in Nat, r \in 0 .. u - 1 : n = y \div u /\ r = y % u /\ n * u \in Nat /\ y = n * u + r
  BY Divide
<1>2. r = 0
  BY <1>1
<1>3. y = n * u
  BY <1>1, <1>2
<1> QED BY <1>3

(* A bit is found again from its block, its word and its place in it.       *)
LEMMA BitNumber ==
  ASSUME NEW y \in Nat
  PROVE  (y \div BLOCK_SIZE_BIT) * BLOCK_SIZE_BIT + ((y % BLOCK_SIZE_BIT) \div WORD) * WORD + (y % WORD) = y
<1>0. BLOCK_SIZE_BIT \in Nat /\ BLOCK_SIZE_BIT >= 1 /\ WORD \in Nat /\ WORD >= 1 /\ BLOCK_SIZE_BIT % WORD = 0
  BY FsNumbers, FsAssumption
<1>1. PICK sw \in Nat : BLOCK_SIZE_BIT = sw * WORD
  BY <1>0, Multiple
<1>2. PICK m \in Nat, r \in 0 .. BLOCK_SIZE_BIT - 1 :
        /\ m = y \div BLOCK_SIZE_BIT /\ r = y % BLOCK_SIZE_BIT /\ m * BLOCK_SIZE_BIT \in Nat
        /\ y = m * BLOCK_SIZE_BIT + r
  BY <1>0, Divide
<1>3. r \in Nat
  BY <1>0
<1>4. PICK k \in Nat, t \in 0 .. WORD - 1 :
        k = r \div WORD /\ t = r % WORD /\ k * WORD \in Nat /\ r = k * WORD + t
  BY <1>0, <1>3, Divide
<1>5. PICK j \in Nat : j = m * sw + k
  <2>1. m * sw + k \in Nat
    OBVIOUS
  <2> QED BY <2>1
<1>6. y = j * WORD + t
  <2>1. m * (sw * WORD) = (m * sw) * WORD
    BY <1>0
  <2>2. (m * sw + k) * WORD = (m * sw) * WORD + k * WORD
    BY <1>0
  <2>3. m * BLOCK_SIZE_BIT = (m * sw) * WORD
    BY <2>1, <1>1
  <2>4. (m * sw) * WORD \in Nat
    BY <2>3, <1>2
  <2>5. PICK whole \in Nat, part \in Nat : whole = (m * sw) * WORD /\ part = k * WORD
    BY <2>4, <1>4
  <2>6. j * WORD = whole + part
    BY <2>2, <2>5, <1>5
  <2>7. y = whole + r /\ r = part + t
    BY <2>3, <2>5, <1>2, <1>4
  <2>8. whole \in Nat /\ part \in Nat /\ t \in Int
    BY <2>5, <1>0
  <2>9. y = (whole + part) + t
    BY ONLY <2>7, <2>8
  <2> QED BY ONLY <2>6, <2>9
<1>7. y % WORD = t
  BY <1>0, <1>6, Quotient
<1>8. y = m * BLOCK_SIZE_BIT + k * WORD + t
  BY <1>0, <1>2, <1>4
<1>9. y \div BLOCK_SIZE_BIT = m /\ (y % BLOCK_SIZE_BIT) \div WORD = k
  BY <1>2, <1>4
<1> QED BY <1>7, <1>8, <1>9

(* init_disk clears the bits behind the last block and no others.           *)
LEMMA StartBits ==
  /\ nbitblock = (NBLOCK + BLOCK_SIZE_BIT - 1) \div BLOCK_SIZE_BIT
  /\ NBLOCK # nbitblock * BLOCK_SIZE_BIT =>
       (nbitblock - 1) * BLOCK_SIZE_BIT + ((NBLOCK % BLOCK_SIZE_BIT) \div BYTE) * BYTE = NBLOCK
  /\ nbitblock * BLOCK_SIZE_BIT \in Nat
  /\ NBLOCK <= nbitblock * BLOCK_SIZE_BIT
<1>0. /\ BLOCK_SIZE_BIT \in Nat /\ BLOCK_SIZE_BIT >= 1 /\ WORD \in Nat /\ WORD >= 1 /\ BYTE \in Nat /\ BYTE >= 1
      /\ NBLOCK \in Nat /\ BLOCK_SIZE_BIT % WORD = 0 /\ WORD % BYTE = 0 /\ NBLOCK % BYTE = 0
  BY FsNumbers, FsAssumption
<1>1. PICK bs : bs = BLOCK_SIZE_BIT
  OBVIOUS
<1>2. bs \in Nat /\ bs >= 1
  BY <1>0, <1>1
<1>3. nbitblock = (NBLOCK + bs - 1) \div bs
  BY <1>1 DEF nbitblock
<1>4. PICK m \in Nat, r \in 0 .. bs - 1 :
        m = NBLOCK \div bs /\ r = NBLOCK % bs /\ m * bs \in Nat /\ NBLOCK = m * bs + r
  BY <1>0, <1>2, Divide
<1>5. CASE r = 0
  <2>1. bs - 1 \in 0 .. bs - 1 /\ NBLOCK + bs - 1 = m * bs + (bs - 1)
    BY <1>0, <1>2, <1>4, <1>5
  <2>2. nbitblock = m
    BY <2>1, <1>2, <1>3, Quotient
  <2>3. NBLOCK = nbitblock * bs
    BY <2>2, <1>4, <1>5
  <2>4. nbitblock * bs \in Nat
    BY <2>3, <1>0
  <2> QED BY <2>3, <2>4, <1>0, <1>1, <1>3
<1>6. CASE r # 0
  <2>1. (m + 1) * bs = m * bs + bs
    BY <1>2
  <2>2. r - 1 \in 0 .. bs - 1 /\ m + 1 \in Nat /\ NBLOCK + bs - 1 = (m + 1) * bs + (r - 1)
    BY <2>1, <1>0, <1>2, <1>4, <1>6
  <2>3. nbitblock = m + 1
    <3>1. PICK n \in Nat : n = m + 1
      BY <2>2
    <3>2. (n * bs + (r - 1)) \div bs = n
      BY <3>1, <2>2, <1>2, Quotient
    <3> QED BY <3>1, <3>2, <2>2, <1>3
  <2>4. nbitblock * bs = m * bs + bs /\ nbitblock - 1 = m
    BY <2>1, <2>3
  <2>5. nbitblock * bs \in Nat /\ NBLOCK <= nbitblock * bs
    BY <2>4, <1>2, <1>4
  <2>6. (r \div BYTE) * BYTE = r
    <3>1. PICK sw \in Nat : bs = sw * WORD
      BY <1>0, <1>1, Multiple
    <3>2. PICK wb \in Nat : WORD = wb * BYTE
      BY <1>0, Multiple
    <3>3. r \in Nat
      BY <1>2
    <3>4. PICK k \in Nat, t \in 0 .. BYTE - 1 :
            k = r \div BYTE /\ t = r % BYTE /\ k * BYTE \in Nat /\ r = k * BYTE + t
      BY <3>3, <1>0, Divide
    <3>5. PICK a \in Nat : a = m * (sw * wb)
      <4>1. sw * wb \in Nat
        OBVIOUS
      <4>2. m * (sw * wb) \in Nat
        BY <4>1
      <4> QED BY <4>2
    <3>6. m * bs = a * BYTE
      <4>1. sw * (wb * BYTE) = (sw * wb) * BYTE
        BY <1>0
      <4>2. PICK c \in Nat : c = sw * wb
        OBVIOUS
      <4>3. bs = c * BYTE
        BY <4>1, <4>2, <3>1, <3>2
      <4>4. m * (c * BYTE) = (m * c) * BYTE
        BY <1>0
      <4> QED BY <4>2, <4>3, <4>4, <3>5
    <3>7. PICK j \in Nat : j = a + k
      OBVIOUS
    <3>8. j * BYTE = a * BYTE + k * BYTE
      BY <3>7, <1>0
    <3>9. NBLOCK = j * BYTE + t
      BY <3>4, <3>6, <3>8, <1>0, <1>4
    <3>10. t = 0
      BY <3>9, <1>0, Quotient
    <3>11. r = k * BYTE
      BY <3>4, <3>10
    <3> QED BY <3>4, <3>11
  <2>7. (nbitblock - 1) * bs + ((NBLOCK % bs) \div BYTE) * BYTE = NBLOCK
    BY <2>4, <2>6, <1>4
  <2> QED BY <2>5, <2>7, <1>1, <1>3
<1> QED BY <1>5, <1>6

(* The bits before flush_bitmap: those of the blocks of the disk are set.   *)
BitsSet == \A b \in Bit : bitmap[b] = IF b < NBLOCK THEN 1 ELSE 0

(* init_disk sets the bits of the blocks the disk has, and no others.       *)
LEMMA FsInitBits == FsInit => BitsSet
<1> SUFFICES ASSUME FsInit PROVE BitsSet
  OBVIOUS
<1>1. PICK thr : thr = (nbitblock - 1) * BLOCK_SIZE_BIT + ((NBLOCK % BLOCK_SIZE_BIT) \div BYTE) * BYTE
  OBVIOUS
<1>2. bitmap = [b \in Bit |-> IF NBLOCK # nbitblock * BLOCK_SIZE_BIT /\ b >= thr THEN 0 ELSE 1]
  BY <1>1 DEF FsInit, init_disk
<1>3. PICK total : total = nbitblock * BLOCK_SIZE_BIT
  OBVIOUS
<1>4. total \in Nat /\ NBLOCK \in Nat /\ Bit = 0 .. total - 1
  BY <1>3, StartBits, FsNumbers DEF Bit
<1>5. NBLOCK # total => thr = NBLOCK
  BY <1>1, <1>3, StartBits
<1>6. ASSUME NEW b \in Bit PROVE bitmap[b] = IF b < NBLOCK THEN 1 ELSE 0
  <2>1. bitmap[b] = IF NBLOCK # total /\ b >= thr THEN 0 ELSE 1
    BY <1>2, <1>3
  <2>2. b \in 0 .. total - 1
    BY <1>4
  <2> QED BY <2>1, <2>2, <1>4, <1>5
<1> QED BY <1>6 DEF BitsSet

(* flush_bitmap clears the bits of the blocks handed out.                   *)
LEMMA FlushBits ==
  ASSUME BitsSet, flush_bitmap, disk.nextbno \in Nat
  PROVE  \A b \in Bit : bitmap'[b] = IF b \in disk.nextbno .. NBLOCK - 1 THEN 1 ELSE 0
<1>0. NBLOCK \in Nat /\ Bit \subseteq Nat
  BY StartBits, FsNumbers DEF Bit
<1> DEFINE at(y) == (y \div BLOCK_SIZE_BIT) * BLOCK_SIZE_BIT + ((y % BLOCK_SIZE_BIT) \div WORD) * WORD + (y % WORD)
<1>1. bitmap' = [b \in Bit |-> IF \E y \in 0 .. disk.nextbno - 1 : at(y) = b THEN 0 ELSE bitmap[b]]
  BY DEF flush_bitmap
<1>2. \A y \in 0 .. disk.nextbno - 1 : at(y) = y
  <2> TAKE y \in 0 .. disk.nextbno - 1
  <2>1. y \in Nat
    OBVIOUS
  <2> QED BY <2>1, BitNumber
<1> HIDE DEF at
<1>3. ASSUME NEW b \in Bit PROVE bitmap'[b] = IF b \in disk.nextbno .. NBLOCK - 1 THEN 1 ELSE 0
  <2>1. bitmap'[b] = IF \E y \in 0 .. disk.nextbno - 1 : at(y) = b THEN 0 ELSE bitmap[b]
    BY <1>1
  <2>2. (\E y \in 0 .. disk.nextbno - 1 : at(y) = b) <=> b \in 0 .. disk.nextbno - 1
    BY <1>2
  <2>3. bitmap[b] = IF b < NBLOCK THEN 1 ELSE 0
    BY DEF BitsSet
  <2>4. b \in Nat
    BY <1>0
  <2> QED BY <2>1, <2>2, <2>3, <2>4, <1>0
<1> QED BY <1>3

(* The words of the block b: those of its Files, and its own if it holds    *)
(* numbers.                                                                 *)
FilesIn(b) == {f \in Used : f[1] = b}
OwnWords(b) == IF disk.type[b] \in {BLOCK_SUPER, BLOCK_BMAP, BLOCK_INDEX} THEN BlockWords(b) ELSE {}
FileWords(b) == UNION {WordsOf(f) : f \in FilesIn(b)}
WordsAt(b) == FileWords(b) \cup OwnWords(b)

(* The Files of a block are the ones reverse_block meets before it stops.   *)
LEMMA ReverseBlock ==
  ASSUME BlocksShape(disk, Counts), FilesShape(disk, Counts), TypesShape(disk), disk.nextbno <= NBLOCK,
         NEW b \in Block
  PROVE  reverse_block(b) = WordsAt(b)
<1>0. FIRST \in Nat /\ FIRST >= 3 /\ NBLOCK \in Nat /\ disk.nextbno \in Nat /\ FILE2BLK \in Nat /\ b \in Nat
  BY FsNumbers, DiskParts DEF BlocksShape, Block
<1> DEFINE F == FilesIn(b)
<1>f. \A f : f \in F <=> f \in Used /\ f[1] = b
  BY DEF FilesIn
<1>w. WordsAt(b) = FileWords(b) \cup OwnWords(b) /\ FileWords(b) = UNION {WordsOf(f) : f \in F}
  BY DEF WordsAt, FileWords
<1>1. \A f \in Place : f \in Used <=> IsUsed(disk, f)
  BY DEF Used, IsUsed
<1>2. Used \subseteq Place /\ Placed(disk) /\ FromFront(disk) /\ ROOT \in Used /\ ROOT[1] = 1
  BY <1>1, PlaceParts DEF Used, FilesShape, IsUsed, Unused
<1>3. \A f \in F : f = ROOT \/ disk.type[b] = BLOCK_FILE
  BY <1>f, <1>1, <1>2 DEF Placed
<1>4. disk.type[b] = BLOCK_SUPER => b = 1
  <2>1. \A c \in Block : c >= disk.nextbno => disk.type[c] = BLOCK_FREE
    BY DEF TypesShape
  <2>2. \A c \in FIRST .. disk.nextbno - 1 : disk.type[c] \in {BLOCK_INDEX, BLOCK_FILE, BLOCK_DATA}
    <3> TAKE c \in FIRST .. disk.nextbno - 1
    <3>1. PICK f \in Place : c = Index(disk, f) \/ \E n \in 0 .. Counts[f] - 1 : c = NthBlock(disk, f, n)
      BY DEF BlocksShape, NoneLost
    <3>2. CASE c = Index(disk, f)
      <4>1. c # 0
        BY <1>0
      <4> QED BY <3>2, <4>1 DEF BlocksShape, IndexesRight
    <3>3. CASE \E n \in 0 .. Counts[f] - 1 : c = NthBlock(disk, f, n)
      BY <3>3 DEF BlocksShape, PointersRight, TypeFor
    <3> QED BY <3>1, <3>2, <3>3
  <2>3. b = 0 \/ b = 1 \/ b \in 2 .. FIRST - 1 \/ b \in FIRST .. disk.nextbno - 1 \/ b >= disk.nextbno
    BY <1>0
  <2> QED BY <2>1, <2>2, <2>3 DEF TypesShape, BLOCK_SUPER, BLOCK_BOOT, BLOCK_BMAP, BLOCK_FREE, BLOCK_INDEX,
                               BLOCK_FILE, BLOCK_DATA
<1>5. disk.type[1] = BLOCK_SUPER
  BY DEF TypesShape
<1>6. CASE disk.type[b] = BLOCK_SUPER
  <2>1. b = 1
    BY <1>4, <1>6
  <2>2. F = {ROOT}
    <3>1. \A f \in F : f = ROOT
      BY <1>3, <1>6 DEF BLOCK_FILE, BLOCK_SUPER
    <3>2. ROOT \in F
      BY <2>1, <1>f, <1>2
    <3> HIDE DEF F
    <3> QED BY <3>1, <3>2
  <2>3. FileWords(b) = WordsOf(ROOT)
    <3> HIDE DEF F
    <3> QED BY <2>2, <1>w
  <2>4. reverse_block(b) = WordsOf(ROOT) \cup BlockWords(b)
    BY <1>6 DEF reverse_block, BLOCK_SUPER, BLOCK_FILE, BLOCK_BMAP, BLOCK_INDEX
  <2> HIDE DEF F
  <2>5. OwnWords(b) = BlockWords(b)
    BY <1>6 DEF OwnWords
  <2> QED BY <2>3, <2>4, <2>5 DEF WordsAt
<1>7. CASE disk.type[b] = BLOCK_FILE
  <2> DEFINE used(k) == \A j \in 0 .. k : disk.file[<<b, j>>].name # Unused
             K == {j \in 0 .. FILE2BLK - 1 : used(j)}
  <2>1. reverse_block(b) = UNION {WordsOf(<<b, k>>) : k \in K}
    BY <1>7 DEF reverse_block, BLOCK_SUPER, BLOCK_FILE, BLOCK_BMAP, BLOCK_INDEX
  <2>2. \A k \in K : <<b, k>> \in F
    <3> TAKE k \in K
    <3>1. k \in 0 .. FILE2BLK - 1 /\ k \in 0 .. k
      BY <1>0
    <3>2. IsUsed(disk, <<b, k>>)
      BY <3>1 DEF IsUsed
    <3>3. <<b, k>> \in Place
      BY <3>1, PlaceParts
    <3> QED BY <3>2, <3>3, <1>f, <1>1
  <2>3. \A f \in F : \E k \in K : f = <<b, k>>
    <3> TAKE f \in F
    <3>1. f \in Place /\ IsUsed(disk, f) /\ f[1] = b
      BY <1>f, <1>1, <1>2
    <3>2. f[2] \in 0 .. FILE2BLK - 1 /\ f = <<b, f[2]>>
      BY <3>1, PlaceParts
    <3>3. \A j \in 0 .. f[2] : IsUsed(disk, <<b, j>>)
      BY <3>1, <1>2 DEF FromFront
    <3>4. f[2] \in K
      BY <3>2, <3>3 DEF IsUsed
    <3> HIDE DEF K
    <3> QED BY <3>2, <3>4
  <2> HIDE DEF K, F
  <2>4. UNION {WordsOf(<<b, k>>) : k \in K} = UNION {WordsOf(f) : f \in F}
    BY <2>2, <2>3
  <2>5. WordsAt(b) = UNION {WordsOf(f) : f \in F}
    <3>1. OwnWords(b) = {}
      BY <1>7 DEF OwnWords, BLOCK_FILE, BLOCK_SUPER, BLOCK_BMAP, BLOCK_INDEX
    <3> QED BY <3>1, <1>w
  <2> QED BY <2>1, <2>4, <2>5
<1>8. CASE disk.type[b] # BLOCK_SUPER /\ disk.type[b] # BLOCK_FILE
  <2>1. F = {}
    <3>1. ASSUME NEW f \in F PROVE FALSE
      <4>1. f = ROOT
        BY <1>3, <1>8
      <4>2. b = 1
        BY <4>1, <1>f, <1>2
      <4> QED BY <4>2, <1>5, <1>8
    <3> HIDE DEF F
    <3> QED BY <3>1
  <2> HIDE DEF F
  <2>2. WordsAt(b) = IF disk.type[b] \in {BLOCK_BMAP, BLOCK_INDEX} THEN BlockWords(b) ELSE {}
    <3>1. OwnWords(b) = IF disk.type[b] \in {BLOCK_BMAP, BLOCK_INDEX} THEN BlockWords(b) ELSE {}
      BY <1>8 DEF OwnWords
    <3>2. FileWords(b) = {}
      BY <2>1, <1>w
    <3>3. WordsAt(b) = OwnWords(b)
      BY <3>2 DEF WordsAt
    <3> QED BY <3>1, <3>3
  <2>3. reverse_block(b) = IF disk.type[b] \in {BLOCK_INDEX, BLOCK_BMAP} THEN BlockWords(b) ELSE {}
    BY <1>8 DEF reverse_block
  <2> QED BY <2>2, <2>3
<1> QED BY <1>6, <1>7, <1>8

(* Blocks have no words in common.                                          *)
LEMMA WordsApart ==
  ASSUME NEW b \in Block, NEW x \in WordsAt(b)
  PROVE  x[1][1] = b
<1>1. CASE \E f \in FilesIn(b) : x \in WordsOf(f)
  BY <1>1 DEF WordsOf, FilesIn
<1>2. CASE x \in OwnWords(b)
  BY <1>2 DEF OwnWords, BlockWords
<1>3. (\E f \in FilesIn(b) : x \in WordsOf(f)) \/ x \in OwnWords(b)
  <2>1. x \in FileWords(b) => \E f \in FilesIn(b) : x \in WordsOf(f)
    BY DEF FileWords
  <2> QED BY <2>1 DEF WordsAt
<1> QED BY <1>1, <1>2, <1>3

(* The words of the first n blocks. *)
WordsUpTo(n) == UNION {WordsAt(b) : b \in 0 .. n - 1}

(* The loop of finish_fs reverses the words of every block once.            *)
LEMMA ReverseLoop ==
  ASSUME BlocksShape(disk, Counts), FilesShape(disk, Counts), TypesShape(disk), disk.nextbno <= NBLOCK,
         swapped = {}, finish_fs, CONFIG_REVERSE_ENDIAN
  PROVE  swapped' = WordsUpTo(NBLOCK)
<1>0. NBLOCK \in Nat
  BY FsNumbers
<1> DEFINE Is(f) == f = [k \in 0 .. NBLOCK |-> IF k = 0 THEN swapped ELSE reverse(f[k - 1], reverse_block(k - 1))]
<1>1. swapped' = (CHOOSE f : Is(f))[NBLOCK]
  BY DEF finish_fs
<1>2. WordsUpTo(0) = {}
  BY DEF WordsUpTo
<1>3. ASSUME NEW k \in 1 .. NBLOCK PROVE WordsUpTo(k) = reverse(WordsUpTo(k - 1), reverse_block(k - 1))
  <2>1. k - 1 \in Block
    BY <1>0 DEF Block
  <2>2. reverse_block(k - 1) = WordsAt(k - 1)
    BY <2>1, ReverseBlock
  <2>3. WordsUpTo(k) = WordsUpTo(k - 1) \cup WordsAt(k - 1)
    <3>1. 0 .. k - 1 = (0 .. (k - 1) - 1) \cup {k - 1}
      BY <1>0
    <3> QED BY <3>1 DEF WordsUpTo
  <2>4. WordsUpTo(k - 1) \cap WordsAt(k - 1) = {}
    <3>1. ASSUME NEW x, x \in WordsUpTo(k - 1), x \in WordsAt(k - 1) PROVE FALSE
      <4>1. PICK b \in 0 .. (k - 1) - 1 : x \in WordsAt(b)
        BY <3>1 DEF WordsUpTo
      <4>2. b \in Block /\ b # k - 1
        BY <1>0 DEF Block
      <4>3. x[1][1] = b
        BY <4>1, <4>2, WordsApart
      <4>4. x[1][1] = k - 1
        BY <2>1, <3>1, WordsApart
      <4> QED BY <4>2, <4>3, <4>4
    <3> QED BY <3>1
  <2> QED BY <2>2, <2>3, <2>4 DEF reverse
<1>4. \E f : Is(f)
  <2>1. PICK f : f = [k \in 0 .. NBLOCK |-> WordsUpTo(k)]
    OBVIOUS
  <2>2. \A k \in 0 .. NBLOCK : WordsUpTo(k) = IF k = 0 THEN swapped ELSE reverse(f[k - 1], reverse_block(k - 1))
    <3>1. \A k \in 1 .. NBLOCK : f[k - 1] = WordsUpTo(k - 1)
      BY <2>1, <1>0
    <3> QED BY <3>1, <1>0, <1>2, <1>3
  <2>3. Is(f)
    BY <2>1, <2>2
  <2> QED BY <2>3
<1>5. PICK f : f = (CHOOSE h : Is(h)) /\ Is(f)
  <2> HIDE DEF Is
  <2> QED BY <1>4
<1>6. \A k \in 0 .. NBLOCK : f[k] = IF k = 0 THEN swapped ELSE reverse(f[k - 1], reverse_block(k - 1))
  <2>1. Is(f)
    BY <1>5
  <2> QED BY ONLY <2>1
<1>7. f[NBLOCK] = WordsUpTo(NBLOCK)
  <2> DEFINE Good == {k \in 0 .. NBLOCK : f[k] = WordsUpTo(k)}
  <2> HIDE DEF Is
  <2>1. 0 \in Good
    BY <1>0, <1>2, <1>6
  <2>2. \A k \in 1 .. NBLOCK : k - 1 \in Good => k \in Good
    <3> SUFFICES ASSUME NEW k \in 1 .. NBLOCK, f[k - 1] = WordsUpTo(k - 1) PROVE f[k] = WordsUpTo(k)
      BY <1>0
    <3>1. k \in 0 .. NBLOCK /\ k # 0
      BY <1>0
    <3>2. f[k] = reverse(f[k - 1], reverse_block(k - 1))
      BY <3>1, <1>6
    <3> QED BY <3>2, <1>3
  <2>3. \A k \in 0 .. NBLOCK : k \in Good
    <3> HIDE DEF Good
    <3> QED BY <2>1, <2>2, <1>0, Rounds
  <2>4. NBLOCK \in 0 .. NBLOCK
    BY <1>0
  <2> QED BY <2>3, <2>4
<1> QED BY <1>1, <1>5, <1>7

(* These are all numbers of the image.                                      *)
LEMMA AllWords ==
  ASSUME BlocksShape(disk, Counts), FilesShape(disk, Counts), TypesShape(disk), disk.nextbno <= NBLOCK
  PROVE  WordsUpTo(NBLOCK) =
           (UNION {WordsOf(f) : f \in Used})
             \cup (UNION {BlockWords(b) : b \in {c \in Block : disk.type[c] \in {BLOCK_SUPER, BLOCK_BMAP, BLOCK_INDEX}}})
<1>0. FIRST \in Nat /\ FIRST >= 3 /\ NBLOCK \in Nat /\ FIRST <= NBLOCK /\ disk.nextbno \in Nat
  BY FsNumbers, DiskParts DEF BlocksShape
<1> DEFINE C == {c \in Block : disk.type[c] \in {BLOCK_SUPER, BLOCK_BMAP, BLOCK_INDEX}}
           A == UNION {WordsOf(f) : f \in Used}
           B == UNION {BlockWords(b) : b \in C}
<1>1. \A b \in 0 .. NBLOCK - 1 : b \in Block
  BY <1>0 DEF Block
<1>2. \A b \in 0 .. NBLOCK - 1 : WordsAt(b) \subseteq A \cup B
  <2> TAKE b \in 0 .. NBLOCK - 1
  <2>1. FilesIn(b) \subseteq Used
    BY DEF FilesIn
  <2>2. \A x \in OwnWords(b) : b \in C /\ x \in BlockWords(b)
    BY <1>1 DEF OwnWords
  <2>3. FileWords(b) \subseteq A
    BY <2>1 DEF FileWords
  <2>4. OwnWords(b) \subseteq B
    <3> HIDE DEF C
    <3> QED BY <2>2
  <2> HIDE DEF A, B
  <2> QED BY <2>3, <2>4 DEF WordsAt
<1>3. \A f \in Used : f[1] \in 0 .. NBLOCK - 1
  <2> TAKE f \in Used
  <2>1. f = ROOT \/ f[1] \in FIRST .. disk.nextbno - 1
    BY DEF FilesShape, Placed, IsUsed, Used
  <2> QED BY <2>1, <1>0, PlaceParts
<1>4. \A c \in C : c \in 0 .. NBLOCK - 1
  <2>1. \A c \in C : ~(c >= disk.nextbno)
    BY DEF TypesShape, BLOCK_FREE, BLOCK_SUPER, BLOCK_BMAP, BLOCK_INDEX
  <2>2. C \subseteq Block
    OBVIOUS
  <2> HIDE DEF C
  <2> QED BY <2>1, <2>2, <1>0 DEF Block
<1>5. \A f \in Used : WordsOf(f) \subseteq WordsAt(f[1])
  <2>1. \A f \in Used : WordsOf(f) \subseteq FileWords(f[1])
    BY DEF FileWords, FilesIn
  <2> QED BY <2>1 DEF WordsAt
<1>6. \A c \in C : BlockWords(c) \subseteq WordsAt(c)
  <2>1. \A c \in C : OwnWords(c) = BlockWords(c)
    BY DEF OwnWords
  <2> HIDE DEF C
  <2> QED BY <2>1 DEF WordsAt
<1>7. \A b \in 0 .. NBLOCK - 1 : WordsAt(b) \subseteq WordsUpTo(NBLOCK)
  BY DEF WordsUpTo
<1>8. WordsUpTo(NBLOCK) \subseteq A \cup B
  <2> HIDE DEF A, B
  <2> QED BY <1>2 DEF WordsUpTo
<1>9. A \cup B \subseteq WordsUpTo(NBLOCK)
  <2> HIDE DEF C
  <2>1. \A f \in Used : WordsOf(f) \subseteq WordsUpTo(NBLOCK)
    BY <1>3, <1>5, <1>7
  <2>2. \A c \in C : BlockWords(c) \subseteq WordsUpTo(NBLOCK)
    BY <1>4, <1>6, <1>7
  <2>3. A \subseteq WordsUpTo(NBLOCK)
    BY <2>1
  <2>4. B \subseteq WordsUpTo(NBLOCK)
    BY <2>2
  <2> HIDE DEF A, B
  <2> QED BY <2>3, <2>4
<1>10. WordsUpTo(NBLOCK) = A \cup B
  <2> HIDE DEF A, B
  <2> QED BY <1>8, <1>9
<1> QED BY <1>10

(* Until main ends the bitmap and the bytes are as they were at the start.  *)
ImageInv ==
  /\ fspc \in {"tree", "read"} => BitsSet /\ swapped = {}
  /\ ImageExact

(* Every step of main keeps the bitmap and the order of bytes right.        *)
LEMMA ImageStep == FsInv /\ ImageInv /\ [FsNext]_fsvars => ImageInv'
<1> SUFFICES ASSUME FsInv, ImageInv, [FsNext]_fsvars PROVE ImageInv'
  OBVIOUS
<1>1. ASSUME fspc \in {"tree", "read"}, fspc' # "done", UNCHANGED <<bitmap, swapped>> PROVE ImageInv'
  BY <1>1 DEF ImageInv, BitsSet, ImageExact
<1>2. ASSUME NEW kd, NEW sz, NEW nxt, Enter(kd, sz, nxt) PROVE fspc' \in {"overlaid", "overrun", nxt}
  BY <1>2 DEF Enter
<1>3. ASSUME NEW sz, write_file(sz) PROVE ImageInv'
  <2>1. /\ fspc = "tree" /\ Enter("REG", sz, IF sz > 0 THEN "read" ELSE "tree") /\ UNCHANGED <<bitmap, swapped>>
    BY <1>3 DEF write_file
  <2>2. PICK nxt : nxt = IF sz > 0 THEN "read" ELSE "tree"
    OBVIOUS
  <2>3. fspc' \in {"overlaid", "overrun", nxt}
    BY <2>1, <2>2, <1>2
  <2>4. fspc' # "done"
    BY <2>2, <2>3
  <2> QED BY <2>1, <2>4, <1>1
<1>4. CASE write_directory
  <2>1. fspc = "tree" /\ Enter("DIR", 0, "tree") /\ UNCHANGED <<bitmap, swapped>>
    BY <1>4 DEF write_directory
  <2>2. fspc' \in {"overlaid", "overrun", "tree"}
    BY <2>1, <1>2
  <2>3. fspc' # "done"
    BY <2>2
  <2> QED BY <2>1, <2>3, <1>1
<1>5. CASE ReadBlock
  <2>1. fspc = "read" /\ fspc' \in {"assert", "overrun", "tree", "read"} /\ UNCHANGED <<bitmap, swapped>>
    BY <1>5 DEF ReadBlock
  <2>2. fspc' # "done"
    BY <2>1
  <2> QED BY <2>1, <2>2, <1>1
<1>6. CASE closedir
  BY <1>1, <1>6 DEF closedir
<1>7. CASE Refuse
  BY <1>1, <1>7 DEF Refuse
<1>8. CASE Finish
  <2>1. fspc = "tree" /\ fspc' \in {"done", "assert"} /\ disk' = disk /\ flush_bitmap /\ finish_fs
    BY <1>8 DEF Finish, finish_fs
  <2>2. BitsSet /\ swapped = {}
    BY <2>1 DEF ImageInv
  <2>3. BlocksShape(disk, Counts) /\ FilesShape(disk, Counts) /\ TypesShape(disk) /\ disk.nextbno <= NBLOCK
    BY <2>1 DEF FsInv, DiskShape
  <2>4. disk.nextbno \in Nat
    BY <2>3, DiskParts DEF BlocksShape
  <2>5. \A b \in Bit : bitmap'[b] = IF b \in disk.nextbno .. NBLOCK - 1 THEN 1 ELSE 0
    BY <2>1, <2>2, <2>4, FlushBits
  <2>6. CONFIG_REVERSE_ENDIAN =>
          swapped' = (UNION {WordsOf(f) : f \in Used})
            \cup (UNION {BlockWords(b) : b \in {c \in Block : disk.type[c] \in {BLOCK_SUPER, BLOCK_BMAP, BLOCK_INDEX}}})
    BY <2>1, <2>2, <2>3, ReverseLoop, AllWords
  <2>7. Used' = Used
    BY <2>1 DEF Used
  <2>8. ImageExact'
    BY ONLY <2>1, <2>5, <2>6, <2>7 DEF ImageExact
  <2> QED BY <2>1, <2>8 DEF ImageInv
<1>9. CASE UNCHANGED fsvars
  BY <1>9 DEF fsvars, ImageInv, BitsSet, ImageExact, Used
<1> QED BY <1>3, <1>4, <1>5, <1>6, <1>7, <1>8, <1>9 DEF FsNext

(* Likewise: the image fsformat writes, if it comes to write one, has the   *)
(* bitmap of its free blocks, and all its numbers are reversed if they      *)
(* should be (flush_bitmap, reverse_block, finish_fs).                      *)
THEOREM ImageIsExact == FsSpec => []ImageExact
<1>1. FsInit => ImageInv
  <2> SUFFICES ASSUME FsInit PROVE ImageInv
    OBVIOUS
  <2>1. fspc = "tree" /\ swapped = {}
    BY DEF FsInit
  <2> QED BY <2>1, FsInitBits DEF ImageInv, ImageExact
<1>2. ImageInv => ImageExact
  BY DEF ImageInv
<1> QED BY <1>1, <1>2, FsInitInv, FsStepInv, ImageStep, PTL DEF FsSpec
=============================================================================
