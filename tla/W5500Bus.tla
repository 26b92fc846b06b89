------------------------------- MODULE W5500Bus -------------------------------
(***************************************************************************)
(* Frames to the W5500 (w5500.c).  Every access to the chip is a frame:    *)
(* chip select low, a header that names a register and a direction, data   *)
(* bytes for that register and the following ones, chip select high.       *)
(* Tasks of several priorities and EXTI3_IRQHandler make them on one bus.  *)
(* WIZCHIP_CRITICAL_ENTER and _EXIT call two callbacks; Protected tells    *)
(* whether functions that hold off interrupts are registered for them.     *)
(* w5500_lib_init registers none, so that in this firmware the callbacks   *)
(* are the empty wizchip_cris_enter and wizchip_cris_exit.                 *)
(***************************************************************************)
EXTENDS Naturals

CONSTANTS
  Users,      \* the handler and the tasks
  Rank,       \* who of them preempts whom
  NRegs,      \* the chip's registers are 0..NRegs-1
  Values,     \* what the callers write
  None,       \* no operation, no frame
  Junk,       \* a byte that no caller meant as data
  Protected

ASSUME BusAssumption ==
  /\ Rank \in [Users -> Nat]
  /\ \A u, v \in Users : Rank[u] = Rank[v] => u = v
  /\ NRegs \in Nat \ {0}
  /\ Junk \notin Values
  /\ Protected \in BOOLEAN

Regs == 0..NRegs - 1

Bytes == Values \cup {Junk}

\* WIZCHIP_READ and WIZCHIP_WRITE are the operations of length one.
Ops == {o \in [reg : Regs, len : 1..NRegs, write : BOOLEAN, val : Values] :
          o.reg + o.len <= NRegs}

Frames == [pos : Regs, write : BOOLEAN]

ASSUME NoneAssumption == None \notin Ops \cup Frames

VARIABLES
  step, op, left,  \* per user: where it is, what it does, data bytes to go
  got,           \* per user: the byte read last
  masked,        \* interrupts are held off
  selected,      \* chip select is low
  frame,         \* the chip: the frame it is in
  regs           \* the chip: its registers

caller == <<step, op, left, got, masked>>
chip == <<selected, frame, regs>>
busVars == <<caller, chip>>

BusInit ==
  /\ step = [u \in Users |-> "idle"]
  /\ op = [u \in Users |-> None]
  /\ left = [u \in Users |-> 0]
  /\ got = [u \in Users |-> Junk]
  /\ masked = FALSE
  /\ selected = FALSE
  /\ frame = None
  /\ regs \in [Regs -> Values]

\* Whoever preempted u has finished.
Runs(u) == \A v \in Users : step[v] # "idle" => Rank[v] <= Rank[u]

At(u, here, next) ==
  /\ Runs(u)
  /\ step[u] = here
  /\ step' = [step EXCEPT ![u] = next]

-----------------------------------------------------------------------------
(* The chip: a byte b clocked in while it is selected.                     *)

\* The first byte of a frame is its header, here that of operation o; what
\* the chip is sent after it is data, whoever sends it.
Next_pos == IF frame.pos + 1 < NRegs THEN frame.pos + 1 ELSE 0

ChipByte(b) ==
  IF selected /\ frame # None
  THEN /\ frame' = [frame EXCEPT !.pos = Next_pos]
       /\ regs' = IF frame.write THEN [regs EXCEPT ![frame.pos] = b] ELSE regs
  ELSE UNCHANGED <<frame, regs>>

\* What the chip puts on the bus meanwhile.
ChipOut == IF selected /\ frame # None /\ ~frame.write
           THEN regs[frame.pos] ELSE Junk
-----------------------------------------------------------------------------
(* A call of WIZCHIP_READ, _WRITE, _READ_BUF or _WRITE_BUF.                *)

\* Mutant: interrupts stay on.
CriticalEnter_Open(u, o) ==
  /\ ~masked
  /\ At(u, "idle", "select")
  /\ op' = [op EXCEPT ![u] = o]
  /\ left' = [left EXCEPT ![u] = o.len]
  /\ UNCHANGED <<got, masked, chip>>

CriticalEnter(u, o) ==
  /\ ~masked
  /\ At(u, "idle", "select")
  /\ op' = [op EXCEPT ![u] = o]
  /\ left' = [left EXCEPT ![u] = o.len]
  /\ masked' = Protected
  /\ UNCHANGED <<got, chip>>

\* A falling edge begins a frame; there is none if the line is low already.
Select(u) ==
  /\ At(u, "select", "header")
  /\ selected' = TRUE
  /\ frame' = IF selected THEN frame ELSE None
  /\ UNCHANGED <<op, left, got, masked, regs>>

\* The three bytes of address and control.
Header(u) ==
  /\ At(u, "header", "data")
  /\ IF selected /\ frame = None
     THEN /\ frame' = [pos |-> op[u].reg, write |-> op[u].write]
          /\ UNCHANGED regs
     ELSE ChipByte(Junk)
  /\ UNCHANGED <<op, left, got, masked, selected>>

\* One byte out or in; _read_byte clocks out a byte of no meaning.
Data(u) ==
  /\ At(u, "data", IF left[u] = 1 THEN "deselect" ELSE "data")
  /\ left' = [left EXCEPT ![u] = @ - 1]
  /\ got' = [got EXCEPT ![u] = ChipOut]
  /\ ChipByte(IF op[u].write THEN op[u].val ELSE Junk)
  /\ UNCHANGED <<op, masked, selected>>

\* wizchip_deselect's last byte finds the chip not selected.
Deselect(u) ==
  /\ At(u, "deselect", "exit")
  /\ selected' = FALSE
  /\ frame' = None
  /\ UNCHANGED <<op, left, got, masked, regs>>

\* The call's locals are gone.
CriticalExit(u) ==
  /\ At(u, "exit", "idle")
  /\ masked' = FALSE
  /\ op' = [op EXCEPT ![u] = None]
  /\ got' = [got EXCEPT ![u] = Junk]
  /\ UNCHANGED <<left, chip>>

BusNext == \E u \in Users :
  \/ \E o \in Ops : CriticalEnter(u, o)
  \/ Select(u) \/ Header(u) \/ Data(u) \/ Deselect(u) \/ CriticalExit(u)

BusSpec == BusInit /\ [][BusNext]_busVars
-----------------------------------------------------------------------------
(* Properties.                                                             *)

\* Every variable keeps its type.
BusTypeOK ==
  /\ step \in [Users -> {"idle", "select", "header", "data", "deselect", "exit"}]
  /\ op \in [Users -> Ops \cup {None}]
  /\ left \in [Users -> 0..NRegs]
  /\ got \in [Users -> Bytes]
  /\ {masked, selected} \subseteq BOOLEAN
  /\ frame \in Frames \cup {None}
  /\ regs \in [Regs -> Bytes]

\* The register that u's next byte is meant for.
Target(u) == op[u].reg + (op[u].len - left[u])

DataStep(u) == step[u] = "data" /\ left'[u] # left[u]

\* The callbacks "help not to access wrong address" (wizchip_conf.c:65):
\* every byte written goes to the register the caller named, every byte read
\* comes from there, and nothing else changes a register.
WholeFrames ==
  [][ /\ \A u \in Users : DataStep(u) =>
           IF op[u].write
           THEN regs' = [regs EXCEPT ![Target(u)] = op[u].val]
           ELSE regs' = regs /\ got'[u] = regs[Target(u)]
      /\ (\A u \in Users : ~DataStep(u)) => regs' = regs ]_busVars
=============================================================================
