------------------------------- MODULE FetchStage ------------------------------
(***************************************************************************)
(* The fetch stage, clock cycle by clock cycle: the prefetch buffer on an  *)
(* instruction bus that grants and answers when it likes, the IF/ID        *)
(* register, what the controller asks of the stage from reset to sleep,    *)
(* and the clock gate of the core.                                         *)
(***************************************************************************)
EXTENDS PrefetchBuffer, FiniteSets

CONSTANTS
  Boot,         \* the boot address
  Targets,      \* the addresses that jumps, branches and traps go to
  None

ASSUME FetchAssumption == Boot \in Halves /\ Targets \subseteq Halves /\ NumReqs = 2

VARIABLES
  ctrl_fsm,             \* the controller; "RUN" is any state but the four of reset and sleep
  id,                   \* the IF/ID register; None while instr_valid_id_q is clear
  core_busy_q,          \* keeps the clock of the core running
  pending,              \* the bus: the words granted and not yet answered
  waiting,              \* history: the word the bus was asked for and has not granted
  turn                  \* history: flips with every instruction, redirection and reset

stageVars == <<ctrl_fsm, id, core_busy_q>>
vars == <<image, prefetchVars, stageVars, pending, waiting, turn>>

CtrlStates == {"RESET", "BOOT_SET", "RUN", "WAIT_SLEEP", "SLEEP"}

TypeOK ==
  /\ image \in Images /\ PrefetchTypeOK
  /\ ctrl_fsm \in CtrlStates /\ core_busy_q \in BOOLEAN
  /\ id \in {Instruction(image, h) : h \in Halves} \cup {None}
  /\ pending \in Seq(0 .. Size - 1) /\ waiting \in (0 .. Size - 1) \cup {None}
  /\ turn \in {0, 1}

\* The addresses are not reset.
Init ==
  /\ image \in Images
  /\ entries = <<>> /\ valid_req_q = FALSE /\ discard_req_q = FALSE /\ outstanding = <<>>
  /\ instr_addr \in Targets /\ stored_addr \in Targets /\ fetch_addr \in Targets
  /\ ctrl_fsm = "RESET" /\ id = None /\ core_busy_q = FALSE
  /\ pending = <<>> /\ waiting = None /\ turn = 0

--------------------------------------------------------------------------------
(* The instruction bus.                                                    *)

\* The answers possible in a cycle: none, or the oldest request's.
Answers ==
  {<<>>} \cup (IF pending = <<>> THEN {}
               ELSE {<<[at |-> Head(pending), err |-> Head(pending) \in image.bad]>>})

\* It grants a request and answers an earlier one.
Bus(asks, at, gnt, answer) ==
  /\ gnt => asks
  /\ pending' = (IF answer = <<>> THEN pending ELSE Tail(pending))
                  \o (IF gnt THEN <<at>> ELSE <<>>)
  /\ waiting' = IF asks /\ ~gnt THEN at ELSE None

--------------------------------------------------------------------------------
(* The stage and the controller.                                           *)

\* The IF/ID register takes what the FIFO hands out unless the redirection of
\* this cycle squashes it.
ToId(in, ready, clear, branch) ==
  LET out == ready /\ OutValid(in)
  IN  /\ id' = IF out /\ branch # "set" THEN Out(in) ELSE IF clear THEN None ELSE id
      /\ turn' = IF out \/ branch = "set" THEN 1 - turn ELSE turn

\* ctrl_busy_o, before core_busy_q.
CtrlBusy == ctrl_fsm # "WAIT_SLEEP" /\ (ctrl_fsm = "SLEEP" => ctrl_fsm' = "RUN")

\* A cycle of the core with instr_req_o, id_in_ready_o, instr_valid_clear_o and
\* pc_set of the controller.
CycleWith(req, ready, clear, branch, addr, gnt, answer) ==
  /\ PrefetchStep(req, ready, branch, addr, gnt, answer)
  /\ ToId(FifoIn(answer), ready, clear, branch)
  /\ Bus(ValidReq(req, branch), WordOf(InstrAddr(branch, addr)), gnt, answer)
  /\ core_busy_q' = (CtrlBusy \/ Busy(req, branch))
  /\ UNCHANGED image

Cycle(req, ready, clear, branch, addr) ==
  \E gnt \in BOOLEAN, answer \in Answers :
    CycleWith(req, ready, clear, branch, addr, gnt, answer)

\* Out of reset: the boot address is set twice, the second time with a request.
BootReset ==
  /\ core_busy_q /\ ctrl_fsm = "RESET" /\ ctrl_fsm' = "BOOT_SET"
  /\ Cycle(FALSE, TRUE, TRUE, "set", Boot)

BootSet ==
  /\ core_busy_q /\ ctrl_fsm = "BOOT_SET" /\ ctrl_fsm' = "RUN"
  /\ Cycle(TRUE, TRUE, TRUE, "set", Boot)

\* The ID stage takes an instruction only in a cycle in which its own leaves or
\* there is none; a redirection may come at any time.
Run ==
  /\ core_busy_q /\ ctrl_fsm = "RUN" /\ ctrl_fsm' = "RUN"
  /\ \E ready, clear \in BOOLEAN, branch \in {"none", "spec", "set"}, addr \in Targets :
       /\ ready => clear
       /\ Cycle(TRUE, ready, clear, branch, addr)

\* FLUSH with a wfi, then WAIT_SLEEP, then SLEEP until an interrupt is pending.
Wfi ==
  /\ core_busy_q /\ ctrl_fsm = "RUN" /\ id # None /\ ctrl_fsm' = "WAIT_SLEEP"
  /\ Cycle(TRUE, FALSE, TRUE, "none", Boot)

WaitSleep ==
  /\ core_busy_q /\ ctrl_fsm = "WAIT_SLEEP" /\ ctrl_fsm' = "SLEEP"
  /\ Cycle(FALSE, FALSE, TRUE, "none", Boot)

Asleep ==
  /\ core_busy_q /\ ctrl_fsm = "SLEEP" /\ ctrl_fsm' = "SLEEP"
  /\ Cycle(FALSE, FALSE, TRUE, "none", Boot)

\* An interrupt that is pending opens the clock gate and ends the sleep.
WakeUp ==
  /\ ctrl_fsm = "SLEEP" /\ ctrl_fsm' = "RUN"
  /\ Cycle(FALSE, FALSE, TRUE, "none", Boot)

\* The clock gate is shut: the bus goes on, core_busy_q is on the free clock.
Gated ==
  /\ ~core_busy_q /\ UNCHANGED <<image, prefetchVars, ctrl_fsm, id, turn>>
  /\ LET req == ctrl_fsm \notin {"RESET", "WAIT_SLEEP", "SLEEP"}
     IN  /\ \E gnt \in BOOLEAN, answer \in Answers :
              Bus(ValidReq(req, "none"), WordOf(InstrAddr("none", Boot)), gnt, answer)
         /\ core_busy_q' = (CtrlBusy \/ Busy(req, "none"))

Clock == BootReset \/ BootSet \/ Run \/ Wfi \/ WaitSleep \/ Asleep \/ WakeUp \/ Gated

\* The reset of core and bus.
Reset ==
  /\ PrefetchReset
  /\ ctrl_fsm' = "RESET" /\ id' = None /\ core_busy_q' = FALSE
  /\ pending' = <<>> /\ waiting' = None /\ turn' = 1 - turn
  /\ UNCHANGED image

Next == Clock \/ Reset

\* A cycle in which the bus grants and answers, and the ID stage takes what comes.
Obliging ==
  /\ core_busy_q /\ ctrl_fsm = "RUN" /\ ctrl_fsm' = "RUN"
  /\ \E answer \in Answers :
       /\ pending # <<>> => answer # <<>>
       /\ CycleWith(TRUE, TRUE, TRUE, "none", Boot, ValidReq(TRUE, "none"), answer)

\* The clock runs; nothing is assumed of the interrupt that ends a sleep.
Ticks == ctrl_fsm # "SLEEP" /\ Clock

Spec     == Init /\ [][Next]_vars
FairSpec == Spec /\ WF_vars(Ticks) /\ SF_vars(Obliging)

--------------------------------------------------------------------------------
(* Properties                                                              *)

\* The prefetch buffer knows how many answers are still to come: none is lost
\* behind the shut clock gate (ibex_core.sv:397: "Before going to sleep, wait for
\* I- and D-side interfaces to finish ongoing operations"), none is awaited that
\* does not come.
AnswersAreAwaited == Len(pending) = Len(outstanding)

\* "Must not push to FIFO when full" (ibex_fetch_fifo.sv:246): whenever an answer
\* may come that is not to be discarded, an entry is free for it, for the words
\* ahead of it may all be stuck behind a stalled ID stage.
NeverOverflows ==
  LET kept == {i \in DOMAIN outstanding : ~outstanding[i]}
  IN  Len(entries) + Cardinality(kept) <= Depth

\* A request that was not granted stays on the bus with its address
\* (ibex_prefetch_buffer.sv:174: "It stays stable until the request is granted"),
\* through branches, sleep and a shut clock gate.
RequestHeld == waiting # None => valid_req_q /\ waiting = WordOf(stored_addr)

\* The fetch stage hands the ID stage the instructions from the last redirection
\* on, one after the other and whole, with the errors of their own words, never
\* one fetched before a redirection; pc_if is at any time the address of the next
\* one, which is what an interrupt saves; and a core that is awake gets on.
Stream == INSTANCE InstrStream WITH
  pc <- instr_addr, asleep <- ctrl_fsm \in {"WAIT_SLEEP", "SLEEP"}
ImplementsStream == Stream!FairSpec
================================================================================
