----------------------------- MODULE LoadStoreUnit -----------------------------
(***************************************************************************)
(* ibex_load_store_unit and the part of the ID stage that drives it        *)
(* (WritebackStage = 0): an access is requested in the first cycle of its  *)
(* instruction, which then stays in the ID stage until lsu_resp_valid.     *)
(* A misaligned access goes out as two requests, one word after another.   *)
(*                                                                         *)
(* The bus is not here: every action has the bus signals of the cycle as   *)
(* parameters (gnt, rvalid, rdata, err). There is no PMP in this core, so  *)
(* pmp_err_q is always 0 and is left out.                                  *)
(***************************************************************************)
EXTENDS MemAccess

CONSTANT Accesses    \* the loads and stores a program makes

ASSUME AccessesAssumption == Accesses \subseteq Access

VARIABLES
  acc,      \* the access of the instruction in the ID stage, or NoAccess
  first,    \* instr_first_cycle
  lsu       \* the registers of the unit

lsuVars == <<acc, first, lsu>>

FsmStates == {"IDLE", "WAIT_GNT_MIS", "WAIT_RVALID_MIS", "WAIT_GNT",
              "WAIT_RVALID_MIS_GNTS_DONE"}

\* addr_last_q is kept by its word number: its byte offset is the access's own.
\* Lane 0 of rdata_q is not in the source, and not used.
LsuType ==
  [cs : FsmStates, handle_misaligned : BOOLEAN, lsu_err : BOOLEAN,
   rdata_q : Word, rdata_offset : Lane, data_type : {1, 2, 4},
   sign_ext : BOOLEAN, we : BOOLEAN, float : BOOLEAN, addr_last : WordNo]

LsuTypeOK ==
  /\ acc \in Accesses \cup {NoAccess}
  /\ first \in BOOLEAN
  /\ lsu \in LsuType

LsuReset ==
  [cs |-> "IDLE", handle_misaligned |-> FALSE, lsu_err |-> FALSE,
   rdata_q |-> [i \in Lane |-> 0], rdata_offset |-> 0, data_type |-> 4,
   sign_ext |-> FALSE, we |-> FALSE, float |-> FALSE, addr_last |-> 0]

LsuInit == acc = NoAccess /\ first = TRUE /\ lsu = LsuReset

--------------------------------------------------------------------------------
(* The request of this cycle.                                              *)

LsuReq == acc # NoAccess /\ first

DataReq == LsuReq \/ lsu.cs \in {"WAIT_GNT_MIS", "WAIT_RVALID_MIS", "WAIT_GNT"}

\* addr_incr_req: the address comes from addr_last + 4 instead of the operands.
AddrIncr == \/ lsu.cs \in {"WAIT_RVALID_MIS", "WAIT_RVALID_MIS_GNTS_DONE"}
            \/ lsu.cs = "WAIT_GNT" /\ lsu.handle_misaligned

DataAddr == [word |-> IF AddrIncr THEN NextWord(lsu.addr_last) ELSE acc.word,
             off  |-> acc.off]

Request == [addr |-> DataAddr, we |-> acc.we,
            be |-> DataBe(acc, lsu.handle_misaligned), wdata |-> DataWdata(acc)]

--------------------------------------------------------------------------------
(* One clock edge, by state.                                               *)

\* ctrl_update: what the answer will be decoded by.
Controlled == [lsu EXCEPT !.rdata_offset = acc.off, !.data_type = acc.size,
                          !.sign_ext = acc.sext, !.we = acc.we, !.float = acc.float]

Quiet ==
  /\ lsu.cs = "IDLE" /\ ~LsuReq
  /\ lsu' = lsu

Idle(gnt) ==
  /\ lsu.cs = "IDLE" /\ LsuReq
  /\ lsu' = IF gnt
              THEN [Controlled EXCEPT !.lsu_err = FALSE, !.addr_last = DataAddr.word,
                      !.handle_misaligned = Split(acc),
                      !.cs = IF Split(acc) THEN "WAIT_RVALID_MIS" ELSE "IDLE"]
              ELSE [lsu EXCEPT !.lsu_err = FALSE,
                      !.cs = IF Split(acc) THEN "WAIT_GNT_MIS" ELSE "WAIT_GNT"]

WaitGntMis(gnt) ==
  /\ lsu.cs = "WAIT_GNT_MIS"
  /\ lsu' = IF gnt
              THEN [Controlled EXCEPT !.addr_last = DataAddr.word,
                      !.handle_misaligned = TRUE, !.cs = "WAIT_RVALID_MIS"]
              ELSE lsu

\* The first answer of a split access: keep its data and its error.
FirstAnswer(rdata, err) ==
  [lsu EXCEPT !.lsu_err = err, !.rdata_q = IF lsu.we THEN @ ELSE rdata]

\* Broken: handle_misaligned is cleared although the second request waits.
WaitRvalidMisForgets(gnt, rvalid, rdata, err) ==
  /\ lsu.cs = "WAIT_RVALID_MIS"
  /\ lsu' =
       IF rvalid
         THEN [FirstAnswer(rdata, err) EXCEPT
                 !.cs = IF gnt THEN "IDLE" ELSE "WAIT_GNT",
                 !.addr_last = IF gnt /\ ~err THEN DataAddr.word ELSE @,
                 !.handle_misaligned = FALSE]
         ELSE IF gnt THEN [lsu EXCEPT !.cs = "WAIT_RVALID_MIS_GNTS_DONE",
                                      !.handle_misaligned = FALSE]
                     ELSE lsu

\* The second request is out, the first answer is awaited.
WaitRvalidMis(gnt, rvalid, rdata, err) ==
  /\ lsu.cs = "WAIT_RVALID_MIS"
  /\ lsu' =
       IF rvalid
         THEN [FirstAnswer(rdata, err) EXCEPT
                 !.cs = IF gnt THEN "IDLE" ELSE "WAIT_GNT",
                 !.addr_last = IF gnt /\ ~err THEN DataAddr.word ELSE @,
                 !.handle_misaligned = ~gnt]
         ELSE IF gnt THEN [lsu EXCEPT !.cs = "WAIT_RVALID_MIS_GNTS_DONE",
                                      !.handle_misaligned = FALSE]
                     ELSE lsu

WaitGnt(gnt) ==
  /\ lsu.cs = "WAIT_GNT"
  /\ lsu' = IF gnt
              THEN [Controlled EXCEPT !.cs = "IDLE", !.handle_misaligned = FALSE,
                      !.addr_last = IF lsu.lsu_err THEN @ ELSE DataAddr.word]
              ELSE lsu

\* Broken: the address moves on past a part that failed.
GntsDoneMovesOn(rvalid, rdata, err) ==
  /\ lsu.cs = "WAIT_RVALID_MIS_GNTS_DONE"
  /\ lsu' = IF rvalid
              THEN [FirstAnswer(rdata, err) EXCEPT !.addr_last = DataAddr.word, !.cs = "IDLE"]
              ELSE lsu

\* Both requests are granted, the first answer is awaited.
GntsDone(rvalid, rdata, err) ==
  /\ lsu.cs = "WAIT_RVALID_MIS_GNTS_DONE"
  /\ lsu' = IF rvalid
              THEN [FirstAnswer(rdata, err) EXCEPT
                      !.addr_last = IF err THEN @ ELSE DataAddr.word, !.cs = "IDLE"]
              ELSE lsu

LsuStep(gnt, rvalid, rdata, err) ==
  \/ Quiet \/ Idle(gnt) \/ WaitGntMis(gnt) \/ WaitRvalidMis(gnt, rvalid, rdata, err)
  \/ WaitGnt(gnt) \/ GntsDone(rvalid, rdata, err)

--------------------------------------------------------------------------------
(* The answer to the ID stage, and what the stage does with it.            *)

\* Broken: the first answer of a split access is passed on.
RespValidEarly(rvalid) == rvalid

RespValid(rvalid) == rvalid /\ lsu.cs = "IDLE"

\* The kind of the answer: an exception, a store, or the write enable of one of
\* the two register files.
RespKind(err) ==
  IF lsu.lsu_err \/ err THEN "error"
  ELSE IF lsu.we THEN "store"
  ELSE IF lsu.float THEN "frdata" ELSE "rdata"

RespData(rdata) ==
  DataRdataExt(lsu.rdata_offset, lsu.data_type, lsu.sign_ext, lsu.rdata_q, rdata)

\* Broken: a store leaves without waiting for its answer.
LeavesPosted(rvalid) ==
  acc # NoAccess /\ (IF acc.we /\ ~Split(acc) THEN TRUE ELSE ~first /\ RespValid(rvalid))

\* The instruction leaves with the answer. (An answer in its first cycle could
\* not be its own and would not be taken.)
Leaves(rvalid) == acc # NoAccess /\ ~first /\ RespValid(rvalid)

\* What enters the ID stage next: after an exception, nothing at first.
IdStage(rvalid, err) ==
  IF acc = NoAccess \/ Leaves(rvalid)
    THEN /\ acc' \in IF Leaves(rvalid) /\ RespKind(err) = "error"
                       THEN {NoAccess} ELSE Accesses \cup {NoAccess}
         /\ first' = TRUE
    ELSE acc' = acc /\ first' = FALSE

================================================================================
