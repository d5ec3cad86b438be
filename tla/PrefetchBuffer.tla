----------------------------- MODULE PrefetchBuffer ----------------------------
(***************************************************************************)
(* The prefetch buffer and its FIFO, without branch predictor and PMP as   *)
(* the core is built. It requests words ahead of the FIFO, keeps an        *)
(* ungranted request, and lets the answers to requests made before a       *)
(* branch pass by. Words come into the FIFO, instructions go out, with a   *)
(* bypass from the input. Valid bits that are always a prefix are modelled *)
(* as the length of a sequence: those of the FIFO, whose entry is the      *)
(* address it was fetched from, for its data, and its error bit; and those *)
(* of rdata_outstanding_q, under which alone branch_discard_q is set: a    *)
(* sequence of the discard bits, oldest first.                             *)
(***************************************************************************)
EXTENDS ProgramImage

CONSTANT NumReqs            \* NUM_REQS

Depth == NumReqs + 1

VARIABLES
  image,        \* the memory
  entries,      \* rdata_q, err_q of the valid entries
  instr_addr    \* instr_addr_q: the address of the instruction at the head

--------------------------------------------------------------------------------
\* The FIFO.

Entry == [at : 0 .. Size - 1, err : BOOLEAN]

\* The entries and the incoming word, if there is one.
Visible(in) == entries \o in

\* The half of a word that begins an instruction: a compressed one?
BeginsShort(e, h) == image.short[2 * e.at + h] /\ ~e.err

\* out_valid_o, with the instruction at the head if there is one.
OutValid(in) ==
  /\ Visible(in) # <<>>
  /\ IsOdd(instr_addr) /\ ~BeginsShort(Visible(in)[1], 1) => Len(Visible(in)) > 1

Shortens(in) == BeginsShort(Visible(in)[1], instr_addr % 2)

\* What is handed over: addr_o, the halves of rdata_o that the instruction is
\* made of, err_o and (where err_o makes it count) err_plus2_o.
Out(in) ==
  LET first  == Visible(in)[1]
      second == Visible(in)[2]
      split  == IsOdd(instr_addr) /\ ~Shortens(in)
      err    == first.err \/ (split /\ second.err)
  IN  [addr  |-> instr_addr, err |-> err,
       parts |-> IF err THEN <<>>
                 ELSE <<2 * first.at + (instr_addr % 2)>> \o
                        (IF Shortens(in) THEN <<>>
                         ELSE IF split THEN <<2 * second.at>> ELSE <<2 * first.at + 1>>),
       plus2 |-> err /\ split /\ second.err /\ ~first.err]

\* The instruction that leaves takes its word with it unless it is the lower half.
Pops(in) == ~Shortens(in) \/ IsOdd(instr_addr)

\* A word that comes while all entries are valid is lost.
Pushed(in) == IF Len(entries) = Depth THEN entries ELSE Visible(in)

FifoStep(in, ready, clear, addr) ==
  LET out == ready /\ OutValid(in)
  IN  /\ entries' = IF clear THEN <<>>
                    ELSE IF out /\ Pops(in) THEN Tail(Pushed(in)) ELSE Pushed(in)
      /\ instr_addr' = IF clear THEN addr
                       ELSE IF out THEN Ahead(instr_addr, IF Shortens(in) THEN 1 ELSE 2)
                       ELSE instr_addr

--------------------------------------------------------------------------------
\* The prefetch buffer.

VARIABLES
  valid_req_q, discard_req_q,
  stored_addr, fetch_addr,
  outstanding   \* branch_discard_q of the requests outstanding

prefetchVars == <<entries, instr_addr, valid_req_q, discard_req_q, stored_addr, fetch_addr,
                  outstanding>>

PrefetchTypeOK ==
  /\ entries \in Seq(Entry) /\ Len(entries) <= Depth /\ instr_addr \in Halves
  /\ valid_req_q \in BOOLEAN /\ discard_req_q \in BOOLEAN
  /\ stored_addr \in Halves /\ fetch_addr \in Halves
  /\ outstanding \in Seq(BOOLEAN) /\ Len(outstanding) <= NumReqs

\* The registers without a reset keep what they held.
PrefetchReset ==
  /\ entries' = <<>> /\ valid_req_q' = FALSE /\ discard_req_q' = FALSE /\ outstanding' = <<>>
  /\ UNCHANGED <<instr_addr, stored_addr, fetch_addr>>

\* The inputs of a cycle: req_i; branch is "none", "spec" (branch_spec_i alone,
\* with an addr_i that does not count) or "set" (both); ready_i; and the bus's
\* grant, with the answer as a sequence of at most one word.
NextWord(h) == Ahead(h - (h % 2), 2)

\* Broken: only the entries count, not the words on their way.
FifoReadyNow == Len(entries) < Depth

\* The valid bits of the upper entries and the outstanding bits, which fill from
\* the other end, leave one free. (They also do with no entry and all requests
\* outstanding, where ValidNewReq says no anyway.)
FifoReady == Len(entries) + Len(outstanding) < Depth

\* Broken: more requests than the buffer keeps track of.
ValidNewReqUntracked(req, branch) ==
  branch # "spec" /\ req /\ (FifoReady \/ branch = "set")

ValidNewReq(req, branch) ==
  /\ branch # "spec" /\ req
  /\ FifoReady \/ branch = "set"
  /\ Len(outstanding) < NumReqs

ValidReq(req, branch) == valid_req_q \/ ValidNewReq(req, branch)

\* Broken: a branch redirects the request that waits for its grant.
InstrAddrMoves(branch, addr) ==
  IF branch = "set" THEN addr ELSE IF valid_req_q THEN stored_addr ELSE fetch_addr

InstrAddr(branch, addr) ==
  IF valid_req_q THEN stored_addr ELSE IF branch = "none" THEN fetch_addr ELSE addr

\* Broken: the answers still to come do not keep the core awake.
BusyRequesting(req, branch) == ValidReq(req, branch)

\* busy_o.
Busy(req, branch) == outstanding # <<>> \/ ValidReq(req, branch)

\* An answer counts if a request is outstanding, and its word reaches the FIFO
\* unless a branch came after the request.
Answered(answer) == answer # <<>> /\ outstanding # <<>>
FifoIn(answer)   == IF Answered(answer) /\ ~Head(outstanding) THEN answer ELSE <<>>

\* Broken: only a branch that finds the request waiting discards it.
DiscardedOnce(branch) == valid_req_q /\ branch = "set"

\* discard_req_d.
Discarded(branch) == valid_req_q /\ (branch = "set" \/ discard_req_q)

Requests(req, branch, addr, gnt) ==
  LET new == ValidNewReq(req, branch) /\ ~valid_req_q     \* the address is not a stored one
  IN  /\ valid_req_q' = (ValidReq(req, branch) /\ ~gnt)
      /\ discard_req_q' = Discarded(branch)
      /\ stored_addr' = IF new /\ ~gnt THEN InstrAddr(branch, addr) ELSE stored_addr
      /\ fetch_addr' = LET base == IF branch = "set" THEN addr ELSE fetch_addr
                       IN  IF branch = "set" /\ ~new THEN base
                           ELSE IF new THEN (IF branch = "set" THEN Ahead(base, 2)
                                             ELSE NextWord(base))
                           ELSE fetch_addr

\* The discard bits after this cycle's branch and grant, shifted by an answer. A
\* request that is granted after a branch marks the older ones once more.
Track(req, branch, gnt, answer) ==
  LET granted == ValidReq(req, branch) /\ gnt
      late    == granted /\ Discarded(branch)
      marked  == [i \in DOMAIN outstanding |-> outstanding[i] \/ branch = "set" \/ late]
                   \o (IF granted THEN <<late>> ELSE <<>>)
  IN  outstanding' = IF Answered(answer) THEN Tail(marked) ELSE marked

PrefetchStep(req, ready, branch, addr, gnt, answer) ==
  /\ Requests(req, branch, addr, gnt)
  /\ Track(req, branch, gnt, answer)
  /\ FifoStep(FifoIn(answer), ready, branch = "set", addr)
================================================================================
