-------------------------------- MODULE LsuBus ---------------------------------
(***************************************************************************)
(* The load-store unit on any bus that keeps its protocol: a request is    *)
(* granted in the cycle it is made or in a later one; a granted request is *)
(* answered in a later cycle, in the order of the grants, with its data or *)
(* with an error. The memory behind the bus honours the byte enables; an   *)
(* errored store writes nothing.                                           *)
(***************************************************************************)
EXTENDS LoadStoreUnit, Sequences

CONSTANTS
  InitMem,      \* the memory at the start
  Preload,      \* what a reset writes into the memory again
  DeviceWords   \* what words outside the memory may read as

ASSUME LsuBusAssumption ==
  /\ DOMAIN InitMem \subseteq WordNo
  /\ InitMem \in [DOMAIN InitMem -> Word]
  /\ DOMAIN Preload \subseteq DOMAIN InitMem
  /\ DeviceWords \subseteq Word

VARIABLES
  mem,          \* the memory
  pend,         \* the requests granted and not yet answered
  resp,         \* the last answer the ID stage was given
  before,       \* history: the memory at the start of the access in progress
  fault         \* history: the words of this access that were answered with an
                \* error, in order

busVars == <<mem, pend, resp, before, fault>>
vars    == <<lsuVars, busVars>>

Serial == INSTANCE SerialMemory WITH
  mem <- IF acc = NoAccess THEN mem ELSE before

Init ==
  /\ LsuInit
  /\ mem = InitMem /\ before = InitMem
  /\ pend = <<>> /\ fault = <<>>
  /\ resp = Serial!NoAnswer

\* The answer to the oldest request, if there is one this cycle.
Answering(rvalid, err) ==
  LET r == Head(pend)
  IN  mem' = IF rvalid /\ ~err /\ r.we /\ r.addr.word \in DOMAIN mem
               THEN [mem EXCEPT ![r.addr.word] = Merge(@, r.wdata, r.be)]
               ELSE mem

\* What a word reads as: a word outside the memory belongs to a device.
Reads(m, w) == IF w \in DOMAIN m THEN {m[w]} ELSE DeviceWords

RData(rvalid) == IF rvalid THEN Reads(mem, Head(pend).addr.word) ELSE {Serial!NoData}

Granting(gnt, rvalid) ==
  LET rest == IF rvalid THEN Tail(pend) ELSE pend
  IN  pend' = IF gnt THEN Append(rest, Request) ELSE rest

\* What the ID stage is told at the end of the access.
Response(rvalid, rdata, err) ==
  IF Leaves(rvalid)
    THEN Serial!Answer(RespKind(err),
           IF RespKind(err) \in {"rdata", "frdata"} THEN RespData(rdata) ELSE Serial!NoData)
    ELSE resp

\* One clock edge, with the bus signals of the cycle.
Clock(gnt, rvalid, err) ==
  /\ gnt => DataReq
  /\ rvalid => pend # <<>>
  /\ err => rvalid
  /\ \E rdata \in RData(rvalid) :
       /\ LsuStep(gnt, rvalid, rdata, err)
       /\ resp' = Response(rvalid, rdata, err)
  /\ IdStage(rvalid, err)
  /\ Answering(rvalid, err)
  /\ Granting(gnt, rvalid)
  /\ before' = IF acc = NoAccess \/ Leaves(rvalid) THEN mem' ELSE before
  /\ fault' = IF acc' # NoAccess /\ first' THEN <<>>
              ELSE IF err THEN Append(fault, Head(pend).addr.word) ELSE fault

Next == \E gnt, rvalid, err \in BOOLEAN : Clock(gnt, rvalid, err)

\* The clock runs; a bus that is asked again and again grants, and answers, in
\* the end.
Grants   == \E rvalid, err \in BOOLEAN : Clock(TRUE, rvalid, err)
Answers  == \E gnt, err \in BOOLEAN : Clock(gnt, TRUE, err)
Fairness == WF_vars(Next) /\ SF_vars(Grants) /\ SF_vars(Answers)

Spec     == Init /\ [][Next]_vars
FairSpec == Spec /\ Fairness

--------------------------------------------------------------------------------
(* Properties                                                              *)

\* Whatever the bus's delays, every access, split or not, happens once and as
\* a whole, its data aligned and extended as its type says, and is answered.
ImplementsSerialMemory == Serial!FairSpec

\* An answer the unit passes on to the ID stage is the answer to the last part
\* of the instruction's own access: when an instruction leaves, nothing is
\* outstanding that a later one could take for its own.
NothingLeftBehind == acc = NoAccess \/ first => pend = <<>> /\ lsu.cs = "IDLE"

\* A request the bus has not granted is held: the address, the byte enables and
\* the data do not change under the slave, even when the first part's answer
\* arrives meanwhile.
GrantedNow == Len(pend') >= Len(pend) /\ pend' # pend
RequestHeld == [][DataReq /\ ~GrantedNow => DataReq' /\ Request' = Request]_vars

\* An access ends with an exception exactly when a part of it failed, a failure
\* of an earlier access forgotten; and "mtval needs the (first) failing address"
\* (the comment on addr_last_q): the address kept for the trap is that of the
\* first part that failed.
TrapIsPrecise ==
  acc = NoAccess =>
    /\ resp.kind = "error" <=> fault # <<>>
    /\ fault # <<>> => lsu.addr_last = fault[1]
================================================================================
