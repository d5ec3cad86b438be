----------------------------- MODULE SerialMemory ------------------------------
(***************************************************************************)
(* What the data path of the core promises an instruction: loads and       *)
(* stores happen one at a time, each exactly once and at one instant,      *)
(* whatever the alignment; the answer says so. An access that the bus      *)
(* answers with an error delivers nothing, though a store that needs two   *)
(* words may have written one of them.                                     *)
(***************************************************************************)
EXTENDS MemAccess

CONSTANTS
  Accesses,     \* the loads and stores a program makes
  InitMem,      \* the memory at the start
  Preload,      \* what a reset writes into the memory again
  DeviceWords   \* what words outside the memory may read as

VARIABLES
  mem,          \* the words of the memory
  acc,          \* the access of the instruction in the ID stage, or NoAccess
  resp          \* the last answer

vars == <<mem, acc, resp>>

\* An answer: which register file a load writes and with what; a store and an
\* error bring no data. tag is the number of accesses answered so far, modulo 2.
NoData    == [k \in Lane |-> 0]
NoAnswer  == [kind |-> "none", data |-> NoData, tag |-> 0]
Answer(kind, data) == [kind |-> kind, data |-> data, tag |-> 1 - resp.tag]
LoadAnswer(a, data) == Answer(IF a.float THEN "frdata" ELSE "rdata", data)

Init == mem = InitMem /\ acc = NoAccess /\ resp = NoAnswer

\* The memory m with something read in the words that are none of its own.
WithDevices(m, a) ==
  LET Outside == {Place(a, k).word : k \in BytesOf(a)} \ DOMAIN m
  IN  {[w \in DOMAIN m \cup Outside |-> IF w \in DOMAIN m THEN m[w] ELSE dev[w]] :
         dev \in [Outside -> DeviceWords]}

Begin ==
  /\ acc = NoAccess
  /\ acc' \in Accesses
  /\ UNCHANGED <<mem, resp>>

Load ==
  /\ acc # NoAccess /\ ~acc.we
  /\ \E m \in WithDevices(mem, acc) : resp' = LoadAnswer(acc, Loaded(m, acc))
  /\ mem' = mem
  /\ acc' \in Accesses \cup {NoAccess}

Store ==
  /\ acc # NoAccess /\ acc.we
  /\ mem' = Stored(mem, acc)
  /\ resp' = Answer("store", NoData)
  /\ acc' \in Accesses \cup {NoAccess}

Fail ==
  /\ acc # NoAccess
  /\ \/ mem' = mem
     \/ /\ acc.we /\ SecondBytes(acc) # {}
        /\ \E ks \in {FirstBytes(acc), SecondBytes(acc)} : mem' = StoredBytes(mem, acc, ks)
  /\ resp' = Answer("error", NoData)
  /\ acc' = NoAccess

Reset ==
  /\ mem' = [w \in DOMAIN mem |-> IF w \in DOMAIN Preload THEN Preload[w] ELSE mem[w]]
  /\ acc' = NoAccess
  /\ resp' = NoAnswer

Next == Begin \/ Load \/ Store \/ Fail \/ Reset

Spec     == Init /\ [][Next]_vars
FairSpec == Spec /\ WF_vars(Load \/ Store \/ Fail)
================================================================================
