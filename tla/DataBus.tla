-------------------------------- MODULE DataBus --------------------------------
(***************************************************************************)
(* The data path of the SoC, clock cycle by clock cycle: the load-store    *)
(* unit, the AHB-Lite master glue of sub_system, the address decoder and   *)
(* the multiplexers of the fabric, the data SRAM and the APB bridge.       *)
(***************************************************************************)
EXTENDS LoadStoreUnit, Sequences

CONSTANTS
  SramWords,    \* the word addresses decoded to slave 0, the data SRAM
  ApbWords,     \* those decoded to slave 3, the APB bridge (others: no slave)
  DeviceOf,     \* the APB peripheral at an APB word, NoDevice in a gap
  NoDevice,
  SramDepth,    \* the number of words of the SRAM, 1024
  InitSram,     \* its content at power-up
  Preload,      \* the rows a reset loads, and with what
  DeviceWords   \* what a peripheral's registers may read as

ASSUME DataBusAssumption ==
  /\ SramWords \subseteq WordNo /\ ApbWords \subseteq WordNo
  /\ SramWords \cap ApbWords = {}
  /\ NoDevice \notin {"sram", "apb"}
  /\ SramDepth \in Nat \ {0}
  /\ InitSram \in [0 .. SramDepth - 1 -> Word]
  /\ DOMAIN Preload \subseteq DOMAIN InitSram /\ Preload \in [DOMAIN Preload -> Word]
  /\ DeviceWords \subseteq Word

VARIABLES
  glue,      \* sub_system: data_dr_valid and the registered write data
  fabric,    \* decoder: hsel_D0 and hwrite_D0 of the data phase
  ram,       \* data_sram: the registered address phase and the output word Q
  rows,      \* the SRAM array
  bridge,    \* the APB bridge
  resp,      \* the last answer the ID stage was given
  strobes,   \* history: the APB transfers made for the access in progress
  before     \* history: the SRAM array at the start of the access in progress

busVars == <<glue, fabric, ram, rows, bridge, resp, strobes, before>>
vars    == <<lsuVars, busVars>>

Word0   == [i \in Lane |-> 0]
BusAddr == [word : WordNo, off : Lane]

Bridge == INSTANCE ApbBridge WITH
  br <- bridge, Addr <- BusAddr, Addr0 <- [word |-> 0, off |-> 0]

Slaves == {"sram", "apb", "none"}

TypeOK ==
  /\ LsuTypeOK
  /\ glue \in [dr_valid : BOOLEAN, hwdata : Word]
  /\ fabric \in [hsel_D0 : Slaves, hwrite_D0 : BOOLEAN]
  /\ ram \in [hsel_d0 : BOOLEAN, hwrite_d0 : BOOLEAN, row_d0 : 0 .. SramDepth - 1, q : Word]
  /\ rows \in [0 .. SramDepth - 1 -> Word]
  /\ bridge \in Bridge!BridgeType

\* The words of the SRAM's region that the program uses. The region is larger than
\* the SRAM: words SramDepth apart are the same row.
UsedWords == {w \in SramWords :
                \E a \in Accesses : w = a.word \/ (Split(a) /\ w = NextWord(a.word))}

Memory(r) == [w \in UsedWords |-> r[w % SramDepth]]

Serial == INSTANCE SerialMemory WITH
  mem <- Memory(IF acc = NoAccess THEN rows ELSE before),
  InitMem <- Memory(InitSram),
  Preload <- [w \in {v \in UsedWords : v % SramDepth \in DOMAIN Preload} |->
                Preload[w % SramDepth]],
  DeviceWords <- DeviceWords \cup {Word0}

Init ==
  /\ LsuInit
  /\ glue = [dr_valid |-> FALSE, hwdata |-> Word0]
  /\ fabric = [hsel_D0 |-> "none", hwrite_D0 |-> FALSE]
  /\ \E q \in DeviceWords :
       ram = [hsel_d0 |-> FALSE, hwrite_d0 |-> FALSE, row_d0 |-> 0, q |-> q]
  /\ rows = InitSram /\ before = InitSram
  /\ Bridge!Init
  /\ resp = Serial!NoAnswer
  /\ strobes = <<>>

--------------------------------------------------------------------------------
(* The signals of the cycle.                                               *)

\* The ready of the slave in the data phase, that is, of the whole fabric.
HReady == fabric.hsel_D0 = "apb" => bridge.hready

DataGnt    == DataReq /\ HReady
DataRvalid == glue.dr_valid /\ HReady

\* The slave that the address phase of this cycle selects.
HSel == IF ~DataGnt THEN "none"
        ELSE IF DataAddr.word \in SramWords THEN "sram"
        ELSE IF DataAddr.word \in ApbWords THEN "apb"
        ELSE "none"

Device(word) == IF word \in ApbWords THEN DeviceOf[word] ELSE NoDevice

\* What the bridge shows in ENABLE: the selected peripheral's register, whatever
\* it holds, or 0 if there is none at the address.
BridgeReads == IF bridge.penable /\ bridge.psel /\ Device(bridge.paddr.word) # NoDevice
                 THEN DeviceWords ELSE {Word0}

\* hrdata, muxed by the data phase.
HRData == IF fabric.hwrite_D0 THEN {Word0}
          ELSE CASE fabric.hsel_D0 = "sram" -> {ram.q}
                 [] fabric.hsel_D0 = "apb"  -> BridgeReads
                 [] fabric.hsel_D0 = "none" -> {Word0}

--------------------------------------------------------------------------------
(* One clock edge of each part.                                            *)

\* Broken: data_dr_valid is not held while the slave inserts wait states.
GlueNotHeld ==
  \E w \in IF acc = NoAccess THEN DeviceWords ELSE {DataWdata(acc)} :
    glue' = [dr_valid |-> DataGnt, hwdata |-> w]

\* hwdata follows data_wdata in every cycle. (When no access is in the ID stage,
\* it follows whatever the instruction's operands are.)
Glue ==
  \E w \in IF acc = NoAccess THEN DeviceWords ELSE {DataWdata(acc)} :
    glue' = [dr_valid |-> IF HReady THEN DataGnt ELSE glue.dr_valid, hwdata |-> w]

HWrite == acc # NoAccess /\ acc.we

Decoder ==
  fabric' = IF HReady THEN [hsel_D0 |-> HSel, hwrite_D0 |-> HWrite] ELSE fabric

\* The SRAM has one port: the write data phase of one transfer and the read
\* address phase of the next compete for it, and the write wins.
SramWrites == ram.hsel_d0 /\ ram.hwrite_d0
SramReads  == HSel = "sram" /\ ~HWrite

\* Broken: the row register keeps the address bits above the SRAM's.
SramWideRow ==
  /\ rows' = IF SramWrites THEN [rows EXCEPT ![ram.row_d0] = glue.hwdata] ELSE rows
  /\ ram' = [hsel_d0   |-> HSel = "sram",
             hwrite_d0 |-> HSel = "sram" /\ HWrite,
             row_d0    |-> IF HSel = "sram" THEN DataAddr.word ELSE 0,
             q |-> IF SramReads /\ ~SramWrites THEN rows[DataAddr.word % SramDepth]
                                               ELSE ram.q]

Sram ==
  /\ rows' = IF SramWrites THEN [rows EXCEPT ![ram.row_d0] = glue.hwdata] ELSE rows
  /\ ram' = [hsel_d0   |-> HSel = "sram",
             hwrite_d0 |-> HSel = "sram" /\ HWrite,
             row_d0    |-> IF HSel = "sram" THEN DataAddr.word % SramDepth ELSE 0,
             q |-> IF SramReads /\ ~SramWrites THEN rows[DataAddr.word % SramDepth]
                                               ELSE ram.q]

\* The address the bridge sees is 0 unless it is selected.
ApbStep ==
  Bridge!Step(HSel = "apb", HWrite,
              IF HSel = "apb" THEN DataAddr ELSE [word |-> 0, off |-> 0],
              IF fabric.hsel_D0 = "apb" THEN glue.hwdata ELSE Word0)

\* A peripheral takes a transfer at every edge at which it is selected and
\* enabled.
Strobe ==
  IF bridge.penable /\ bridge.psel /\ Device(bridge.paddr.word) # NoDevice
    THEN Append(strobes, [word |-> bridge.paddr.word, we |-> bridge.pwrite,
                          data |-> IF bridge.pwrite THEN bridge.pwdata ELSE Word0])
    ELSE strobes

Response(rdata) ==
  IF Leaves(DataRvalid)
    THEN resp' = Serial!Answer(RespKind(FALSE),
                   IF RespKind(FALSE) = "store" THEN Word0 ELSE RespData(rdata))
    ELSE resp' = resp

History ==
  /\ strobes' = IF acc = NoAccess \/ Leaves(DataRvalid) THEN <<>> ELSE Strobe
  /\ before'  = IF acc = NoAccess \/ Leaves(DataRvalid) THEN rows' ELSE before

Clock ==
  \E rdata \in IF DataRvalid THEN HRData ELSE {Word0} :
    /\ LsuStep(DataGnt, DataRvalid, rdata, FALSE)
    /\ IdStage(DataRvalid, FALSE)
    /\ Glue /\ Decoder /\ Sram /\ ApbStep
    /\ Response(rdata)
    /\ History

\* The asynchronous reset, of the core and of the peripherals at once. It loads
\* the first rows of the SRAM and leaves the others and the word Q.
Reset ==
  /\ acc' = NoAccess /\ first' = TRUE /\ lsu' = LsuReset
  /\ glue' = [dr_valid |-> FALSE, hwdata |-> Word0]
  /\ fabric' = [hsel_D0 |-> "none", hwrite_D0 |-> FALSE]
  /\ rows' = [r \in DOMAIN rows |-> IF r \in DOMAIN Preload THEN Preload[r] ELSE rows[r]]
  /\ ram' = [hsel_d0 |-> FALSE, hwrite_d0 |-> FALSE, row_d0 |-> 0, q |-> ram.q]
  /\ bridge' = Bridge!ResetState
  /\ resp' = Serial!NoAnswer
  /\ strobes' = <<>> /\ before' = rows'

Next == Clock \/ Reset

Spec     == Init /\ [][Next]_vars
FairSpec == Spec /\ WF_vars(Clock)

--------------------------------------------------------------------------------
(* Properties                                                              *)

\* For the loads of any alignment and the aligned stores of whole words, the
\* whole path is one serial memory: what was stored is what is loaded, stored
\* and loaded once, and every access is answered.
ImplementsSerialMemory == Serial!FairSpec

\* The SRAM's single port is never asked for a write and a read at once: the
\* read would be lost.
NoSramPortConflict == ~(SramWrites /\ SramReads)

\* A peripheral is accessed exactly once for each part of an access to it, in
\* order, with that part's own word address and the access's data: no read and no
\* write of a device register is repeated, lost or left over from another access.
Part(a, w) ==
  IF Device(w) = NoDevice THEN <<>>
  ELSE <<[word |-> w, we |-> a.we, data |-> IF a.we THEN DataWdata(a) ELSE Word0]>>

Parts(a) == IF Split(a) THEN Part(a, a.word) \o Part(a, NextWord(a.word)) ELSE Part(a, a.word)

StrobedOnce == [][Clock /\ Leaves(DataRvalid) => Strobe = Parts(acc)]_vars

\* IbexDataAddrUnaligned, "Address must be word aligned when request is sent" (the
\* assertion at ibex_load_store_unit.sv:538; the comment at :496 says the same of the
\* output): whatever the alignment of an access, each of its requests, the first
\* and the second of a split one, is for a word.
IbexDataAddrUnaligned == DataReq => DataAddr.off = 0

\* "We handle misaligned accesses, half word and byte accesses here" (the comment
\* on data_wdata, ibex_load_store_unit.sv:181): a store changes the bytes it
\* names and no others.
StoresOnlyItsBytes ==
  [][Clock /\ Leaves(DataRvalid) /\ acc.we =>
       Memory(rows') = Stored(Memory(before), acc)]_vars
================================================================================
