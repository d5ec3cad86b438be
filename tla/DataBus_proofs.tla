----------------------------- MODULE DataBus_proofs -----------------------------
(***************************************************************************)
(* Proofs about the data path of the SoC, for every set of accesses, every *)
(* address map, SRAM and set of peripherals: the load-store unit, the AHB  *)
(* glue, the fabric, the SRAM and the APB bridge agree, cycle by cycle, on *)
(* the one transfer that is in its data phase.                             *)
(***************************************************************************)
EXTENDS DataBus, LoadStoreUnit_proofs, SequenceTheorems

\* The transfer that is in its data phase: the first or the last one of the access.
LastPart == lsu.cs = "IDLE"
OutAddr  == [word |-> IF LastPart /\ Split(acc) THEN NextWord(acc.word) ELSE acc.word,
             off  |-> acc.off]

Target(w) == IF w \in SramWords THEN "sram" ELSE IF w \in ApbWords THEN "apb" ELSE "none"

\* A request is granted as soon as it is made, and the second one of an access
\* when the first is answered: the unit never waits for a grant, and never has
\* two requests out.
UnitInv ==
  /\ lsu.cs \in {"IDLE", "WAIT_RVALID_MIS"} /\ ~lsu.lsu_err
  /\ lsu.handle_misaligned <=> ~LastPart
  /\ ~LastPart => Split(acc) /\ lsu.addr_last = acc.word

\* The glue and the decoder hold the transfer.
GlueInv ==
  /\ glue.dr_valid <=> ~first
  /\ fabric.hsel_D0 = IF first THEN "none" ELSE Target(OutAddr.word)
  /\ ~first => /\ Captured /\ glue.hwdata = DataWdata(acc)
               /\ fabric.hwrite_D0 = acc.we

\* The SRAM's registers belong to it.
SramInv ==
  /\ ram.hsel_d0 <=> fabric.hsel_D0 = "sram"
  /\ ram.hsel_d0 => /\ ram.hwrite_d0 = acc.we /\ ram.row_d0 = OutAddr.word % SramDepth
                    /\ ~acc.we => ram.q = rows[ram.row_d0]

\* So do the bridge's, from its first state to ENABLE.
BridgeInv ==
  /\ bridge.cur_state = "IDLE" <=> fabric.hsel_D0 # "apb"
  /\ bridge.hready <=> bridge.cur_state \in {"IDLE", "ENABLE"}
  /\ bridge.psel <=> bridge.cur_state \in {"W_SELECT", "R_SELECT", "ENABLE"}
  /\ bridge.penable <=> bridge.cur_state = "ENABLE"
  /\ bridge.cur_state \in {"LATCH", "W_SELECT"} => acc.we
  /\ bridge.cur_state = "R_SELECT" => ~acc.we
  /\ bridge.cur_state = "LATCH" => bridge.haddr_latch = OutAddr /\ bridge.hwrite_latch
  /\ bridge.cur_state \in {"W_SELECT", "R_SELECT", "ENABLE"} =>
       /\ bridge.paddr = OutAddr /\ bridge.pwrite = acc.we
       /\ acc.we => bridge.pwdata = DataWdata(acc)

\* The strobes so far: those of the first part, when the last one is out.
StrobeInv ==
  strobes = IF ~first /\ LastPart /\ Split(acc) THEN Part(acc, acc.word) ELSE <<>>

\* The inductive invariant.
BusInv ==
  /\ TypeOK
  /\ acc = NoAccess => first
  /\ first => LastPart
  /\ UnitInv /\ GlueInv /\ SramInv /\ BridgeInv /\ StrobeInv

--------------------------------------------------------------------------------
(* The signals of a cycle, and what the unit does with them.               *)

\* The bus is ready in the first cycle of an access, and answers in a later one
\* as soon as it is ready.
LEMMA Signals ==
  ASSUME BusInv
  PROVE  /\ acc # NoAccess => acc \in Access /\ DataAddr \in BusAddr /\ DataWdata(acc) \in Word
         /\ first => HReady /\ ~DataRvalid
         /\ ~first => DataRvalid = HReady
         /\ DataReq <=> (acc # NoAccess /\ first) \/ ~LastPart
         /\ DataGnt <=> HReady /\ DataReq
         /\ first => DataAddr.word = acc.word
         /\ ~LastPart => DataAddr.word = NextWord(acc.word)
         /\ DataAddr.off = acc.off
         /\ DataGnt \in BOOLEAN /\ DataRvalid \in BOOLEAN
<1> USE DEF BusInv
<1>1. /\ lsu \in LsuType /\ first \in BOOLEAN /\ glue.dr_valid \in BOOLEAN
      /\ bridge.hready \in BOOLEAN
  BY DEF TypeOK, LsuTypeOK, Bridge!BridgeType
<1>2. ASSUME acc # NoAccess
      PROVE  acc \in Access /\ DataAddr \in BusAddr /\ DataWdata(acc) \in Word
  <2>1. acc \in Access
    BY <1>2, AccessesAssumption DEF TypeOK, LsuTypeOK
  <2>2. DataAddr \in BusAddr
    BY <1>1, <2>1, RequestIsTyped DEF BusAddr
  <2>3. DataWdata(acc) \in Word
    BY <2>1, AccessFields, Lanes DEF DataWdata, Word
  <2> QED BY <2>1, <2>2, <2>3
<1>3. DataReq <=> (acc # NoAccess /\ first) \/ ~LastPart
  BY DEF DataReq, LsuReq, UnitInv, LastPart
<1>4. /\ first => HReady /\ ~DataRvalid
      /\ ~first => DataRvalid = HReady
      /\ DataGnt \in BOOLEAN /\ DataRvalid \in BOOLEAN
  BY <1>1 DEF HReady, DataRvalid, DataGnt, GlueInv
<1>5. /\ first => DataAddr.word = acc.word
      /\ ~LastPart => DataAddr.word = NextWord(acc.word)
      /\ DataAddr.off = acc.off
  BY DEF DataAddr, AddrIncr, UnitInv, LastPart
<1> QED BY <1>2, <1>3, <1>4, <1>5 DEF DataGnt

\* What the cycle reads is a word.
LEMMA ReadsWords ==
  ASSUME BusInv
  PROVE  Word0 \in Word /\ HRData \subseteq Word
<1>1. Word0 \in Word
  BY AccessAssumption DEF Word0, Word, Byte
<1>2. ram.q \in Word /\ DeviceWords \subseteq Word
  BY DataBusAssumption DEF BusInv, TypeOK
<1>3. BridgeReads \subseteq Word
  BY <1>1, <1>2 DEF BridgeReads
<1>4. fabric.hsel_D0 \in {"sram", "apb", "none"}
  BY DEF BusInv, TypeOK, Slaves
<1> QED BY <1>1, <1>2, <1>3, <1>4 DEF HRData

\* The three kinds of clock edges. Nothing is requested, and the ID stage takes
\* its next instruction:
Ends ==
  /\ first => acc = NoAccess
  /\ LastPart /\ HReady /\ ~DataGnt
  /\ acc = NoAccess \/ Leaves(DataRvalid)
  /\ acc' \in Accesses \cup {NoAccess} /\ first' = TRUE /\ lsu' = lsu

\* a request is granted, the first one or the one that follows it:
Advances ==
  /\ first \/ ~LastPart
  /\ acc # NoAccess /\ HReady /\ DataGnt /\ ~Leaves(DataRvalid)
  /\ acc' = acc /\ first' = FALSE /\ lsu' \in LsuType /\ UnitInv' /\ Captured'
  /\ LastPart' = (Split(acc) => ~first)
  /\ OutAddr' = DataAddr

\* a slave inserts a wait state.
Waits ==
  /\ ~first /\ acc # NoAccess /\ ~HReady /\ ~DataGnt /\ ~Leaves(DataRvalid)
  /\ acc' = acc /\ first' = FALSE /\ lsu' = lsu

\* There is no other.
LEMMA Edges ==
  ASSUME BusInv, NEW rdata \in Word,
         LsuStep(DataGnt, DataRvalid, rdata, FALSE), IdStage(DataRvalid, FALSE)
  PROVE  Ends \/ Advances \/ Waits
<1>1. /\ lsu \in LsuType /\ first \in BOOLEAN /\ acc \in Accesses \cup {NoAccess}
      /\ UnitInv /\ (first => LastPart) /\ (acc = NoAccess => first)
      /\ (~first => Captured)
  BY DEF BusInv, TypeOK, LsuTypeOK, GlueInv
<1>2. ~(lsu.lsu_err \/ FALSE) /\ RespKind(FALSE) # "error"
  BY <1>1 DEF RespKind, UnitInv
<1>3. Leaves(DataRvalid) <=> acc # NoAccess /\ ~first /\ DataRvalid /\ LastPart
  BY DEF Leaves, RespValid, LastPart
<1>4. CASE acc = NoAccess \/ Leaves(DataRvalid)
  <2>1. LastPart /\ HReady /\ (first => acc = NoAccess) /\ ~DataReq
    BY <1>1, <1>3, <1>4, Signals
  <2>2. lsu' = lsu
    BY <2>1 DEF LsuStep, Quiet, Idle, WaitGntMis, WaitRvalidMis, WaitGnt, GntsDone, DataReq,
                LsuReq, LastPart
  <2>3. acc' \in Accesses \cup {NoAccess} /\ first' = TRUE
    BY <1>2, <1>4 DEF IdStage
  <2> QED BY <1>4, <2>1, <2>2, <2>3, Signals DEF Ends
<1>5. CASE ~(acc = NoAccess \/ Leaves(DataRvalid))
  <2>1. acc' = acc /\ first' = FALSE
    BY <1>5 DEF IdStage
  <2>2. CASE ~HReady
    <3>1. ~first /\ ~DataRvalid /\ ~DataGnt
      BY <2>2, Signals
    <3>2. lsu' = lsu
      BY <1>1, <3>1 DEF LsuStep, Quiet, Idle, WaitGntMis, WaitRvalidMis, WaitGnt, GntsDone,
                        LsuReq, UnitInv, LastPart
    <3> QED BY <1>5, <2>1, <2>2, <3>1, <3>2 DEF Waits
  <2>3. CASE HReady /\ first
    <3>1. DataGnt /\ LsuReq /\ lsu.cs = "IDLE" /\ acc \in Access /\ DataAddr.word = acc.word
          /\ DataAddr.off = acc.off /\ DataAddr \in BusAddr
      BY <1>1, <1>5, <2>3, Signals DEF LsuReq, LastPart
    <3>2. Captures
      BY <1>1, <3>1, Signals, UnitCaptures
    <3>3. Captured'
      BY <2>1, <3>2 DEF Captures, Captured
    <3>4. CASE Split(acc)
      <4>1. Becomes("WAIT_RVALID_MIS", TRUE, FALSE, DataAddr.word)
        BY <1>1, <3>1, <3>4, Signals, UnitMoves DEF BusAddr
      <4>2. UnitInv' /\ LastPart' = FALSE /\ lsu' \in LsuType
        BY <2>1, <3>1, <3>4, <4>1 DEF Becomes, UnitInv, LastPart
      <4>3. OutAddr' = [word |-> acc.word, off |-> acc.off]
        BY <2>1, <4>2 DEF OutAddr
      <4>4. OutAddr' = DataAddr
        BY <3>1, <4>3 DEF BusAddr
      <4> QED BY <1>5, <2>1, <2>3, <3>1, <3>3, <3>4, <4>2, <4>4 DEF Advances
    <3>5. CASE ~Split(acc)
      <4>1. Becomes("IDLE", FALSE, FALSE, DataAddr.word)
        BY <1>1, <3>1, <3>5, Signals, UnitMoves DEF BusAddr
      <4>2. UnitInv' /\ LastPart' = TRUE /\ lsu' \in LsuType
        BY <2>1, <3>1, <3>5, <4>1 DEF Becomes, UnitInv, LastPart
      <4>3. OutAddr' = [word |-> acc.word, off |-> acc.off]
        BY <2>1, <3>5, <4>2 DEF OutAddr
      <4>4. OutAddr' = DataAddr
        BY <3>1, <4>3 DEF BusAddr
      <4> QED BY <1>5, <2>1, <2>3, <3>1, <3>3, <3>5, <4>2, <4>4 DEF Advances
    <3> QED BY <3>4, <3>5
  <2>4. CASE HReady /\ ~first
    <3>1. /\ DataRvalid /\ ~LastPart /\ DataGnt /\ lsu.cs = "WAIT_RVALID_MIS" /\ Split(acc)
          /\ acc \in Access /\ DataAddr.word = NextWord(acc.word)
          /\ DataAddr.off = acc.off /\ DataAddr \in BusAddr
      BY <1>1, <1>3, <1>5, <2>4, Signals DEF UnitInv, LastPart
    <3>2. Becomes("IDLE", FALSE, FALSE, DataAddr.word)
      BY <1>1, <3>1, UnitMoves DEF BusAddr
    <3>3. Holds
      BY <1>1, <3>1, UnitCaptures
    <3>4. Captured'
      BY <1>1, <2>1, <2>4, <3>3 DEF Holds, Captured
    <3>5. UnitInv' /\ LastPart' = TRUE /\ lsu' \in LsuType
      BY <3>2 DEF Becomes, UnitInv, LastPart
    <3>6. OutAddr' = [word |-> NextWord(acc.word), off |-> acc.off]
      BY <2>1, <3>1, <3>5 DEF OutAddr
    <3>7. OutAddr' = DataAddr
      BY <3>1, <3>6 DEF BusAddr
    <3> QED BY <1>5, <2>1, <2>4, <3>1, <3>4, <3>5, <3>7 DEF Advances
  <2> QED BY <1>1, <2>2, <2>3, <2>4
<1> QED BY <1>4, <1>5

--------------------------------------------------------------------------------
(* What each part of the path makes of such an edge.                       *)

\* The slave that is addressed is the target of the request that is granted.
LEMMA Addressed ==
  ASSUME BusInv
  PROVE  /\ Advances => HSel = Target(OutAddr'.word) /\ HWrite = acc.we
         /\ Ends \/ Waits => HSel = "none"
<1>1. Advances => acc.we \in BOOLEAN
  BY Signals, AccessFields DEF Advances
<1> QED BY <1>1 DEF HSel, HWrite, Target, Advances, Ends, Waits

\* The glue holds a transfer until its slave is ready, and the decoder its slave.
LEMMA GlueKeeps ==
  ASSUME BusInv, Glue, Decoder, Ends \/ Advances \/ Waits
  PROVE  /\ GlueInv' /\ glue' \in [dr_valid : BOOLEAN, hwdata : Word]
         /\ fabric' \in [hsel_D0 : Slaves, hwrite_D0 : BOOLEAN]
         /\ Waits => fabric' = fabric
<1>1. /\ glue.dr_valid \in BOOLEAN /\ fabric \in [hsel_D0 : Slaves, hwrite_D0 : BOOLEAN]
      /\ first \in BOOLEAN /\ (acc = NoAccess => first) /\ GlueInv
      /\ DeviceWords \subseteq Word
  BY DataBusAssumption DEF BusInv, TypeOK, LsuTypeOK
<1>2. PICK w \in IF acc = NoAccess THEN DeviceWords ELSE {DataWdata(acc)} :
        glue' = [dr_valid |-> IF HReady THEN DataGnt ELSE glue.dr_valid, hwdata |-> w]
  BY DEF Glue
<1>3. w \in Word /\ (acc # NoAccess => w = DataWdata(acc))
  BY <1>1, <1>2, Signals
<1>4. fabric' = IF HReady THEN [hsel_D0 |-> HSel, hwrite_D0 |-> HWrite] ELSE fabric
  BY DEF Decoder
<1>5. CASE Ends
  <2>1. HReady /\ ~DataGnt /\ first' = TRUE /\ HSel = "none"
    BY <1>5, Addressed DEF Ends
  <2>2. HWrite \in BOOLEAN
    BY <1>1, Signals, AccessFields DEF HWrite
  <2>3. fabric' = [hsel_D0 |-> "none", hwrite_D0 |-> HWrite]
    BY <1>4, <2>1
  <2>4. ~Waits
    BY <2>1 DEF Waits
  <2> QED BY <1>2, <1>3, <2>1, <2>2, <2>3, <2>4, Signals DEF GlueInv, Slaves
<1>6. CASE Advances
  <2>1. /\ HReady /\ DataGnt /\ first' = FALSE /\ HSel = Target(OutAddr'.word)
        /\ HWrite = acc.we /\ acc # NoAccess /\ acc' = acc /\ Captured'
    BY <1>6, Addressed DEF Advances
  <2>2. acc.we \in BOOLEAN /\ Target(OutAddr'.word) \in Slaves
    BY <2>1, Signals, AccessFields DEF Target, Slaves
  <2>3. fabric' = [hsel_D0 |-> Target(OutAddr'.word), hwrite_D0 |-> acc.we]
    BY <1>4, <2>1
  <2>4. ~Waits
    BY <2>1 DEF Waits
  <2> QED BY <1>2, <1>3, <2>1, <2>2, <2>3, <2>4, Signals DEF GlueInv
<1>7. CASE Waits
  <2>1. /\ ~HReady /\ ~first /\ first' = FALSE /\ acc # NoAccess /\ acc' = acc /\ lsu' = lsu
    BY <1>7 DEF Waits
  <2>2. OutAddr' = OutAddr /\ (Captured => Captured')
    BY <2>1 DEF OutAddr, LastPart, Captured
  <2>3. fabric' = fabric
    BY <1>4, <2>1
  <2> QED BY <1>1, <1>2, <1>3, <2>1, <2>2, <2>3 DEF GlueInv
<1> QED BY <1>5, <1>6, <1>7

\* The SRAM takes the address phase of each request granted to it, and reads its row.
LEMMA SramKeeps ==
  ASSUME BusInv, Glue, Decoder, Sram, Ends \/ Advances \/ Waits
  PROVE  /\ SramInv' /\ rows' \in [0 .. SramDepth - 1 -> Word]
         /\ ram' \in [hsel_d0 : BOOLEAN, hwrite_d0 : BOOLEAN,
                      row_d0 : 0 .. SramDepth - 1, q : Word]
<1>1. /\ rows \in [0 .. SramDepth - 1 -> Word] /\ glue.hwdata \in Word /\ ram.q \in Word
      /\ ram.hsel_d0 \in BOOLEAN /\ GlueInv /\ SramInv /\ (acc = NoAccess => first)
      /\ first \in BOOLEAN
  BY DEF BusInv, TypeOK, LsuTypeOK
<1>2. \A n \in Nat : n % SramDepth \in 0 .. SramDepth - 1
  BY DataBusAssumption
<1>3. /\ rows' = IF SramWrites THEN [rows EXCEPT ![ram.row_d0] = glue.hwdata] ELSE rows
      /\ ram' = [hsel_d0   |-> HSel = "sram",
                 hwrite_d0 |-> HSel = "sram" /\ HWrite,
                 row_d0    |-> IF HSel = "sram" THEN DataAddr.word % SramDepth ELSE 0,
                 q |-> IF SramReads /\ ~SramWrites THEN rows[DataAddr.word % SramDepth]
                                                   ELSE ram.q]
  BY DEF Sram
<1>4. rows' \in [0 .. SramDepth - 1 -> Word]
  BY <1>1, <1>3
<1>5. CASE ~Advances
  <2>1. HSel = "none" /\ ~SramReads
    BY <1>5, Addressed DEF SramReads
  <2>2. ram' = [hsel_d0 |-> FALSE, hwrite_d0 |-> FALSE, row_d0 |-> 0, q |-> ram.q]
    BY <1>3, <2>1
  <2>3. fabric'.hsel_D0 # "sram"
    <3>1. CASE Ends
      BY <2>1, <3>1 DEF Decoder, Ends
    <3>2. CASE Waits
      BY <3>2 DEF Decoder, Waits, HReady
    <3> QED BY <1>5, <3>1, <3>2
  <2>4. 0 \in 0 .. SramDepth - 1
    BY DataBusAssumption
  <2> QED BY <1>1, <1>4, <2>2, <2>3, <2>4 DEF SramInv
<1>6. CASE Advances
  <2>1. /\ HSel = Target(OutAddr'.word) /\ HWrite = acc.we /\ HReady /\ acc # NoAccess
        /\ acc' = acc /\ OutAddr' = DataAddr
    BY <1>6, Addressed DEF Advances
  <2>2. acc.we \in BOOLEAN /\ DataAddr.word \in Nat
    BY <2>1, Signals, AccessFields DEF BusAddr, WordNo
  <2>3. fabric'.hsel_D0 = HSel
    BY <2>1 DEF Decoder
  <2> DEFINE row == DataAddr.word % SramDepth
  <2>4. row \in 0 .. SramDepth - 1
    BY <1>2, <2>2
  <2>5. SramWrites => acc.we
    BY <1>1 DEF SramWrites, SramInv, GlueInv
  <2>6. ~acc.we => rows' = rows
    BY <1>3, <2>5
  <2>7. CASE HSel = "sram"
    <3>1. SramReads <=> ~acc.we
      BY <2>1, <2>7 DEF SramReads
    <3>2. ram' = [hsel_d0 |-> TRUE, hwrite_d0 |-> acc.we, row_d0 |-> row,
                  q |-> IF acc.we THEN ram.q ELSE rows[row]]
      <4> HIDE DEF row
      <4> QED BY <1>3, <2>1, <2>2, <2>5, <2>7, <3>1 DEF row
    <3>3. rows[row] \in Word
      BY <1>1, <2>4
    <3> HIDE DEF row
    <3>4. ram'.row_d0 = OutAddr'.word % SramDepth
      BY <2>1, <3>2 DEF row
    <3>5. ~acc'.we => ram'.q = rows'[ram'.row_d0]
      BY <2>1, <2>6, <3>2
    <3>6. ram' \in [hsel_d0 : BOOLEAN, hwrite_d0 : BOOLEAN,
                    row_d0 : 0 .. SramDepth - 1, q : Word]
      BY <1>1, <2>2, <2>4, <3>2, <3>3
    <3> QED BY <1>4, <2>1, <2>3, <2>7, <3>2, <3>4, <3>5, <3>6 DEF SramInv
  <2>8. CASE HSel # "sram"
    <3>1. ram' = [hsel_d0 |-> FALSE, hwrite_d0 |-> FALSE, row_d0 |-> 0, q |-> ram.q]
      BY <1>3, <2>8 DEF SramReads
    <3>2. 0 \in 0 .. SramDepth - 1
      BY DataBusAssumption
    <3> QED BY <1>1, <1>4, <2>3, <2>8, <3>1, <3>2 DEF SramInv
  <2> QED BY <2>7, <2>8
<1> QED BY <1>5, <1>6

\* The bridge's registers in its next state.
LEMMA Entered ==
  ASSUME bridge \in Bridge!BridgeType, NEW nxt \in Bridge!BridgeStates
  PROVE  LET b == Bridge!Enter(nxt)
         IN  /\ b \in Bridge!BridgeType /\ b.cur_state = nxt
             /\ b.psel <=> nxt \in {"W_SELECT", "R_SELECT", "ENABLE"}
             /\ b.penable <=> nxt = "ENABLE"
             /\ b.hready <=> nxt \notin {"LATCH", "W_SELECT", "R_SELECT"}
             /\ b.paddr = bridge.paddr /\ b.pwrite = bridge.pwrite
             /\ b.pwdata = bridge.pwdata
<1> DEFINE b == Bridge!Enter(nxt)
<1>1. b.cur_state = nxt /\ b.paddr = bridge.paddr /\ b.pwrite = bridge.pwrite
             /\ b.pwdata = bridge.pwdata
  BY DEF Bridge!BridgeType, Bridge!BridgeStates, Bridge!Enter
<1>2. b.psel = (nxt \in {"W_SELECT", "R_SELECT", "ENABLE"})
  BY DEF Bridge!BridgeType, Bridge!BridgeStates, Bridge!Enter
<1>3. b.penable = (nxt = "ENABLE")
  BY DEF Bridge!BridgeType, Bridge!BridgeStates, Bridge!Enter
<1>4. b.hready = (nxt \notin {"LATCH", "W_SELECT", "R_SELECT"})
  BY DEF Bridge!BridgeType, Bridge!BridgeStates, Bridge!Enter
<1>5. b \in Bridge!BridgeType
  <2>1. \A x \in BOOLEAN, y \in BOOLEAN, z \in BOOLEAN :
          [bridge EXCEPT !.cur_state = nxt, !.psel = x, !.penable = y, !.hready = z]
            \in Bridge!BridgeType
    BY DEF Bridge!BridgeType
  <2>2. /\ (nxt \in {"W_SELECT", "R_SELECT", "ENABLE"}) \in BOOLEAN
        /\ (nxt = "ENABLE") \in BOOLEAN
        /\ (nxt \notin {"LATCH", "W_SELECT", "R_SELECT"}) \in BOOLEAN
    OBVIOUS
  <2> QED BY <2>1, <2>2, Zenon DEF Bridge!Enter
<1> QED BY <1>1, <1>2, <1>3, <1>4, <1>5

\* The bridge's clock edge: it takes a transfer, moves on, or rests.
LEMMA BridgeKeeps ==
  ASSUME BusInv, Glue, Decoder, ApbStep, Ends \/ Advances \/ Waits
  PROVE  BridgeInv' /\ bridge' \in Bridge!BridgeType
<1>1. /\ bridge \in Bridge!BridgeType /\ BridgeInv /\ GlueInv
      /\ first \in BOOLEAN /\ (acc = NoAccess => first)
      /\ fabric.hsel_D0 \in Slaves /\ glue.hwdata \in Word
  BY DEF BusInv, TypeOK, LsuTypeOK
<1> USE DEF Bridge!BridgeType, Bridge!BridgeStates, Bridge!Step, Bridge!Stay, Bridge!Latch,
            Bridge!RSelect, Bridge!WSelect, Bridge!Enable
<1>2. CASE Ends
  <2>1. HReady /\ HSel = "none" /\ fabric'.hsel_D0 = "none"
    BY <1>2, Addressed DEF Ends, Decoder
  <2>2. bridge.cur_state \in {"IDLE", "ENABLE"}
    BY <1>1, <2>1 DEF HReady, BridgeInv
  <2>3. bridge' = Bridge!Enter("IDLE")
    BY <2>1, <2>2 DEF ApbStep
  <2>4. bridge' \in Bridge!BridgeType
    BY <1>1, <2>3, Entered
  <2> QED BY <1>1, <2>1, <2>3, <2>4, Entered DEF BridgeInv
<1>3. CASE Advances
  <2>1. /\ HReady /\ HSel = Target(OutAddr'.word) /\ fabric'.hsel_D0 = HSel
        /\ HWrite = acc.we /\ acc # NoAccess /\ acc' = acc /\ OutAddr' = DataAddr
    BY <1>3, Addressed DEF Advances, Decoder
  <2>2. acc.we \in BOOLEAN /\ DataAddr \in BusAddr
    BY <2>1, Signals, AccessFields
  <2>3. bridge.cur_state \in {"IDLE", "ENABLE"}
    BY <1>1, <2>1 DEF HReady, BridgeInv
  <2>4. CASE HSel # "apb"
    <3>1. bridge' = Bridge!Enter("IDLE")
      BY <2>3, <2>4 DEF ApbStep
    <3>2. bridge' \in Bridge!BridgeType
      BY <1>1, <3>1, Entered
    <3> QED BY <1>1, <2>1, <2>4, <3>1, <3>2, Entered DEF BridgeInv
  <2>5. CASE HSel = "apb" /\ acc.we
    <3>1. bridge' = [Bridge!Enter("LATCH") EXCEPT !.haddr_latch = DataAddr,
                                                  !.hwrite_latch = TRUE]
      BY <2>1, <2>2, <2>3, <2>5 DEF ApbStep
    <3>2. bridge' \in Bridge!BridgeType
      BY <1>1, <2>2, <3>1, Entered
    <3> QED BY <1>1, <2>1, <2>5, <3>1, <3>2, Entered DEF BridgeInv
  <2>6. CASE HSel = "apb" /\ ~acc.we
    <3>1. bridge' = [Bridge!Enter("R_SELECT") EXCEPT !.paddr = DataAddr, !.pwrite = FALSE]
      BY <2>1, <2>2, <2>3, <2>6 DEF ApbStep
    <3>2. bridge' \in Bridge!BridgeType
      BY <1>1, <2>2, <3>1, Entered
    <3> QED BY <1>1, <2>1, <2>2, <2>6, <3>1, <3>2, Entered DEF BridgeInv
  <2> QED BY <2>2, <2>4, <2>5, <2>6
<1>4. CASE Waits
  <2>1. /\ ~first /\ ~HReady /\ HSel = "none" /\ fabric' = fabric /\ acc # NoAccess
        /\ acc' = acc /\ OutAddr' = OutAddr
    BY <1>4, Addressed DEF Waits, Decoder, OutAddr, LastPart
  <2>2. fabric.hsel_D0 = "apb" /\ bridge.cur_state \in {"LATCH", "W_SELECT", "R_SELECT"}
    BY <1>1, <2>1 DEF HReady, BridgeInv
  <2>3. acc.we \in BOOLEAN /\ glue.hwdata = DataWdata(acc)
    BY <1>1, <2>1, Signals, AccessFields DEF GlueInv
  <2>4. CASE bridge.cur_state = "LATCH"
    <3>1. acc.we = TRUE /\ bridge.hwrite_latch = TRUE /\ bridge.haddr_latch = OutAddr
      BY <1>1, <2>3, <2>4 DEF BridgeInv
    <3>2. bridge' = [Bridge!Enter("W_SELECT") EXCEPT
                       !.paddr = OutAddr, !.pwrite = TRUE, !.pwdata = DataWdata(acc)]
      BY <2>1, <2>2, <2>3, <2>4, <3>1 DEF ApbStep
    <3>3. OutAddr \in BusAddr
      BY <1>1, <3>1, Entered
    <3>4. bridge' \in Bridge!BridgeType
      BY <1>1, <2>3, <3>2, <3>3, Entered
    <3> QED BY <1>1, <2>1, <2>2, <3>1, <3>2, <3>4, Entered DEF BridgeInv
  <2>5. CASE bridge.cur_state \in {"W_SELECT", "R_SELECT"}
    <3>1. bridge' = Bridge!Enter("ENABLE")
      BY <2>1, <2>5 DEF ApbStep
    <3>2. bridge' \in Bridge!BridgeType
      BY <1>1, <3>1, Entered
    <3> QED BY <1>1, <2>1, <2>2, <2>5, <3>1, <3>2, Entered DEF BridgeInv
  <2> QED BY <2>2, <2>4, <2>5
<1> QED BY <1>2, <1>3, <1>4

\* Sequences of at most two elements.
LEMMA ShortSequences ==
  ASSUME NEW p, NEW q
  PROVE  /\ <<>> \o <<>> = <<>> /\ <<q>> \o <<>> = <<q>> /\ <<>> \o <<p>> = <<p>>
         /\ Append(<<>>, p) = <<p>> /\ Append(<<q>>, p) = <<q>> \o <<p>>
<1>1. <<p>> \in Seq({p, q}) /\ <<q>> \in Seq({p, q})
  OBVIOUS
<1>2. <<>> \in Seq({p, q}) /\ <<>> \o <<>> = <<>>
  BY EmptySeq, ConcatEmptySeq
<1>3. <<q>> \o <<>> = <<q>> /\ <<>> \o <<p>> = <<p>>
  BY <1>1, ConcatEmptySeq
<1>4. Append(<<q>>, p) = <<q>> \o <<p>>
  BY <1>1, AppendIsConcat
<1>5. Append(<<>>, p) = <<p>>
  OBVIOUS
<1> QED BY <1>2, <1>3, <1>4, <1>5

\* A peripheral is strobed in the cycle in which the transfer ends.
LEMMA Strobed ==
  ASSUME BusInv
  PROVE  /\ first \/ ~HReady => Strobe = strobes
         /\ ~first /\ HReady /\ ~LastPart => Strobe = Part(acc, acc.word)
         /\ ~first /\ HReady /\ LastPart => Strobe = Parts(acc)
<1>1. /\ GlueInv /\ BridgeInv /\ StrobeInv /\ UnitInv /\ (acc = NoAccess => first)
      /\ first \in BOOLEAN /\ bridge \in Bridge!BridgeType
  BY DEF BusInv, TypeOK, LsuTypeOK
<1>2. first \/ ~HReady => ~bridge.penable
  BY <1>1 DEF GlueInv, BridgeInv, HReady
<1>3. ASSUME ~first, HReady
      PROVE  Strobe = strobes \o Part(acc, OutAddr.word)
  <2>1. acc.we \in BOOLEAN /\ acc \in Access
    BY <1>1, <1>3, Signals, AccessFields
  <2>3. strobes = <<>> \/ \E q : strobes = <<q>>
    BY <1>1 DEF StrobeInv, Part
  <2>4. CASE Device(OutAddr.word) = NoDevice
    <3>1. Part(acc, OutAddr.word) = <<>>
      BY <2>4 DEF Part
    <3>2. bridge.penable /\ bridge.psel => bridge.paddr = OutAddr
      BY <1>1 DEF BridgeInv
    <3>3. Strobe = strobes
      BY <2>4, <3>2 DEF Strobe
    <3> QED BY <2>3, <3>1, <3>3, ShortSequences
  <2>5. CASE Device(OutAddr.word) # NoDevice
    <3>1. fabric.hsel_D0 = "apb"
      BY <1>1, <1>3, <2>5, DataBusAssumption DEF Device, GlueInv, Target
    <3>2. /\ bridge.penable /\ bridge.psel /\ bridge.paddr = OutAddr /\ bridge.pwrite = acc.we
          /\ acc.we => bridge.pwdata = DataWdata(acc)
      BY <1>1, <1>3, <3>1 DEF BridgeInv, HReady
    <3> DEFINE p == [word |-> OutAddr.word, we |-> acc.we,
                     data |-> IF acc.we THEN DataWdata(acc) ELSE Word0]
    <3>3. Strobe = Append(strobes, p)
      BY <2>5, <3>2 DEF Strobe
    <3>4. Part(acc, OutAddr.word) = <<p>>
      BY <2>5 DEF Part
    <3> HIDE DEF p
    <3> QED BY <2>3, <3>3, <3>4, ShortSequences
  <2> QED BY <2>4, <2>5
<1>4. ASSUME ~first, HReady, ~LastPart PROVE Strobe = Part(acc, acc.word)
  <2>1. strobes = <<>> /\ OutAddr.word = acc.word
    BY <1>1, <1>4 DEF StrobeInv, OutAddr
  <2> QED BY <1>3, <1>4, <2>1 DEF Part
<1>5. ASSUME ~first, HReady, LastPart PROVE Strobe = Parts(acc)
  <2>1. CASE Split(acc)
    BY <1>1, <1>3, <1>5, <2>1 DEF StrobeInv, OutAddr, Parts
  <2>2. CASE ~Split(acc)
    <3>1. strobes = <<>> /\ OutAddr.word = acc.word
      BY <1>1, <1>5, <2>2 DEF StrobeInv, OutAddr
    <3>2. Parts(acc) = Part(acc, acc.word)
      BY <2>2 DEF Parts
    <3> QED BY <1>3, <1>5, <3>1, <3>2 DEF Part
  <2> QED BY <2>1, <2>2
<1> QED BY <1>2, <1>4, <1>5 DEF Strobe

--------------------------------------------------------------------------------
(* The invariant.                                                          *)

\* One clock edge, with the word it reads.
LEMMA ClockEdge ==
  ASSUME BusInv, Clock
  PROVE  /\ Ends \/ Advances \/ Waits
         /\ Glue /\ Decoder /\ Sram /\ ApbStep /\ History
         /\ \E rdata \in Word :
              /\ LsuStep(DataGnt, DataRvalid, rdata, FALSE)
              /\ rdata \in (IF DataRvalid THEN HRData ELSE {Word0})
              /\ Response(rdata)
<1>1. PICK rdata \in IF DataRvalid THEN HRData ELSE {Word0} :
        /\ LsuStep(DataGnt, DataRvalid, rdata, FALSE)
        /\ IdStage(DataRvalid, FALSE)
        /\ Glue /\ Decoder /\ Sram /\ ApbStep
        /\ Response(rdata)
        /\ History
  BY DEF Clock
<1>2. rdata \in Word
  BY <1>1, ReadsWords
<1> QED BY <1>1, <1>2, Edges

\* Every clock edge keeps the invariant.
LEMMA ClockKeeps == BusInv /\ Clock => BusInv'
<1> SUFFICES ASSUME BusInv, Clock PROVE BusInv'
  OBVIOUS
<1>1. /\ Ends \/ Advances \/ Waits
      /\ Glue /\ Decoder /\ Sram /\ ApbStep /\ History
  BY ClockEdge
<1>2. /\ acc \in Accesses \cup {NoAccess} /\ lsu \in LsuType /\ first \in BOOLEAN
      /\ UnitInv /\ GlueInv /\ StrobeInv /\ (acc = NoAccess => first) /\ (first => LastPart)
  BY DEF BusInv, TypeOK, LsuTypeOK
<1>3. LsuTypeOK' /\ (acc' = NoAccess => first') /\ (first' => LastPart') /\ UnitInv'
  <2>1. CASE Ends
    BY <1>2, <2>1 DEF Ends, LsuTypeOK, UnitInv, LastPart
  <2>2. CASE Advances
    BY <1>2, <2>2 DEF Advances, LsuTypeOK
  <2>3. CASE Waits
    BY <1>2, <2>3 DEF Waits, LsuTypeOK, UnitInv, LastPart
  <2> QED BY <1>1, <2>1, <2>2, <2>3
<1>4. TypeOK' /\ GlueInv' /\ SramInv' /\ BridgeInv'
  BY <1>1, <1>3, GlueKeeps, SramKeeps, BridgeKeeps DEF TypeOK
<1>5. StrobeInv'
  <2>1. CASE Ends
    BY <1>1, <2>1 DEF Ends, History, StrobeInv
  <2>2. CASE Advances
    <3>1. acc # NoAccess /\ ~Leaves(DataRvalid) /\ acc' = acc /\ first' = FALSE /\ HReady
          /\ LastPart' = (Split(acc) => ~first) /\ (first \/ ~LastPart)
      BY <2>2 DEF Advances
    <3>2. strobes' = Strobe
      BY <1>1, <3>1 DEF History
    <3>3. CASE first
      BY <1>2, <3>1, <3>2, <3>3, Strobed DEF StrobeInv
    <3>4. CASE ~first
      BY <1>2, <3>1, <3>2, <3>4, Strobed DEF StrobeInv, UnitInv
    <3> QED BY <1>2, <3>3, <3>4
  <2>3. CASE Waits
    <3>1. acc # NoAccess /\ ~Leaves(DataRvalid) /\ acc' = acc /\ first' = FALSE /\ ~HReady
          /\ lsu' = lsu /\ ~first
      BY <2>3 DEF Waits
    <3>2. strobes' = strobes
      BY <1>1, <3>1, Strobed DEF History
    <3> QED BY <1>2, <3>1, <3>2 DEF StrobeInv, LastPart
  <2> QED BY <1>1, <2>1, <2>2, <2>3
<1> QED BY <1>3, <1>4, <1>5 DEF BusInv

\* It holds at the start.
LEMMA BusInitially == Init => BusInv
<1> SUFFICES ASSUME Init PROVE BusInv
  OBVIOUS
<1> USE DEF Init, LsuInit, LsuReset
<1>1. Word0 \in Word /\ 0 \in WordNo /\ 0 \in Lane
  BY AccessAssumption DEF Word0, Word, Byte, WordNo, Lane
<1>2. lsu \in LsuType
  BY <1>1 DEF LsuType, FsmStates, Word0
<1>3. bridge \in Bridge!BridgeType
  BY <1>1 DEF Bridge!Init, Bridge!ResetState, Bridge!BridgeType, Bridge!BridgeStates, BusAddr
<1>4. TypeOK
  BY <1>1, <1>2, <1>3, DataBusAssumption DEF TypeOK, LsuTypeOK, Slaves
<1>5. UnitInv /\ GlueInv /\ SramInv /\ StrobeInv /\ LastPart
  BY DEF UnitInv, GlueInv, SramInv, StrobeInv, LastPart
<1>6. BridgeInv
  BY DEF BridgeInv, Bridge!Init, Bridge!ResetState
<1> QED BY <1>4, <1>5, <1>6 DEF BusInv

\* A reset leads to a state like the initial ones, but for the SRAM.
LEMMA ResetKeeps == BusInv /\ Reset => BusInv'
<1> SUFFICES ASSUME BusInv, Reset PROVE BusInv'
  OBVIOUS
<1> USE DEF Reset
<1>1. Word0 \in Word /\ 0 \in WordNo /\ 0 \in Lane
  BY AccessAssumption DEF Word0, Word, Byte, WordNo, Lane
<1>2. lsu' \in LsuType
  BY <1>1 DEF LsuType, FsmStates, Word0, LsuReset
<1>3. bridge' \in Bridge!BridgeType
  BY <1>1 DEF Bridge!ResetState, Bridge!BridgeType, Bridge!BridgeStates, BusAddr
<1>4. rows' \in [0 .. SramDepth - 1 -> Word] /\ ram.q \in Word
  BY DataBusAssumption DEF BusInv, TypeOK
<1>5. TypeOK'
  BY <1>1, <1>2, <1>3, <1>4, DataBusAssumption DEF TypeOK, LsuTypeOK, Slaves
<1>6. UnitInv' /\ GlueInv' /\ SramInv' /\ StrobeInv' /\ LastPart'
  BY DEF UnitInv, GlueInv, SramInv, StrobeInv, LastPart, LsuReset
<1>7. BridgeInv'
  BY DEF BridgeInv, Bridge!ResetState
<1> QED BY <1>5, <1>6, <1>7 DEF BusInv

\* Every step keeps the invariant.
LEMMA BusStepKeeps == BusInv /\ [Next]_vars => BusInv'
<1>1. BusInv /\ UNCHANGED vars => BusInv'
  BY DEF BusInv, TypeOK, LsuTypeOK, UnitInv, GlueInv, SramInv, BridgeInv, StrobeInv, LastPart,
         OutAddr, Captured, vars, lsuVars, busVars
<1> QED BY <1>1, ClockKeeps, ResetKeeps DEF Next

\* The invariant holds in every reachable state.
LEMMA BusInvariant == Spec => []BusInv
  BY BusInitially, BusStepKeeps, PTL DEF Spec

--------------------------------------------------------------------------------
(* The refinement. It is for a program whose stores suit the SRAM, which   *)
(* has no byte enables, and that uses no row under two addresses.          *)

StoresAreWhole ==
  \A a \in Accesses : a.we =>
    \/ a.size = 4 /\ a.off = 0
    \/ a.word \notin SramWords /\ (Split(a) => NextWord(a.word) \notin SramWords)

RowsAreOwn == \A v, w \in UsedWords : v % SramDepth = w % SramDepth => v = w

\* What a word of the address space may read as.
Values(w) == IF w \in SramWords THEN {rows[w % SramDepth]} ELSE DeviceWords \cup {Word0}

\* While an access is in progress the SRAM is as it was at its start, and the unit
\* keeps what it read of the first word.
DataInv ==
  /\ BusInv /\ rows = before
  /\ ~first /\ LastPart /\ Split(acc) /\ ~acc.we => lsu.rdata_q \in Values(acc.word)

\* A load's answer is what its word may read as.
LEMMA ReadsItsWord ==
  ASSUME BusInv, ~first, HReady, ~acc.we
  PROVE  HRData \subseteq Values(OutAddr.word)
<1>1. /\ fabric.hsel_D0 = Target(OutAddr.word) /\ ~fabric.hwrite_D0 /\ SramInv
  BY DEF BusInv, GlueInv
<1>2. SramWords \cap ApbWords = {}
  BY DataBusAssumption
<1>3. HRData = IF fabric.hsel_D0 = "sram" THEN {ram.q}
               ELSE IF fabric.hsel_D0 = "apb" THEN BridgeReads ELSE {Word0}
  BY <1>1 DEF HRData, Target
<1>4. BridgeReads \subseteq DeviceWords \cup {Word0}
  BY DEF BridgeReads
<1> QED BY <1>1, <1>2, <1>3, <1>4 DEF Target, Values, SramInv

\* The SRAM is written in the cycle in which a store leaves, with its word, and in
\* no other.
LEMMA SramIsWritten ==
  ASSUME BusInv, Sram, StoresAreWhole
  PROVE  /\ Advances \/ Waits => rows' = rows
         /\ first \/ ~acc.we \/ acc.word \notin SramWords => rows' = rows
         /\ ~first /\ acc.we /\ acc.word \in SramWords =>
              /\ acc.size = 4 /\ acc.off = 0 /\ ~Split(acc)
              /\ rows' = [rows EXCEPT ![acc.word % SramDepth] = DataWdata(acc)]
<1>1. /\ GlueInv /\ SramInv /\ UnitInv /\ first \in BOOLEAN /\ (acc = NoAccess => first)
      /\ (first => LastPart) /\ acc \in Accesses \cup {NoAccess}
  BY DEF BusInv, TypeOK, LsuTypeOK
<1>2. rows' = IF SramWrites THEN [rows EXCEPT ![ram.row_d0] = glue.hwdata] ELSE rows
  BY DEF Sram
<1>3. SramWrites <=> ~first /\ acc.we /\ OutAddr.word \in SramWords
  BY <1>1 DEF SramWrites, SramInv, GlueInv, Target
<1>4. ASSUME ~first, acc.we, acc.word \in SramWords
      PROVE  acc.size = 4 /\ acc.off = 0 /\ ~Split(acc)
  BY <1>1, <1>4 DEF StoresAreWhole, Split
<1>5. ASSUME ~first, acc.we, OutAddr.word \in SramWords PROVE acc.word \in SramWords
  <2> SUFFICES ASSUME acc.word \notin SramWords PROVE FALSE
    OBVIOUS
  <2>1. LastPart /\ Split(acc) /\ NextWord(acc.word) \in SramWords
    BY <1>5 DEF OutAddr
  <2>2. acc.size = 4 /\ acc.off = 0
    BY <1>1, <1>5, <2>1 DEF StoresAreWhole
  <2> QED BY <2>1, <2>2 DEF Split
<1>6. Advances \/ Waits => ~SramWrites
  <2>1. ASSUME Waits PROVE fabric.hsel_D0 # "sram"
    BY <2>1 DEF Waits, HReady
  <2>2. ASSUME Advances, ~first PROVE ~SramWrites
    BY <1>1, <1>3, <1>4, <1>5, <2>2 DEF Advances, UnitInv
  <2> QED BY <1>1, <1>3, <2>1, <2>2 DEF SramWrites, SramInv
<1>7. ASSUME ~first, acc.we, acc.word \in SramWords
      PROVE  rows' = [rows EXCEPT ![acc.word % SramDepth] = DataWdata(acc)]
  <2>1. OutAddr.word = acc.word
    BY <1>4, <1>7 DEF OutAddr
  <2>2. SramWrites /\ glue.hwdata = DataWdata(acc) /\ ram.row_d0 = acc.word % SramDepth
    BY <1>1, <1>3, <1>7, <2>1 DEF GlueInv, SramInv, SramWrites
  <2> QED BY <1>2, <2>2
<1> QED BY <1>2, <1>3, <1>4, <1>5, <1>6, <1>7

\* Every step keeps the data invariant.
LEMMA DataKeeps ==
  ASSUME StoresAreWhole, DataInv, [Next]_vars
  PROVE  DataInv'
<1>1. BusInv'
  BY BusStepKeeps DEF DataInv
<1>2. CASE Clock
  <2>1. /\ Ends \/ Advances \/ Waits
        /\ Sram /\ History /\ BusInv
    BY <1>2, ClockEdge DEF DataInv
  <2>2. CASE Ends
    BY <1>1, <2>1, <2>2 DEF Ends, History, DataInv
  <2>3. CASE Advances \/ Waits
    <3>1. rows' = rows /\ before' = before
      BY <2>1, <2>3, SramIsWritten DEF Advances, Waits, History
    <3>2. acc' = acc /\ acc # NoAccess
      BY <2>3 DEF Advances, Waits
    <3>3. CASE Waits
      BY <1>1, <3>1, <3>2, <3>3 DEF Waits, DataInv, LastPart, Values
    <3>4. CASE Advances /\ first
      BY <1>1, <3>1, <3>2, <3>4 DEF Advances, DataInv
    <3>5. CASE Advances /\ ~first
      <4>1. /\ HReady /\ DataGnt /\ DataRvalid /\ lsu.cs = "WAIT_RVALID_MIS" /\ lsu \in LsuType
            /\ acc \in Access /\ lsu.we = acc.we /\ OutAddr.word = acc.word
        BY <2>1, <3>5, Signals DEF Advances, BusInv, TypeOK, LsuTypeOK, UnitInv, GlueInv,
                                   LastPart, Captured, OutAddr
      <4>2. PICK rdata \in Word :
              LsuStep(DataGnt, DataRvalid, rdata, FALSE) /\ rdata \in HRData
        BY <1>2, <2>1, <4>1, ClockEdge
      <4>3. ~acc.we => lsu'.rdata_q = rdata
        BY <4>1, <4>2, Signals, <2>1, UnitCaptures
      <4>4. ~acc.we => rdata \in Values(acc.word)
        BY <2>1, <3>5, <4>1, <4>2, ReadsItsWord
      <4>5. ~acc'.we => lsu'.rdata_q \in Values(acc.word)
        BY <3>2, <4>3, <4>4
      <4>6. Values(acc.word)' = Values(acc.word)
        BY <3>1, <3>2 DEF Values
      <4> QED BY <1>1, <3>1, <3>2, <4>5, <4>6 DEF DataInv
    <3> QED BY <2>1, <2>3, <3>3, <3>4, <3>5 DEF BusInv, TypeOK, LsuTypeOK
  <2> QED BY <2>1, <2>2, <2>3
<1>3. CASE Reset
  BY <1>1, <1>3 DEF Reset, DataInv
<1>4. CASE UNCHANGED vars
  BY <1>1, <1>4 DEF vars, lsuVars, busVars, DataInv, LastPart, Values
<1> QED BY <1>2, <1>3, <1>4 DEF Next

\* The memory that the abstract specification sees.
AbstractMem == Memory(IF acc = NoAccess THEN rows ELSE before)

\* The abstract specification means by an access what the unit's module means.
LEMMA SameMeaning ==
  /\ \A m, a : Serial!Loaded(m, a) = Loaded(m, a)
  /\ \A m, a : Serial!Stored(m, a) = Stored(m, a)
  /\ \A m, a : Serial!WithDevices(m, a) = WithReads(m, a, DeviceWords \cup {Word0})
  /\ Serial!NoData = Word0
<1> USE DEF Serial!Place, Place, Serial!NextWord, NextWord, Serial!BytesOf, BytesOf,
            Serial!Lane, Lane
<1>1. \A m, a : Serial!Loaded(m, a) = Loaded(m, a)
  BY DEF Serial!Loaded, Loaded, Serial!Extend, Extend
<1>2. \A m, a : Serial!Stored(m, a) = Stored(m, a)
  BY DEF Serial!Stored, Stored, Serial!StoredBytes, StoredBytes
<1>3. \A m, a : Serial!WithDevices(m, a) = WithReads(m, a, DeviceWords \cup {Word0})
  BY DEF Serial!WithDevices, WithReads, Touched
<1>4. Serial!NoData = Word0
  BY DEF Serial!NoData, Word0
<1> QED BY <1>1, <1>2, <1>3, <1>4

\* The cycle in which an access leaves the ID stage.
LEMMA Leaving ==
  ASSUME DataInv, Clock, Leaves(DataRvalid)
  PROVE  /\ Ends /\ ~first /\ acc # NoAccess /\ acc \in Access /\ acc \in Accesses
         /\ Captured /\ ~lsu.lsu_err /\ HReady /\ DataRvalid /\ LastPart
         /\ acc' \in Accesses \cup {NoAccess}
<1>1. Ends \/ Advances \/ Waits
  BY ClockEdge DEF DataInv
<1>2. Ends
  BY <1>1 DEF Advances, Waits
<1>3. acc # NoAccess /\ ~first
  BY DEF Leaves
<1>4. /\ acc \in Access /\ acc \in Accesses /\ Captured /\ ~lsu.lsu_err
      /\ (~first => DataRvalid = HReady)
  BY <1>3, Signals DEF DataInv, BusInv, TypeOK, LsuTypeOK, GlueInv, UnitInv
<1> QED BY <1>2, <1>3, <1>4 DEF Ends

\* The memory between two accesses, or at the start of the one in progress.
LEMMA MemoryNow ==
  ASSUME DataInv
  PROVE  /\ AbstractMem = Memory(rows)
         /\ Memory(rows) \in [UsedWords -> Word]
         /\ \A w \in WordNo : w % SramDepth \in 0 .. SramDepth - 1
<1>1. AbstractMem = Memory(rows)
  BY DEF DataInv, AbstractMem
<1>2. \A w \in WordNo : w % SramDepth \in 0 .. SramDepth - 1
  BY DataBusAssumption, AccessAssumption DEF WordNo
<1>3. UsedWords \subseteq WordNo /\ rows \in [0 .. SramDepth - 1 -> Word]
  BY DataBusAssumption DEF UsedWords, DataInv, BusInv, TypeOK
<1> QED BY <1>1, <1>2, <1>3 DEF Memory

\* A store makes of the memory what it means.
LEMMA StoreHappens ==
  ASSUME StoresAreWhole, RowsAreOwn, DataInv, DataInv', Clock, Leaves(DataRvalid), acc.we
  PROVE  Serial!Store
<1>1. PICK rdata \in Word : Response(rdata)
  BY ClockEdge DEF DataInv
<1>2. RespKind(FALSE) = "store"
  BY Leaving DEF RespKind, Captured
<1>3. resp' = Serial!Answer("store", Serial!NoData)
  BY <1>1, <1>2, SameMeaning DEF Response
<1>4. Memory(rows') = Stored(Memory(rows), acc)
  <2> DEFINE m == Memory(rows)
  <2>1. /\ acc \in Access /\ acc \in Accesses /\ ~first /\ m \in [UsedWords -> Word]
        /\ UsedWords \subseteq SramWords /\ acc.word \in WordNo
    BY Leaving, MemoryNow, AccessFields DEF UsedWords
  <2>2. Stored(m, acc) = IF Split(acc) THEN PartStored(PartStored(m, acc, FALSE), acc, TRUE)
                                       ELSE PartStored(m, acc, FALSE)
    BY <2>1, PartsMakeTheStore
  <2>3. Sram
    BY ClockEdge DEF DataInv
  <2>4. CASE acc.word \in SramWords
    <3>1. /\ acc.size = 4 /\ acc.off = 0 /\ ~Split(acc)
          /\ rows' = [rows EXCEPT ![acc.word % SramDepth] = DataWdata(acc)]
      BY <2>1, <2>3, <2>4, SramIsWritten DEF DataInv
    <3>2. acc.word \in UsedWords
      BY <2>1, <2>4 DEF UsedWords
    <3>3. DataBe(acc, FALSE) = Lane
      BY <3>1 DEF DataBe, Lane
    <3>4. ASSUME NEW old PROVE Merge(old, DataWdata(acc), DataBe(acc, FALSE)) = DataWdata(acc)
      BY <3>3 DEF Merge, DataWdata
    <3>5. Stored(m, acc) = [m EXCEPT ![acc.word] = DataWdata(acc)]
      <4> HIDE DEF m
      <4> QED BY <2>1, <2>2, <3>1, <3>2, <3>4 DEF PartStored, PartWord
    <3>6. ASSUME NEW w \in UsedWords
          PROVE  rows'[w % SramDepth] = IF w = acc.word THEN DataWdata(acc)
                                        ELSE rows[w % SramDepth]
      <4>1. rows \in [0 .. SramDepth - 1 -> Word] /\ w \in WordNo
        BY <2>1, DataBusAssumption DEF DataInv, BusInv, TypeOK
      <4>2. w % SramDepth \in DOMAIN rows /\ acc.word % SramDepth \in DOMAIN rows
        BY <2>1, <4>1, MemoryNow
      <4>3. w % SramDepth = acc.word % SramDepth => w = acc.word
        BY <3>2 DEF RowsAreOwn
      <4> QED BY <3>1, <4>2, <4>3
    <3>7. Memory(rows') = [w \in UsedWords |-> IF w = acc.word THEN DataWdata(acc)
                                               ELSE rows[w % SramDepth]]
      BY <3>6 DEF Memory
    <3> QED BY <3>2, <3>5, <3>7 DEF Memory
  <2>5. CASE acc.word \notin SramWords
    <3>1. rows' = rows
      BY <2>3, <2>5, SramIsWritten DEF DataInv
    <3>2. Split(acc) => NextWord(acc.word) \notin SramWords
      BY <2>1, <2>5 DEF StoresAreWhole, Split
    <3>3. Stored(m, acc) = m
      <4> HIDE DEF m
      <4> QED BY <2>1, <2>2, <2>5, <3>2 DEF PartStored, PartWord
    <3> QED BY <3>1, <3>3
  <2> QED BY <2>4, <2>5
<1>5. AbstractMem' = Memory(rows')
  BY DEF AbstractMem, DataInv
<1>6. AbstractMem' = Serial!Stored(AbstractMem, acc)
  BY <1>4, <1>5, MemoryNow, SameMeaning
<1> QED BY <1>3, <1>6, Leaving DEF Serial!Store, AbstractMem

\* What a load brings was in memory, or in the devices, at that instant.
LEMMA LoadHappens ==
  ASSUME StoresAreWhole, DataInv, DataInv', Clock, Leaves(DataRvalid), ~acc.we
  PROVE  Serial!Load
<1>1. PICK rdata \in HRData : Response(rdata)
  BY ClockEdge, Leaving DEF DataInv
<1>2. RespKind(FALSE) = IF acc.float THEN "frdata" ELSE "rdata"
  BY Leaving DEF RespKind, Captured
<1>3. RespData(rdata) = DataRdataExt(acc.off, acc.size, acc.sext, lsu.rdata_q, rdata)
  BY Leaving DEF RespData, Captured
<1> DEFINE m == Memory(rows)
           D == DeviceWords \cup {Word0}
<1>4. ASSUME NEW w, w = acc.word \/ (Split(acc) /\ w = NextWord(acc.word))
      PROVE  Values(w) \subseteq ReadIn(m, D, w)
  <2>1. w \in SramWords <=> w \in UsedWords
    BY <1>4, Leaving DEF UsedWords
  <2> QED BY <2>1 DEF Values, ReadIn, Memory
<1>5. \E n \in WithReads(m, acc, D) : Loaded(n, acc) = RespData(rdata)
  <2>1. OutAddr.word = IF Split(acc) THEN NextWord(acc.word) ELSE acc.word
    BY Leaving DEF OutAddr
  <2>2. rdata \in Values(IF Split(acc) THEN NextWord(acc.word) ELSE acc.word)
    BY <1>1, <2>1, Leaving, ReadsItsWord DEF DataInv
  <2>3. Split(acc) => lsu.rdata_q \in Values(acc.word)
    BY Leaving DEF DataInv
  <2>4. acc \in Access
    BY Leaving
  <2> HIDE DEF m, D
  <2>5. rdata \in ReadIn(m, D, IF Split(acc) THEN NextWord(acc.word) ELSE acc.word)
    BY <1>4, <2>2
  <2>6. Split(acc) => lsu.rdata_q \in ReadIn(m, D, acc.word)
    BY <1>4, <2>3
  <2> QED BY <1>3, <2>4, <2>5, <2>6, ReadAtOnce
<1>6. PICK n \in Serial!WithDevices(AbstractMem, acc) : Loaded(n, acc) = RespData(rdata)
  BY <1>5, MemoryNow, SameMeaning
<1>7. resp' = Serial!LoadAnswer(acc, Serial!Loaded(n, acc))
  BY <1>1, <1>2, <1>6, SameMeaning, Leaving DEF Response, Serial!LoadAnswer
<1>8. AbstractMem' = AbstractMem
  <2>1. rows' = rows
    BY ClockEdge, SramIsWritten DEF DataInv
  <2> QED BY <2>1, MemoryNow DEF AbstractMem, DataInv
<1> QED BY <1>6, <1>7, <1>8, Leaving DEF Serial!Load, AbstractMem

\* No other cycle shows.
LEMMA OtherCycles ==
  ASSUME StoresAreWhole, DataInv, DataInv', Clock, ~Leaves(DataRvalid)
  PROVE  Serial!Begin \/ UNCHANGED Serial!vars
<1>1. /\ Ends \/ Advances \/ Waits
      /\ Sram /\ first \in BOOLEAN
  BY ClockEdge DEF DataInv, BusInv, TypeOK, LsuTypeOK
<1>2. rows' = rows
  BY <1>1, SramIsWritten, Signals DEF Ends, DataInv, BusInv, Leaves
<1>3. AbstractMem' = AbstractMem
  BY <1>2, MemoryNow DEF AbstractMem, DataInv
<1>4. resp' = resp
  BY ClockEdge DEF Response, DataInv
<1>5. acc' = acc \/ (acc = NoAccess /\ acc' \in Accesses)
  BY <1>1 DEF Ends, Advances, Waits
<1> QED BY <1>3, <1>4, <1>5 DEF Serial!Begin, Serial!vars, AbstractMem

\* A reset loads the rows it loads into the memory too.
LEMMA ResetHappens ==
  ASSUME DataInv, DataInv', Reset
  PROVE  Serial!Reset
<1>1. acc' = NoAccess /\ resp' = Serial!NoAnswer
  BY DEF Reset
<1> DEFINE loaded == [w \in {v \in UsedWords : v % SramDepth \in DOMAIN Preload} |->
                        Preload[w % SramDepth]]
<1>2. ASSUME NEW w \in UsedWords
      PROVE  rows'[w % SramDepth] = IF w \in DOMAIN loaded THEN loaded[w] ELSE Memory(rows)[w]
  <2>1. w \in WordNo /\ rows \in [0 .. SramDepth - 1 -> Word]
    BY DataBusAssumption DEF UsedWords, DataInv, BusInv, TypeOK
  <2>2. w % SramDepth \in DOMAIN rows
    BY <2>1, MemoryNow
  <2>3. rows' = [r \in DOMAIN rows |-> IF r \in DOMAIN Preload THEN Preload[r] ELSE rows[r]]
    BY DEF Reset
  <2> QED BY <2>2, <2>3 DEF Memory
<1>3. Memory(rows') = [w \in UsedWords |-> IF w \in DOMAIN loaded THEN loaded[w]
                                           ELSE Memory(rows)[w]]
  <2> HIDE DEF loaded
  <2> QED BY <1>2 DEF Memory
<1>4. AbstractMem' = Memory(rows') /\ AbstractMem = Memory(rows)
  BY MemoryNow DEF AbstractMem, DataInv
<1>5. AbstractMem' = [w \in DOMAIN AbstractMem |-> IF w \in DOMAIN loaded THEN loaded[w]
                                                   ELSE AbstractMem[w]]
  <2>1. DOMAIN Memory(rows) = UsedWords
    BY DEF Memory
  <2> HIDE DEF loaded
  <2> QED BY <1>3, <1>4, <2>1
<1> QED BY <1>1, <1>5 DEF Serial!Reset, AbstractMem

\* Every step is one of the abstract memory or leaves it unchanged.
LEMMA EdgeIsSerial ==
  ASSUME StoresAreWhole, RowsAreOwn, DataInv, [Next]_vars
  PROVE  [Serial!Next]_(Serial!vars)
<1> SUFFICES Serial!Next \/ UNCHANGED Serial!vars
  OBVIOUS
<1>1. DataInv'
  BY DataKeeps
<1>2. CASE Clock
  <2>1. CASE Leaves(DataRvalid) /\ acc.we
    BY <1>1, <1>2, <2>1, StoreHappens DEF Serial!Next
  <2>2. CASE Leaves(DataRvalid) /\ ~acc.we
    BY <1>1, <1>2, <2>2, LoadHappens DEF Serial!Next
  <2>3. CASE ~Leaves(DataRvalid)
    BY <1>1, <1>2, <2>3, OtherCycles DEF Serial!Next
  <2> QED BY <2>1, <2>2, <2>3
<1>3. CASE Reset
  BY <1>1, <1>3, ResetHappens DEF Serial!Next
<1>4. CASE UNCHANGED vars
  BY <1>4 DEF vars, lsuVars, busVars, Serial!vars
<1> QED BY <1>2, <1>3, <1>4 DEF Next

--------------------------------------------------------------------------------
(* Theorems                                                                *)

\* Every register of the path keeps its type; the row the SRAM is addressed by is
\* one of its own.
THEOREM PathIsTyped == Spec => []TypeOK
<1>1. BusInv => TypeOK
  BY DEF BusInv
<1> QED BY <1>1, BusInvariant, PTL

\* The SRAM's single port is never asked for a write and a read at once: a store's
\* data phase holds the ID stage, whose request of the same access is a store's too.
THEOREM SramPortIsShared == Spec => []NoSramPortConflict
<1>1. BusInv => NoSramPortConflict
  <2> SUFFICES ASSUME BusInv, SramWrites, SramReads PROVE FALSE
    BY DEF NoSramPortConflict
  <2>1. ~first /\ acc.we
    BY DEF BusInv, TypeOK, LsuTypeOK, SramInv, GlueInv, SramWrites
  <2>2. acc # NoAccess
    BY <2>1 DEF BusInv
  <2> QED BY <2>1, <2>2 DEF SramReads, HWrite
<1> QED BY <1>1, BusInvariant, PTL

\* A peripheral is accessed exactly once for each part of an access to it, in order,
\* with the access's own address and data, however long the access is split over,
\* and whatever was interrupted by a reset before.
THEOREM StrobesAreOnce == Spec => StrobedOnce
<1>1. BusInv /\ [Next]_vars => [Clock /\ Leaves(DataRvalid) => Strobe = Parts(acc)]_vars
  <2> SUFFICES ASSUME BusInv, Leaves(DataRvalid) PROVE Strobe = Parts(acc)
    OBVIOUS
  <2>1. ~first /\ LastPart /\ DataRvalid
    BY DEF Leaves, RespValid, LastPart
  <2>2. HReady
    BY <2>1 DEF DataRvalid
  <2> QED BY <2>1, <2>2, Strobed
<1> QED BY <1>1, BusInvariant, PTL DEF Spec, StrobedOnce

\* For a program whose stores to the SRAM are whole words and that uses no row under
\* two addresses, the whole path, wait states and peripherals included, is one serial
\* memory: what was stored is what is loaded, each once and at one instant.
THEOREM PathIsSerialMemory ==
  ASSUME StoresAreWhole, RowsAreOwn
  PROVE  Spec => Serial!Spec
<1>1. Init => Serial!Init
  BY DEF Init, LsuInit, Serial!Init
<1>2. Init => DataInv
  BY BusInitially DEF Init, LsuInit, DataInv
<1>3. DataInv /\ [Next]_vars => DataInv'
  BY DataKeeps
<1>4. DataInv /\ [Next]_vars => [Serial!Next]_(Serial!vars)
  BY EdgeIsSerial
<1> QED BY <1>1, <1>2, <1>3, <1>4, PTL DEF Spec, Serial!Spec
================================================================================
