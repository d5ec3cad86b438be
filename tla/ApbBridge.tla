------------------------------- MODULE ApbBridge -------------------------------
(***************************************************************************)
(* apb_bridge: the AHB-Lite slave that turns a transfer into an APB one.   *)
(* A write takes LATCH (hold the address until the data comes), W_SELECT   *)
(* and ENABLE, a read R_SELECT and ENABLE; hready is low until ENABLE.     *)
(***************************************************************************)
EXTENDS Integers

CONSTANTS
  Addr, Addr0,    \* addresses, and address 0
  Word, Word0     \* data words, and the word 0

VARIABLE br       \* the registers of the bridge

BridgeStates == {"IDLE", "LATCH", "W_SELECT", "R_SELECT", "ENABLE"}

BridgeType ==
  [cur_state : BridgeStates, haddr_latch : Addr, hwrite_latch : BOOLEAN,
   paddr : Addr, pwrite : BOOLEAN, pwdata : Word, psel : BOOLEAN,
   penable : BOOLEAN, hready : BOOLEAN]

ResetState ==
  [cur_state |-> "IDLE", haddr_latch |-> Addr0, hwrite_latch |-> FALSE,
   paddr |-> Addr0, pwrite |-> FALSE, pwdata |-> Word0, psel |-> FALSE,
   penable |-> FALSE, hready |-> TRUE]

Init == br = ResetState

\* Broken: hready returns one state early in a write.
EnterReadyEarly(nxt) ==
  [br EXCEPT !.cur_state = nxt,
             !.psel    = nxt \in {"W_SELECT", "R_SELECT", "ENABLE"},
             !.penable = nxt = "ENABLE",
             !.hready  = nxt \notin {"LATCH", "R_SELECT"}]

\* The successor state: nxt_state and the registers that follow it.
Enter(nxt) ==
  [br EXCEPT !.cur_state = nxt,
             !.psel    = nxt \in {"W_SELECT", "R_SELECT", "ENABLE"},
             !.penable = nxt = "ENABLE",
             !.hready  = nxt \notin {"LATCH", "W_SELECT", "R_SELECT"}]

\* IDLE and ENABLE take the next transfer, if one is addressed to the bridge.
Stay(hsel) ==
  /\ br.cur_state \in {"IDLE", "ENABLE"} /\ ~hsel
  /\ br' = Enter("IDLE")

Latch(hsel, hwrite, haddr) ==
  /\ br.cur_state \in {"IDLE", "ENABLE"} /\ hsel /\ hwrite
  /\ br' = [Enter("LATCH") EXCEPT !.haddr_latch = haddr, !.hwrite_latch = hwrite]

RSelect(hsel, hwrite, haddr) ==
  /\ br.cur_state \in {"IDLE", "ENABLE"} /\ hsel /\ ~hwrite
  /\ br' = [Enter("R_SELECT") EXCEPT !.paddr = haddr, !.pwrite = hwrite]

WSelect(hwdata) ==
  /\ br.cur_state = "LATCH"
  /\ br' = [Enter("W_SELECT") EXCEPT !.paddr = br.haddr_latch,
                                     !.pwrite = br.hwrite_latch, !.pwdata = hwdata]

Enable ==
  /\ br.cur_state \in {"W_SELECT", "R_SELECT"}
  /\ br' = Enter("ENABLE")

Step(hsel, hwrite, haddr, hwdata) ==
  \/ Stay(hsel) \/ Latch(hsel, hwrite, haddr) \/ RSelect(hsel, hwrite, haddr)
  \/ WSelect(hwdata) \/ Enable
================================================================================
