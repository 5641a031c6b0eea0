----------------------------- MODULE RelayBoard -----------------------------
(***************************************************************************)
(* What the relay board is promised, as the comment on changeStepsSorted   *)
(* puts it: relays are not changed several at once; on the way to a new    *)
(* configuration relays are first turned off, then turned on; and the      *)
(* configuration asked for is reached.                                     *)
(*                                                                         *)
(* The first configuration of all is the exception: nobody knows what the  *)
(* board has.  It goes out whole, and then once more from all off, relay   *)
(* by relay.                                                               *)
(***************************************************************************)
CONSTANT Wires

VARIABLES
  board,    \* the relays that are ON
  target,   \* the configuration asked for
  phase     \* what is known of the board: "unknown", "asked", "whole", "known"

vars == <<board, target, phase>>

Init ==
  /\ board \in SUBSET Wires /\ target \in SUBSET Wires
  /\ phase \in {"unknown", "known"}
  /\ phase = "known" => target = board

\* A new configuration is asked for once the last one is in place.
Ask ==
  /\ \/ phase = "unknown" /\ phase' = "asked"
     \/ phase = "known" /\ board = target /\ UNCHANGED phase
  /\ target' \in SUBSET Wires
  /\ UNCHANGED board

SendWhole ==
  /\ phase = "asked"
  /\ board' = target
  /\ phase' = IF target = {} THEN "known" ELSE "whole"
  /\ UNCHANGED target

StartOver ==
  /\ phase = "whole"
  /\ \E wire \in target : board' = {wire}
  /\ phase' = "known"
  /\ UNCHANGED target

TurnOff ==
  /\ phase = "known"
  /\ \E wire \in board \ target : board' = board \ {wire}
  /\ UNCHANGED <<target, phase>>

TurnOn ==
  /\ phase = "known"
  /\ board \ target = {}
  /\ \E wire \in target \ board : board' = board \cup {wire}
  /\ UNCHANGED <<target, phase>>

Send == SendWhole \/ StartOver \/ TurnOff \/ TurnOn

Next == Ask \/ Send

Spec == Init /\ [][Next]_vars /\ WF_vars(Send)

=============================================================================
