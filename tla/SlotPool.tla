------------------------------ MODULE SlotPool ------------------------------
(***************************************************************************)
(* What the manager promises of one kind of run slot: a client enters only *)
(* while fewer clients than the present cap are inside, leaves when it     *)
(* likes, and the cap may change at any time.  Lowering the cap evicts     *)
(* nobody.                                                                 *)
(***************************************************************************)
EXTENDS Naturals, FiniteSets

CONSTANTS Clients, Caps

VARIABLES holders, cap
vars == <<holders, cap>>

Init == holders = {} /\ cap \in Caps

Enter(x) ==
  /\ x \notin holders
  /\ Cardinality(holders) < cap
  /\ holders' = holders \cup {x}
  /\ UNCHANGED cap

Leave(x) ==
  /\ x \in holders
  /\ holders' = holders \ {x}
  /\ UNCHANGED cap

SetCap(l) == cap' = l /\ UNCHANGED holders

Next == (\E x \in Clients : Enter(x) \/ Leave(x)) \/ \E l \in Caps : SetCap(l)

Spec == Init /\ [][Next]_vars

=============================================================================
