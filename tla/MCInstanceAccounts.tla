------------------------- MODULE MCInstanceAccounts -------------------------
(***************************************************************************)
(* Two addresses, one account and one invitation each can be made for; two *)
(* requests at a time.                                                     *)
(***************************************************************************)
EXTENDS InstanceAccounts, TLC

CONSTANTS a1, e1, e2

MCEmail == [a \in Accounts |-> IF a = a1 THEN e1 ELSE e2]
MCPatches == {{"promote", "enable"}, {"demote"}, {"disable"}}

(* Races that void the guards are not followed past the step they end in.  *)
Guarded == ~ rushed /\ ~ crossfire
Swaps == Permutations(Requests)
============================================================================
