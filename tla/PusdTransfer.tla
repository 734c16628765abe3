---------------------------- MODULE PusdTransfer ----------------------------
(***************************************************************************)
(* What the PUSD bridge promises a holder who leaves Stellar: a burn is    *)
(* paid out on Arc at most once, never for more than was burned, and what  *)
(* has been paid stays paid.  How the burn is noticed, submitted and       *)
(* confirmed, and what is lost on the way, is left open.                   *)
(***************************************************************************)
EXTENDS Naturals, Sequences

CONSTANTS
  Amounts,  \* amounts of the burns
  MaxBurns  \* bound on the number of burns

VARIABLES
  burned,  \* the amounts burned on Stellar, in order
  paid     \* what was minted on Arc for each of the burns, in the same order

vars == <<burned, paid>>

Init == burned = <<>> /\ paid = <<>>

Burn(amount) ==
  /\ Len(burned) < MaxBurns
  /\ burned' = Append(burned, amount)
  /\ paid' = Append(paid, 0)

Pay(i, amount) ==
  /\ paid[i] = 0
  /\ paid' = [paid EXCEPT ![i] = amount]
  /\ UNCHANGED burned

Next ==
  \/ \E amount \in Amounts : Burn(amount)
  \/ \E i \in DOMAIN burned : \E amount \in 1..burned[i] : Pay(i, amount)

Spec == Init /\ [][Next]_vars

TypeOK ==
  /\ burned \in Seq(Amounts)
  /\ paid \in [DOMAIN burned -> Nat]
=============================================================================
