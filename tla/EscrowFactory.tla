--------------------------- MODULE EscrowFactory ---------------------------
(***************************************************************************)
(* The catalog of escrow contracts.  Anyone deploys one, the admin         *)
(* registers one that exists, and the creator of an entry or the admin     *)
(* deactivates it for good.  Nothing compares addresses: an escrow may be  *)
(* entered again, and be active under one number and not under another.    *)
(*                                                                         *)
(* An action is a call, signed by the role it names, that succeeds.  The   *)
(* code that is deployed and the names are data.                           *)
(***************************************************************************)
EXTENDS SorobanHost, Sequences

CONSTANTS
  EscrowAddresses,
  EscrowUsers,
  EscrowAdmin,
  MaxInstances     \* bound on the number of entries

ASSUME EscrowFactoryAssumption == EscrowAdmin \in EscrowUsers /\ MaxInstances \in Nat

VARIABLE catalog  \* the contract's storage, and the addresses it deployed to

CatalogInit == catalog = [instances |-> <<>>, deployed |-> {}]

-----------------------------------------------------------------------------
(* The calls; the instance with id n is the (n+1)st of the sequence.       *)

\* next_instance_id, and the entry under it.
Entered(x, address, creator) ==
  [x EXCEPT !.instances = Append(@, [address |-> address, creator |-> creator,
                                     active |-> TRUE])]

\* Fault: the host lets an address be deployed to again.
FreeToAnyone(address) == TRUE

\* Deploying to an address twice traps.
FreeAddress(address) == address \notin catalog.deployed

CreateEscrowInstance(caller, address) ==
  /\ FreeAddress(address)
  /\ Len(catalog.instances) < MaxInstances
  /\ catalog' = [Entered(catalog, address, caller) EXCEPT
       !.deployed = @ \union {address}]
  /\ UNCHANGED now

RegisterEscrow(admin, address) ==
  /\ admin = EscrowAdmin
  /\ Len(catalog.instances) < MaxInstances
  /\ catalog' = Entered(catalog, address, admin)
  /\ UNCHANGED now

RemoveEscrow(caller, id) ==
  /\ caller \in {catalog.instances[id].creator, EscrowAdmin}
  /\ catalog' = [catalog EXCEPT !.instances[id].active = FALSE]
  /\ UNCHANGED now

CatalogNext ==
  \/ \E u \in EscrowUsers, address \in EscrowAddresses :
       CreateEscrowInstance(u, address) \/ RegisterEscrow(u, address)
  \/ \E u \in EscrowUsers : \E id \in DOMAIN catalog.instances : RemoveEscrow(u, id)

CatalogSpec == HostInit /\ CatalogInit /\ [][CatalogNext]_<<now, catalog>>

-----------------------------------------------------------------------------
(* Queries and properties.                                                 *)

\* list_escrows.
ListEscrows == {id \in DOMAIN catalog.instances : catalog.instances[id].active}

\* No deployed escrow is lost from the catalog.  Two active entries for one address
\* are never both of others than the admin: a creator who removes an escrow takes
\* it off the list, unless the admin has entered it too.
DeployedIsCataloged ==
  /\ \A address \in catalog.deployed :
       \E id \in DOMAIN catalog.instances : catalog.instances[id].address = address
  /\ \A i, j \in ListEscrows :
       catalog.instances[i].address = catalog.instances[j].address /\ i # j =>
         EscrowAdmin \in {catalog.instances[i].creator, catalog.instances[j].creator}
=============================================================================
