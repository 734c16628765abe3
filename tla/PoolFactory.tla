---------------------------- MODULE PoolFactory ----------------------------
(***************************************************************************)
(* The catalog of pools, one per pair of tokens.  Anyone deploys a pool    *)
(* for a pair that has none, the admin registers one that exists, and a    *)
(* pool is removed by its creator or the admin and reactivated by the      *)
(* admin.  The index of a pair is never taken back, so that a removed pool *)
(* keeps its pair.                                                         *)
(*                                                                         *)
(* An action is a call, signed by the role it names, that succeeds.  Fees, *)
(* kinds and names of pools are data that no call looks at afterwards.     *)
(***************************************************************************)
EXTENDS SorobanHost, Sequences

CONSTANTS
  PoolTokens,
  PoolAddresses,
  PoolUsers,
  FactoryAdmin,
  MaxPools       \* bound on the number of pools

ASSUME FactoryAssumption == FactoryAdmin \in PoolUsers /\ MaxPools \in Nat

VARIABLE factory  \* the contract's storage, and the addresses it deployed to

\* pair_key orders the two tokens: a pair is the set of them.
Pair(a, b) == {a, b}

Pairs == {Pair(a, b) : a, b \in PoolTokens}

FactoryInit == factory = [pools |-> <<>>, index |-> [p \in Pairs |-> 0], deployed |-> {}]

-----------------------------------------------------------------------------
(* The calls; the pool with id n is the (n+1)st of the sequence.           *)

Cataloged(x, pair, address, creator) ==
  [x EXCEPT
     !.pools = Append(@, [pair |-> pair, address |-> address, creator |-> creator,
                          active |-> TRUE]),
     !.index[pair] = Len(x.pools) + 1]

\* Deploying to an address twice traps.  The new pool is not initialized here.
CreatePool(caller, a, b, address) ==
  /\ factory.index[Pair(a, b)] = 0
  /\ address \notin factory.deployed
  /\ Len(factory.pools) < MaxPools
  /\ factory' = [Cataloged(factory, Pair(a, b), address, caller) EXCEPT
       !.deployed = @ \union {address}]
  /\ UNCHANGED now

RegisterPool(admin, a, b, address) ==
  /\ admin = FactoryAdmin
  /\ factory.index[Pair(a, b)] = 0
  /\ Len(factory.pools) < MaxPools
  /\ factory' = Cataloged(factory, Pair(a, b), address, admin)
  /\ UNCHANGED now

RemovePool(caller, id) ==
  /\ caller \in {factory.pools[id].creator, FactoryAdmin}
  /\ factory' = [factory EXCEPT !.pools[id].active = FALSE]
  /\ UNCHANGED now

ReactivatePool(admin, id) ==
  /\ admin = FactoryAdmin
  /\ factory' = [factory EXCEPT !.pools[id].active = TRUE]
  /\ UNCHANGED now

FactoryNext ==
  \/ \E u \in PoolUsers, a, b \in PoolTokens, address \in PoolAddresses :
       CreatePool(u, a, b, address) \/ RegisterPool(u, a, b, address)
  \/ \E u \in PoolUsers : \E id \in DOMAIN factory.pools :
       RemovePool(u, id) \/ ReactivatePool(u, id)

FactorySpec == HostInit /\ FactoryInit /\ [][FactoryNext]_<<now, factory>>

-----------------------------------------------------------------------------
(* Queries and properties.                                                 *)

\* list_pools: the active ones; what find_pool answers may be inactive.
ListPools == {id \in DOMAIN factory.pools : factory.pools[id].active}

\* find_pool: the id for two tokens in either order, 0 for none.
PoolFor(a, b) == factory.index[Pair(a, b)]

\* The index and the catalog agree: a pair has at most one pool, removed or not,
\* and find_pool, asked for the tokens in either order, answers with that one; so
\* of the pools that list_pools shows, no two trade the same pair, also after one
\* was removed, its pair asked for again, and the old pool reactivated.
PairHasOnePool ==
  /\ \A a, b \in PoolTokens :
       {id \in DOMAIN factory.pools : factory.pools[id].pair = {a, b}}
         = IF PoolFor(a, b) = 0 THEN {} ELSE {PoolFor(a, b)}
  /\ \A i, j \in ListPools : factory.pools[i].pair = factory.pools[j].pair => i = j
=============================================================================
