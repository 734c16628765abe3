----------------------------- MODULE SwapRouter -----------------------------
(***************************************************************************)
(* The swap router: a list of pools that the admin registers, never checked*)
(* against the factory's or against itself, and the search for a way from  *)
(* one token to another over one pool or two.                              *)
(***************************************************************************)
EXTENDS SorobanHost, Sequences

CONSTANTS
  RouteTokens,
  MaxRoutes    \* bound on the number of registered pools

ASSUME RouterAssumption == MaxRoutes \in Nat

VARIABLE router  \* DataKey::Pool of each id, in order

RouterInit == router = <<>>

\* register_pool, signed by the admin.  A pool is known by its place in the list.
RegisterRoute(a, b) ==
  /\ Len(router) < MaxRoutes
  /\ router' = Append(router, [a |-> a, b |-> b])
  /\ UNCHANGED now

RouterNext == \E a, b \in RouteTokens : RegisterRoute(a, b)

RouterSpec == HostInit /\ RouterInit /\ [][RouterNext]_<<now, router>>

-----------------------------------------------------------------------------
(* The search.                                                             *)

Trades(route, in, out) ==
  \/ route.a = in /\ route.b = out
  \/ route.b = in /\ route.a = out

\* The first of some places in the list, 0 for none.
First(places) == IF places = {} THEN 0 ELSE Min(places)

\* find_pool.
FindPool(in, out) == First({i \in DOMAIN router : Trades(router[i], in, out)})

\* Fault: a pool is tried from its first token only.
ReachableOneWay(in, route) == IF route.a = in THEN {route.b} ELSE {}

\* The intermediate token, if the pool has the one paid in.
Reachable(in, route) ==
  IF route.a = in THEN {route.b} ELSE IF route.b = in THEN {route.a} ELSE {}

Hop(i, in, out) == [pool |-> i, in |-> in, out |-> out]

\* find_path: one step if there is a pool for the pair, and otherwise the first
\* pool with a token from which another step leads on; the empty path for none.
FindPath(in, out) ==
  LET Via(i) == {t \in Reachable(in, router[i]) : FindPool(t, out) # 0}
      first  == First({i \in DOMAIN router : Via(i) # {}})
  IN IF FindPool(in, out) # 0 THEN <<Hop(FindPool(in, out), in, out)>>
     ELSE IF first = 0 THEN <<>>
     ELSE LET t == CHOOSE t \in Via(first) : TRUE
          IN <<Hop(first, in, t), Hop(FindPool(t, out), t, out)>>

-----------------------------------------------------------------------------
(* Properties.                                                             *)

\* A path that is found leads from the token paid to the token wanted, each step
\* over a pool that trades it and takes what the one before pays; and a path is
\* found whenever there is one over at most two pools, with one step if one is
\* enough.
RoutesAreRight ==
  \A in, out \in RouteTokens :
    LET path == FindPath(in, out)
        Direct(x, y) == \E i \in DOMAIN router : {router[i].a, router[i].b} = {x, y}
    IN /\ \A k \in DOMAIN path :
            /\ Trades(router[path[k].pool], path[k].in, path[k].out)
            /\ path[k].in = (IF k = 1 THEN in ELSE path[k - 1].out)
       /\ path # <<>> => path[Len(path)].out = out
       /\ Len(path) = 1 <=> Direct(in, out)
       /\ path = <<>> => \A t \in RouteTokens : ~(Direct(in, t) /\ Direct(t, out))
=============================================================================
