---------------------------- MODULE MasterClient ----------------------------
(***************************************************************************)
(* How a client finds the master of a store, a lock or a scheduler:        *)
(* MasterClient::ClientCall of one thread, for one route key, against the  *)
(* nodes of Placement.  The remote call goes over a kept connection from   *)
(* ResourcePool, or a new one.                                             *)
(***************************************************************************)
EXTENDS Placement, Sequences

VARIABLES
    cache,     \* the address cached for the route key
    call,      \* "idle", "cached" (trying that address), "loop", "failed"
    target,    \* the address of the next remote call
    idx,       \* addrs_idx
    tries,     \* remote calls of the loop so far
    calm,      \* nothing went wrong and nobody was misled since the call began
    conns      \* per node, the connections in the pool: each the number of
               \* late answers on it that nobody read

clientVars == <<cache, call, target, idx, tries, calm, conns>>

ClientTypeOK ==
    /\ cache \in Node \cup {Nobody}
    /\ call \in {"idle", "cached", "loop", "failed"}
    /\ target \in Node \cup {Nobody}
    /\ idx \in Node
    /\ tries \in 0..NNode
    /\ calm \in BOOLEAN
    /\ conns \in [Node -> Seq(0..MaxFail)]

ClientInit ==
    /\ cache = Nobody
    /\ call = "idle"
    /\ target = Nobody /\ idx = 0 /\ tries = 0
    /\ calm = TRUE
    /\ conns = [n \in Node |-> << >>]

\* There is a master, and all nodes that run know it.
Settled ==
    /\ master \in alive \ dropped
    /\ \A n \in alive : view[n] = master

-----------------------------------------------------------------------------
\* The loop begins with a random address that is not the one just tried.
LoopFrom(start, tried) ==
    LET i == IF start = tried THEN (start + 1) % NNode ELSE start IN
    /\ call' = "loop" /\ tries' = 0
    /\ idx' = i /\ target' = i

\* ClientCall with a cached address, or one that is missing or expired.
StartCall(expired, start) ==
    /\ call \in {"idle", "failed"}
    /\ calm' = Settled
    /\ IF cache # Nobody /\ ~expired
       THEN /\ call' = "cached" /\ target' = cache
            /\ UNCHANGED <<idx, tries>>
       ELSE LoopFrom(start, Nobody)
    /\ UNCHANGED <<cache, conns>>

\* CheckMaster of the node: "ok", "nomaster", or a redirect to the master.
CheckMaster(n) ==
    IF master = n THEN [code |-> "ok", redirect |-> Nobody]
    ELSE IF view[n] \in {Nobody, n} THEN [code |-> "nomaster", redirect |-> Nobody]
    ELSE [code |-> "notmaster", redirect |-> view[n]]

Said(code) == [code |-> code, redirect |-> Nobody]

\* What a remote call can return: the node is down, or something goes wrong on
\* the way or behind CheckMaster.
Answers(n) ==
    (IF n \in alive THEN {CheckMaster(n)} ELSE {Said("sys")})
    \cup (IF n \in alive /\ fails < MaxFail THEN {Said("sys"), Said("other")} ELSE {})

\* The connection goes back to the pool unless the call failed on it.
KeepConnection(pool, conn, answer) == IF answer.code = "sys" THEN pool ELSE Append(pool, conn)

\* ProtoAdd, ProtoGet and the like: over the first connection of the pool, or
\* a new one.  The answer to a call that failed may still come on it.
UseConnection(n, answer) ==
    LET conn == IF conns[n] = << >> THEN 0 ELSE Head(conns[n])
        rest == IF conns[n] = << >> THEN << >> ELSE Tail(conns[n])
        late == IF answer.code = "sys" THEN conn + 1 ELSE conn
    IN  conns' = [conns EXCEPT ![n] = KeepConnection(rest, late, answer)]

Returns(result) ==
    /\ call' = result
    /\ target' = Nobody /\ idx' = 0 /\ tries' = 0

\* The answer from the cached address.
TryCached(a, start) ==
    /\ call = "cached"
    /\ UseConnection(target, a)
    /\ CASE a.code = "ok" -> Returns("idle") /\ UNCHANGED cache
         [] a.code = "notmaster" -> /\ cache' = a.redirect
                                    /\ call' = "loop" /\ tries' = 0
                                    /\ idx' = a.redirect /\ target' = a.redirect
         [] a.code = "nomaster" -> cache' = Nobody /\ LoopFrom(start, target)
         [] a.code = "sys" -> LoopFrom(start, target) /\ UNCHANGED cache
         [] OTHER -> Returns("failed") /\ UNCHANGED cache

\* Mutant: one try less than there are addresses.
OneTryLess == tries + 2 < NNode

TriesLeft == tries + 1 < NNode

\* The next address of the loop, or its end.
NextAddr(addr, i) ==
    IF TriesLeft THEN /\ target' = addr /\ idx' = i /\ tries' = tries + 1
                      /\ UNCHANGED call
    ELSE Returns("failed")

\* A turn of the loop over the addresses: redirects are followed.
TryNext(a) ==
    /\ call = "loop"
    /\ UseConnection(target, a)
    /\ CASE a.code = "ok" -> Returns("idle") /\ cache' = target
         [] a.code = "notmaster" -> cache' = a.redirect /\ NextAddr(a.redirect, idx)
         [] a.code \in {"nomaster", "sys"} ->
              LET i == (idx + 1) % NNode IN NextAddr(i, i) /\ UNCHANGED cache
         [] OTHER -> Returns("failed") /\ UNCHANGED cache

\* The remote call returns; an answer that the node did not give is a fault.
RemoteCall(a, start) ==
    /\ a \in Answers(target)
    /\ LET fault == target \in alive /\ a # CheckMaster(target) IN
       /\ fails' = IF fault THEN fails + 1 ELSE fails
       /\ calm' = (calm /\ ~fault)
    /\ TryCached(a, start) \/ TryNext(a)

ClientStep ==
    \/ /\ \E expired \in BOOLEAN, start \in Node : StartCall(expired, start)
       /\ UNCHANGED placementVars
    \/ /\ target # Nobody
       /\ \E a \in Answers(target), start \in Node : RemoteCall(a, start)
       /\ UNCHANGED <<group, master, view, alive, dropped, ordered>>

RouteInit == PlacementInit /\ ClientInit

RouteNext ==
    \/ ClientStep
    \/ /\ PlacementNext
       /\ calm' = (calm /\ Settled')
       /\ UNCHANGED <<cache, call, target, idx, tries, conns>>

routeVars == <<placementVars, clientVars>>
RouteSpec == RouteInit /\ [][RouteNext]_routeVars
RouteTypeOK == PlacementTypeOK /\ ClientTypeOK

-----------------------------------------------------------------------------
\* While nodes that run agree on a master, a call reaches it, whatever address
\* was cached, wherever the loop begins, and although a node is down: every
\* address is tried once, and a redirect costs one try (ClientCall).  And no
\* answer is that of an earlier call: a call that timed out takes its
\* connection away (ProtoAdd, ResourcePool).
MasterIsFound ==
    /\ call = "failed" => ~calm
    /\ \A n \in Node : \A k \in DOMAIN conns[n] : conns[n][k] = 0

\* How far the master is from address i in the order of the loop.
ToMaster(i) == IF master >= i THEN master - i ELSE master + NNode - i

\* While a call is under way and all is calm the nodes agree, and the loop is at
\* the master, or has tries enough left to come to it address by address.
LoopComesToMaster ==
    calm /\ call \in {"cached", "loop"} =>
        /\ Settled
        /\ call = "loop" => \/ target = master
                            \/ target = idx /\ tries + ToMaster(idx) < NNode

\* The inductive invariant behind MasterIsFound.
RouteInv ==
    /\ RouteTypeOK /\ LoopComesToMaster /\ MasterIsFound
    /\ call \in {"cached", "loop"} => target \in Node
=============================================================================
