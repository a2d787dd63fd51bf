---------------------------- MODULE MCDeployment ----------------------------
(***************************************************************************)
(* A small instance of Deployment: two chains the SDK knows and one it     *)
(* does not, two urls of which one cannot be dialled, two private keys and *)
(* a text that is none, two builds of which one has a key of wrong length. *)
(***************************************************************************)
EXTENDS Deployment

CONSTANTS alice, up, down, key, other, build1, build2, short

Chain(c, executors) == [chainId |-> c, executors |-> executors]
Rpc(c, urls) == [chainId |-> c, urls |-> urls]

(* Both chains; the second one without executors, and the first one twice; *)
(* a chain the SDK misses.                                                 *)
MCChainFiles ==
    {Unreadable,
     <<Chain(1101, {alice}), Chain(8453, {alice})>>,
     <<Chain(1101, {}), Chain(8453, {}), Chain(1101, {alice})>>,
     <<Chain(1101, {alice}), Chain(7, {alice})>>}

(* Both chains; an url that cannot be dialled, beside a good one and alone;*)
(* an empty list that replaces the list before.                            *)
MCRpcFiles ==
    {Unreadable,
     <<Rpc(8453, {up}), Rpc(1101, {up}), Rpc(7, {up})>>,
     <<Rpc(1101, {up, down}), Rpc(8453, {down})>>,
     <<Rpc(1101, {up}), Rpc(8453, {up}), Rpc(8453, {})>>}

Order(perp, chain) ==
    [perp |-> perp, chain |-> chain, valid |-> TRUE, numeric |-> TRUE]

MCOrders ==
    {Order(100000, 1101), Order(-1, 8453), Order(0, 1101), Order(100000, 7),
     Order(100000, 0), [Order(100000, 8453) EXCEPT !.valid = FALSE],
     [Order(100000, 8453) EXCEPT !.numeric = FALSE]}
=============================================================================
