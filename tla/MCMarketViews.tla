----------------------------- MODULE MCMarketViews -----------------------------
(***************************************************************************)
(* Instances of MarketViews and BatchBars: trades of two venues that come  *)
(* in any order, within a bucket, across buckets and with equal times, and *)
(* a venue silent for an hour; books that cross each other, once their     *)
(* prices are rounded and charged.                                         *)
(***************************************************************************)
EXTENDS BatchBars

T(v, at, price, quantity, n) ==
    [venue |-> v, at |-> at, price |-> price, quantity |-> quantity, n |-> n]

MCTrades == {T(1, 2, 5, 1, 1), T(1, 3, 3, 2, 2), T(2, 3, 4, 1, 3), T(2, 4, 6, 1, 4),
             T(1, 9, 2, 1, 5), T(1, 13, 8, 1, 6)}

MCLegacy == {<<>>, <<T(0, 0, 7, 1, 7), T(0, 0, 1, 2, 8)>>}

Book(bids, asks) == [bids |-> bids, asks |-> asks]

High == Book((107 :> 3) @@ (104 :> 1), (109 :> 1))
Middle == Book((100 :> 2) @@ (98 :> 3), (104 :> 1) @@ (106 :> 2))
Low == Book(97 :> 1, (99 :> 4) @@ (100 :> 1))

MCQuotes == (1 :> {High}) @@ (2 :> {Low, Middle}) @@ (3 :> {High})

MCFee == (1 :> 0) @@ (2 :> 1) @@ (3 :> 0)

\* A state has trades of this process or books: no action reads both.
TradesOrBooks == books = <<>> \/ folded \in Legacy
=============================================================================
