------------------------------- MODULE Robot -------------------------------
(***************************************************************************)
(* The trading part of a robot (internal/robot/robot.go): its position,    *)
(* that is the three columns is_buying, deals_count and fact_yield of the  *)
(* robots table, and the two operations that change it.  Prices and yields *)
(* are integers here; the code computes with float64.                      *)
(***************************************************************************)
EXTENDS Integers

Position == [buying : BOOLEAN, deals : Nat, yield : Int]

\* The position RobotStorage.Create and FavouriteRobot store in a new row.
NewPosition == [buying |-> TRUE, deals |-> 0, yield |-> 0]

\* Sensitivity variant of Sell: the deal is not counted.
SellUncounted(pos, price) ==
    [buying |-> TRUE, deals |-> pos.deals, yield |-> pos.yield + price]

Buy(pos, price) ==
    [buying |-> FALSE, deals |-> pos.deals, yield |-> pos.yield - price]
Sell(pos, price) ==
    [buying |-> TRUE, deals |-> pos.deals + 1, yield |-> pos.yield + price]

\* A limit is the pair buy_price, sell_price a robot was created with; a
\* price is the pair the trading service streams.
Quote == [buy : Int, sell : Int]

WantsToBuy(pos, limit, price)  == pos.buying  /\ price.buy  < limit.buy
WantsToSell(pos, limit, price) == ~pos.buying /\ price.sell > limit.sell

(***************************************************************************)
(* Buys and sells alternate, so a position determines how many of each     *)
(* were made: deals sells, and one more buy than that while holding.       *)
(***************************************************************************)
Buys(pos) == pos.deals + (IF pos.buying THEN 0 ELSE 1)
Ops(pos)  == pos.deals + Buys(pos)

\* What the limits of a robot guarantee about the yield of a position.
Floor(pos, limit) == pos.deals * limit.sell - Buys(pos) * limit.buy
=============================================================================
