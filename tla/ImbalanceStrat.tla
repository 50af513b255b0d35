--------------------------- MODULE ImbalanceStrat ---------------------------
(***************************************************************************)
(* The strategy (src/include/strategy.h,                                   *)
(* src/src/strategies/imbalance_strat.cpp), and when the message loop of   *)
(* src/src/backtester.cpp gives it a turn.                                 *)
(*                                                                         *)
(* A step is a message: the book changes to anything, its time goes on,    *)
(* and the strategy may be due.  Best prices are any prices, on an empty   *)
(* side whatever is read past the map; vwap_, which nothing initialises,   *)
(* compares with the middle price in any way.  The statistics decide the   *)
(* size of a trade alone: from the warm-up on it is any of the three.      *)
(* int32_t is an integer up to IntMax that wraps round, and a float, which *)
(* the fees are and the profit passes through, rounds what is past         *)
(* FloatExact.                                                             *)
(***************************************************************************)
EXTENDS Integers, FiniteSets, SequencesExt

CONSTANTS
  Prices,
  Vols,           (* values of bid_vol_ and ask_vol_                       *)
  Times,          (* of messages, in tenths of a second                    *)
  WarmupPeriod,
  MaxPos,         (* max_pos_                                              *)
  PointValue,
  FeesPerSide,
  IntMax,         (* the greatest int32_t                                  *)
  FloatExact,     (* 2^24: a float holds every integer up to it            *)
  MaxTrades       (* bound: trades in a run                                *)

ASSUME StrategyAssumption ==
  /\ Prices \subseteq Nat
  /\ Vols \subseteq Int
  /\ Times \subseteq Nat
  /\ {WarmupPeriod, MaxPos, PointValue, FeesPerSide, IntMax, MaxTrades} \subseteq Nat
  /\ FloatExact \in 1 .. IntMax
  /\ IntMax < FloatExact * 2 ^ 8

VARIABLES
  \* the book and the loop
  time,           (* of the last message of the book                       *)
  prev_time,      (* curr_time of the turn before in this call of          *)
                  (* run_backtest; -1 is the empty string                  *)
  restarted,      (* whether a restart came while the turn to come         *)
                  (* handles events                                        *)
  nested,         (* whether a call outside this one has a turn to end     *)
  bid, ask,       (* best prices                                           *)
  last_turn,      (* when the strategy last had its turn in this call, -1  *)
                  (* if it has not had one                                 *)
  \* the strategy
  update_count_,  (* counted up to WarmupPeriod                            *)
  position_,
  buy_qty_, sell_qty_,
  real_total_buy_px_, real_total_sell_px_,
  fees_,
  pnl_,
  prev_pnl_,
  \* what others get of it
  trades,         (* the trades of this run that the window is told        *)
  log             (* the latest entry in the log of this run               *)

loop     == <<time, prev_time, restarted, nested, bid, ask, last_turn>>
totals   == <<position_, buy_qty_, sell_qty_, real_total_buy_px_, real_total_sell_px_,
              fees_>>
strategy == <<update_count_, totals, pnl_, prev_pnl_, trades, log>>
vars     == <<loop, strategy>>

IntMin == -IntMax - 1

\* Mutant: the sums stay at the limit.
WrapClamped(x) == IF x > IntMax THEN IntMax ELSE IF x < IntMin THEN IntMin ELSE x

\* Mutant: no limit to what a sum can hold.
WrapNever(x) == x

\* What an int32_t holds of x.
Wrap(x) == ((x - IntMin) % (IntMax - IntMin + 1)) + IntMin

Fits(x) == x \in IntMin .. IntMax

\* What the conversion of a float to an int32_t gives on the processors that
\* arm_neon.h, which orderbook.h includes, is for.
Saturate(x) == IF Fits(x) THEN x ELSE IF x > 0 THEN IntMax ELSE IntMin

Abs(x) == IF x < 0 THEN -x ELSE x

\* What a float holds exactly, as it holds everything smaller.
Exact(x) == x \in -FloatExact .. FloatExact

\* How many bits of x are too many for a float; no int32_t has more than eight.
ExtraBits(x) == Cardinality({k \in 0 .. 8 : Abs(x) > FloatExact * 2 ^ k})

\* Of two floats as near as each other to x, the one with an even mantissa.
Nearest(x) ==
  LET gap == 2 ^ ExtraBits(x)
      below == x \div gap
      rest == x % gap
      up == 2 * rest > gap \/ (2 * rest = gap /\ below % 2 = 1)
  IN gap * (IF up THEN below + 1 ELSE below)

Float == [x \in Int |-> IF Exact(x) THEN x ELSE Nearest(x)]

NoEntry == [pnl |-> 0, position |-> 0, trade_count |-> 0]

Init ==
  /\ time = 0
  /\ prev_time = -1
  /\ restarted = FALSE
  /\ nested = FALSE
  /\ bid \in Prices
  /\ ask \in Prices
  /\ last_turn = -1
  /\ update_count_ = 0
  /\ position_ = 0
  /\ buy_qty_ = 0 /\ sell_qty_ = 0
  /\ real_total_buy_px_ = 0 /\ real_total_sell_px_ = 0
  /\ fees_ = 0
  /\ pnl_ = 0 /\ prev_pnl_ = 0
  /\ trades = <<>>
  /\ log = NoEntry

-----------------------------------------------------------------------------
(* on_book_update.  Primed best prices are those of the book after the     *)
(* message.                                                                *)

\* The sign of imbalance_: a total of zero, even of volumes of opposite signs, is none.
ImbalanceSign(bid_vol, ask_vol) ==
  IF bid_vol + ask_vol = 0 \/ bid_vol = ask_vol THEN 0
  ELSE IF bid_vol > ask_vol THEN 1 ELSE -1

TradeSizes == IF update_count_' < WarmupPeriod THEN {1} ELSE 1 .. 3

\* Mutant: the limit does not count the trade in.
MayBuyBeforeTrade(size) == position_ < MaxPos
MayBuy(size) == position_ + size <= MaxPos

MaySell(size) == position_ - size >= -MaxPos

Charge(size) == fees_' = Float[fees_ + FeesPerSide * size]

Buy(size) ==
  /\ position_' = position_ + size
  /\ buy_qty_' = buy_qty_ + size
  /\ real_total_buy_px_' = Wrap(real_total_buy_px_ + Wrap(ask' * size))
  /\ Charge(size)
  /\ trades' = Append(trades, [is_buy |-> TRUE, price |-> ask', size |-> size])
  /\ UNCHANGED <<sell_qty_, real_total_sell_px_>>

Sell(size) ==
  /\ position_' = position_ - size
  /\ sell_qty_' = sell_qty_ + size
  /\ real_total_sell_px_' = Wrap(real_total_sell_px_ + Wrap(bid' * size))
  /\ Charge(size)
  /\ trades' = Append(trades, [is_buy |-> FALSE, price |-> bid', size |-> size])
  /\ UNCHANGED <<buy_qty_, real_total_buy_px_>>

Trade ==
  \E sign \in {ImbalanceSign(b, a) : b \in Vols, a \in Vols}, size \in TradeSizes :
    \/ sign > 0 /\ MayBuy(size) /\ Buy(size)
    \/ sign < 0 /\ MaySell(size) /\ Sell(size)

\* What closing the position would bring or cost.
TheoSell == IF position_' > 0 THEN Wrap(bid' * position_') ELSE 0
TheoBuy  == IF position_' < 0 THEN Wrap(ask' * (-position_')) ELSE 0

\* The difference to the fees is one of floats.
Pnl ==
  LET value == Wrap(real_total_sell_px_' + TheoSell - real_total_buy_px_' - TheoBuy)
  IN Saturate(Float[Float[Wrap(PointValue * value)] - fees_'])

\* log_stats, when the profit has changed; log takes it as a float.
LogStats ==
  /\ log' = IF pnl_' # prev_pnl_
            THEN [pnl |-> Float[pnl_'], position |-> position_',
                  trade_count |-> buy_qty_' + sell_qty_']
            ELSE log
  /\ prev_pnl_' = pnl_'

OnBookUpdate ==
  /\ update_count_' = IF update_count_ < WarmupPeriod THEN update_count_ + 1 ELSE WarmupPeriod
  /\ Trade \/ UNCHANGED <<totals, trades>>
  /\ pnl_' = Pnl
  /\ LogStats

-----------------------------------------------------------------------------
(* The turns.                                                              *)

\* The characters of "SS.m".
Digits(t) == <<(t \div 100) % 6, (t \div 10) % 10, t % 10>>

\* strcmp, which gives the difference of the first two characters that differ.
Strcmp(u, v) ==
  IF u = v THEN 0
  ELSE LET i == CHOOSE i \in DOMAIN u : u[i] # v[i] /\ \A j \in 1 .. i - 1 : u[j] = v[j]
       IN  u[i] - v[i]

\* Whether it is the strategy's turn.  Behind the empty string of a call's first
\* message there may be anything.
Due(curr, prev) ==
  IF prev = -1 THEN BOOLEAN ELSE {Strcmp(Digits(curr), Digits(prev)) >= 2}

\* Behind a restart the turn still has the time of its message, of a book that has gone:
\* it is the next turn that gets a message of the new book, which starts over.
NextMessage ==
  /\ prev_time' \in {t \in Times : t >= time}
  /\ time' = IF restarted THEN 0 ELSE prev_time'
  /\ restarted' = FALSE
  /\ bid' \in Prices
  /\ ask' \in Prices
  /\ UNCHANGED nested

Turn ==
  /\ Len(trades) < MaxTrades
  /\ NextMessage
  /\ TRUE \in Due(prev_time', prev_time)
  /\ last_turn' = prev_time'
  /\ OnBookUpdate

NoTurn ==
  /\ NextMessage
  /\ FALSE \in Due(prev_time', prev_time)
  /\ UNCHANGED <<last_turn, strategy>>

NewCall ==
  /\ prev_time' = -1
  /\ restarted' = FALSE
  /\ last_turn' = -1

\* run_backtest is called once more, after a stop or inside a turn.
Resume ==
  /\ NewCall
  /\ nested' \in {nested, TRUE}
  /\ UNCHANGED <<time, bid, ask, strategy>>

\* The inner call has cleared running_: the outer one ends its turn and leaves the loop.
EndOuterTurn ==
  /\ nested
  /\ Len(trades) < MaxTrades
  /\ nested' \in BOOLEAN
  /\ NewCall
  /\ bid' \in Prices
  /\ ask' \in Prices
  /\ OnBookUpdate
  /\ UNCHANGED time

\* reset_state makes a new strategy, and the book starts from the first message.
Restart ==
  /\ \/ NewCall /\ time' = 0 /\ nested' \in {nested, TRUE}
     \/ restarted' = TRUE /\ last_turn' = -1 /\ UNCHANGED <<time, prev_time, nested>>
  /\ UNCHANGED <<bid, ask>>
  /\ update_count_' = 0
  /\ position_' = 0
  /\ buy_qty_' = 0 /\ sell_qty_' = 0
  /\ real_total_buy_px_' = 0 /\ real_total_sell_px_' = 0
  /\ fees_' = 0
  /\ pnl_' = 0 /\ prev_pnl_' = 0
  /\ trades' = <<>>
  /\ log' = NoEntry

Next == Turn \/ NoTurn \/ EndOuterTurn \/ Resume \/ Restart

Spec == Init /\ [][Next]_vars

-----------------------------------------------------------------------------
(* Properties. *)

TypeOK ==
  /\ time \in Times \cup {0}
  /\ prev_time \in Times \cup {-1}
  /\ restarted \in BOOLEAN /\ nested \in BOOLEAN
  /\ bid \in Prices /\ ask \in Prices
  /\ last_turn \in Times \cup {-1}
  /\ update_count_ \in 0 .. WarmupPeriod
  /\ position_ \in Int
  /\ buy_qty_ \in Nat /\ sell_qty_ \in Nat
  /\ Fits(real_total_buy_px_) /\ Fits(real_total_sell_px_)
  /\ fees_ \in Int
  /\ Fits(pnl_) /\ Fits(prev_pnl_)
  /\ trades \in Seq([is_buy : BOOLEAN, price : Prices, size : 1 .. 3])
  /\ log \in [pnl : Int, position : Int, trade_count : Nat]

\* The position stays within the limit, whatever sizes the trades that led to it had.
PositionWithinLimit == position_ \in -MaxPos .. MaxPos

Sum(list) ==
  LET sum[n \in 0 .. Len(list)] == IF n = 0 THEN 0 ELSE sum[n - 1] + list[n]
  IN sum[Len(list)]

Signed(trade) == IF trade.is_buy THEN trade.size ELSE -trade.size

\* What the trades that the window lists come to at the best prices b and a.
ValueOfTrades(list, b, a) ==
  LET held == Sum([i \in DOMAIN list |-> Signed(list[i])])
      paid == Sum([i \in DOMAIN list |-> Signed(list[i]) * list[i].price])
  IN (IF held > 0 THEN b ELSE a) * held - paid

FeesOfTrades(list) == FeesPerSide * Sum([i \in DOMAIN list |-> list[i].size])

\* The profit after a turn is that of the trades the window was told, at the prices of the
\* moment, through the floats, though the totals it is made of overflow.  So it is their
\* profit itself, in the window and in the last entry of the log, as long as a float holds
\* it and the fees, and what they are taken from: past 2^24 it is rounded.
PnlFollowsTrades ==
  [][Turn \/ EndOuterTurn =>
       LET gross == PointValue * ValueOfTrades(trades', bid', ask')
           fees  == FeesOfTrades(trades')
           net   == gross - fees
       IN Exact(fees) =>
            /\ Fits(gross) => pnl_' = Saturate(Float[Float[gross] - fees])
            /\ Exact(gross) /\ Exact(net) => pnl_' = net /\ log'.pnl = net]_vars

\* backtester.cpp:144, "run strat every 2 seconds in book time": two turns are two
\* seconds apart.  But the difference that is compared with 2 is that of two characters.
TurnsTakeTwoSeconds == [][Turn /\ last_turn # -1 => last_turn' - last_turn >= 20]_vars
=============================================================================
