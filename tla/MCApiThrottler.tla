----------------------------- MODULE MCApiThrottler -----------------------------
EXTENDS ApiThrottler

MCBot == {"mm", "arb"}
MCLimit == {"pool", "order", "cancel", "history"}
MCConfigured == [pool |-> 4, order |-> 3, cancel |-> 1, history |-> 4]
\* A bot's share of cancel is half a request, rounded up.
MCShare == [mm |-> 50, arb |-> 50]
MCInterval == [pool |-> 2, order |-> 2, cancel |-> 1, history |-> 2]
MCMargin == [l \in MCLimit |-> 1]
\* A history request weighs more than half the pool: it never fits.
MCWeight ==
  [pool    |-> [pool |-> 1, order |-> 0, cancel |-> 0, history |-> 0],
   order   |-> [pool |-> 1, order |-> 1, cancel |-> 0, history |-> 0],
   cancel  |-> [pool |-> 2, order |-> 0, cancel |-> 1, history |-> 0],
   history |-> [pool |-> 3, order |-> 0, cancel |-> 0, history |-> 1]]
MCRequester == {1, 2, 3, 4}
MCBotOf == <<"mm", "mm", "arb", "arb">>
MCLimitOf == <<"order", "cancel", "cancel", "history">>
===============================================================================
