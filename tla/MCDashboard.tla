------------------------------ MODULE MCDashboard ------------------------------
(***************************************************************************)
(* The instance of Dashboard TLC checks: two hourly events, "a" with two   *)
(* strikes and a market whose name has none, "z" that follows it.          *)
(***************************************************************************)
EXTENDS Dashboard, TLC

\* The browser has no spot price until its first refresh.
MCSpots == {NoValue, 12}
MCSymmetry == Permutations(Callbacks)

MCEventTicker == [a1 |-> 1, a2 |-> 1, ax |-> 1, z1 |-> 2]
MCStrike == [a1 |-> 10, a2 |-> 20, ax |-> NoValue, z1 |-> 15]
MCName == [a1 |-> 1, a2 |-> 2, ax |-> 3, z1 |-> 4]

Quote(m, q, t) == [market |-> m, value |-> q, at |-> t]
Trade(m, p, t) == [market |-> m, value |-> p, at |-> t]
Book(m, t) == [market |-> m, value |-> 0, at |-> t]

Past(tickers, trades, books) == [tickers |-> tickers, trades |-> trades, books |-> books]
Comes(s, m, v) == [stream |-> s, market |-> m, value |-> v]

\* Three entries while the callbacks run; a trade repeated after another; strikes
\* about the spot, one quoted only long ago; a roll to the next event; more
\* quotes than a window; a market that only books are of.
MCFeeds ==
    {[past |-> Past(<<Quote("a1", 1, 2)>>, <<>>, <<>>),
      feed |-> <<Comes("trades", "a1", 5), Comes("tickers", "a1", 2), Comes("trades", "a1", 5)>>],
     [past |-> Past(<<Quote("a1", 1, 1)>>,
                    <<Trade("a1", 6, 0), Trade("a1", 5, 1), Trade("a1", 6, 1)>>, <<>>),
      feed |-> <<Comes("trades", "a1", 6)>>],
     [past |-> Past(<<Quote("a2", 1, 1), Quote("ax", 1, 1)>>, <<Trade("a2", 5, 0)>>, <<>>),
      feed |-> <<Comes("tickers", "a1", 1)>>],
     [past |-> Past(<<Quote("a1", 1, 1), Quote("a2", 2, 0)>>, <<>>, <<Book("a1", 2)>>),
      feed |-> <<Comes("books", "z1", 0)>>],
     [past |-> Past(<<Quote("a1", 1, 2), Quote("z1", 1, 2)>>, <<Trade("a1", 5, 2)>>, <<>>),
      feed |-> <<Comes("tickers", "z1", 3)>>],
     [past |-> Past(<<Quote("a2", 1, 1), Quote("a1", 1, 1), Quote("a1", 2, 1)>>, <<>>, <<>>),
      feed |-> <<Comes("tickers", "a1", 3)>>]}
=============================================================================
