---------------------------- MODULE MCVenueFeed ----------------------------
EXTENDS VenueFeed

\* Two usable books whose change passes through a crossed or a one-sided book
\* when its sides arrive one by one, a locked book that loses its only ask, a
\* crossed one that keeps an ask, and a book without asks.
MCBooks == {
    {<<"bid", 1>>, <<"ask", 2>>},
    {<<"bid", 2>>, <<"ask", 3>>},
    {<<"bid", 2>>, <<"ask", 2>>},
    {<<"bid", 2>>, <<"ask", 1>>, <<"ask", 3>>},
    {<<"bid", 1>>}}
=============================================================================
