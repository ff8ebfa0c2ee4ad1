--------------------------- MODULE TradeLifecycle ---------------------------
(***************************************************************************)
(* What the ledger promises of each of its rows, whoever writes it: a      *)
(* trade is recorded once, is entered at most once, is finished at most    *)
(* once, and neither its entry nor its end is ever rewritten.              *)
(***************************************************************************)
CONSTANTS Trades, NoEntry, NoEnd

VARIABLE trade    \* trade[t]: status, entry and end of trade t

Is(t, st) == trade[t].status = st

Becomes(t, st, entry, end) ==
  trade' = [trade EXCEPT ![t] = [status |-> st, entry |-> entry, end |-> end]]

Init ==
  trade = [t \in Trades |-> [status |-> "NONE", entry |-> NoEntry, end |-> NoEnd]]

\* A signal is queued without an entry.
Queue(t) == Is(t, "NONE") /\ Becomes(t, "PENDING", NoEntry, NoEnd)

\* A new or queued signal is entered, at some price and size.
Enter(t) ==
  /\ Is(t, "NONE") \/ Is(t, "PENDING")
  /\ Becomes(t, "OPEN", trade'[t].entry, NoEnd)

\* A new or queued signal is refused; it never has an entry.
Refuse(t) ==
  /\ Is(t, "NONE") \/ Is(t, "PENDING")
  /\ Becomes(t, "REJECTED", NoEntry, trade'[t].end)

\* An open position ends; its entry stays what it was.
Exit(t) == Is(t, "OPEN") /\ Becomes(t, "CLOSED", trade[t].entry, trade'[t].end)

Next == \E t \in Trades : Queue(t) \/ Enter(t) \/ Refuse(t) \/ Exit(t)

Spec == Init /\ [][Next]_trade

=============================================================================
