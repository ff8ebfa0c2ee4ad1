------------------------------ MODULE LtpFeed ------------------------------
(***************************************************************************)
(* Live prices for the browsers of the staff.  A browser asks for a stock; *)
(* the API notes the demand in Redis and keeps it fresh; the adapter of    *)
(* the broker subscribes what is in demand on its one socket, which also   *)
(* streams commodities.  A supervisor logs in and opens the socket, whose  *)
(* callbacks run in a thread of their own; a second task aligns the        *)
(* subscriptions every few seconds.  Ticks are data and left out.          *)
(***************************************************************************)
EXTENDS Integers, FiniteSets

CONSTANTS
  Stocks,        \* symbols with a token
  Browsers,
  NoStock,
  MaxSockets, MaxLogins, MaxFeedFaults    \* bounds

ASSUME FeedAssumption ==
  /\ NoStock \notin Stocks
  /\ {MaxSockets, MaxLogins, MaxFeedFaults} \subseteq Nat

VARIABLES
  \* the API
  asked,        \* _ltp_subs: the one stock a browser looks at
  \* Redis
  want,         \* ltp:want, what is younger than the demand window
  session,      \* angelone:session: "none", "current" or "old"
  \* the adapter
  supervisor,   \* where _run is
  mapped,       \* the token maps are loaded
  ws,           \* _ws: number of the latest socket, 0 before the first
  sockets,      \* of each socket: its state, and the stocks it streams
  opening,      \* sockets whose on_open has not reset the subscriptions yet
  connected,    \* _connected
  subscribed,   \* _equity_subscribed
  aligning,     \* the demand loop: its step and the stocks it read
  logins, feedFaults

feedApi  == <<asked, want>>
feedRun  == <<session, supervisor, mapped, ws, sockets, opening, logins>>
feedVars == <<feedApi, feedRun, connected, subscribed, aligning, feedFaults>>

Socket  == [state : {"unused", "connecting", "open", "closed"}, stocks : SUBSET Stocks]
Unused  == [state |-> "unused", stocks |-> {}]
AtSleep == [step |-> "sleep", desired |-> {}, drop |-> {}]
IsOpen(g) == g > 0 /\ sockets[g].state = "open"
InDemand  == {asked[b] : b \in Browsers} \ {NoStock}

FeedInit ==
  /\ asked = [b \in Browsers |-> NoStock]
  /\ want = {} /\ session = "none"
  /\ supervisor = "login" /\ mapped = FALSE
  /\ ws = 0 /\ sockets = [g \in 1..MaxSockets |-> Unused]
  /\ opening = {} /\ connected = FALSE
  /\ subscribed = {} /\ aligning = AtSleep
  /\ logins = 0 /\ feedFaults = 0

FeedFault == feedFaults < MaxFeedFaults /\ feedFaults' = feedFaults + 1

-----------------------------------------------------------------------------
(* The API.                                                                *)

\* subscribe_ltp and note_demand, which is fail-open.
Ask(b, s) ==
  /\ asked' = [asked EXCEPT ![b] = s]
  /\ \/ want' = want \cup {s} /\ UNCHANGED feedFaults
     \/ FeedFault /\ UNCHANGED want
  /\ UNCHANGED <<feedRun, connected, subscribed, aligning>>

\* unsubscribe_ltp, a closed socket, or a send that found it dead.
Leave(b) ==
  /\ asked[b] # NoStock
  /\ asked' = [asked EXCEPT ![b] = NoStock]
  /\ UNCHANGED <<want, feedRun, connected, subscribed, aligning, feedFaults>>

\* _demand_keepalive.
KeepAlive ==
  /\ ~InDemand \subseteq want
  /\ want' = want \cup InDemand
  /\ UNCHANGED <<asked, feedRun, connected, subscribed, aligning, feedFaults>>

\* The window is three periods of the keepalive: a demand lapses when nobody
\* asks any more, or when the keepalive fails.
DemandLapses(s) ==
  /\ s \in want
  /\ IF s \in InDemand THEN FeedFault ELSE UNCHANGED feedFaults
  /\ want' = want \ {s}
  /\ UNCHANGED <<asked, feedRun, connected, subscribed, aligning>>

-----------------------------------------------------------------------------
(* The supervisor.                                                         *)

Adapter == <<connected, subscribed, aligning>>

MayLogIn == logins < MaxLogins /\ logins' = logins + 1
Outdated == IF session = "current" THEN "old" ELSE session

\* A login makes the published token an old one.
Login ==
  /\ supervisor = "login"
  /\ MayLogIn
  /\ \/ supervisor' = "publish" /\ session' = Outdated /\ UNCHANGED feedFaults
     \/ FeedFault /\ supervisor' = "backoff" /\ UNCHANGED session
  /\ UNCHANGED <<feedApi, Adapter, mapped, ws, sockets, opening>>

\* _publish_session is fail-open.
PublishSession ==
  /\ supervisor = "publish"
  /\ \/ session' = "current" /\ UNCHANGED feedFaults
     \/ FeedFault /\ UNCHANGED session
  /\ supervisor' = "refresh"
  /\ UNCHANGED <<feedApi, Adapter, mapped, ws, sockets, opening, logins>>

\* The maps are read when they are missing or old, and always as a whole.
RefreshScrip ==
  /\ supervisor = "refresh"
  /\ \/ supervisor' = "open" /\ mapped' = TRUE /\ UNCHANGED feedFaults
     \/ FeedFault /\ supervisor' = "backoff" /\ UNCHANGED mapped
  /\ UNCHANGED <<feedApi, Adapter, session, ws, sockets, opening, logins>>

OpenWebsocket ==
  /\ supervisor = "open"
  /\ ws < MaxSockets
  /\ ws' = ws + 1
  /\ sockets' = [sockets EXCEPT ![ws + 1].state = "connecting"]
  /\ connected' = FALSE
  /\ supervisor' = "wait"
  /\ UNCHANGED <<feedApi, subscribed, aligning, session, mapped, opening, logins, feedFaults>>

\* The thread of the latest socket is over.
SocketGone ==
  /\ supervisor = "wait"
  /\ sockets[ws].state = "closed"
  /\ supervisor' = "backoff"
  /\ UNCHANGED <<feedApi, Adapter, session, mapped, ws, sockets, opening, logins, feedFaults>>

\* The daily login while the socket streams.  When it fails, the loop leaves
\* the socket and its thread to themselves and starts over.
Relogin ==
  /\ supervisor = "wait"
  /\ MayLogIn
  /\ \/ session' \in {"current", Outdated} /\ UNCHANGED <<supervisor, feedFaults>>
     \/ FeedFault /\ supervisor' = "backoff" /\ UNCHANGED session
  /\ UNCHANGED <<feedApi, Adapter, mapped, ws, sockets, opening>>

BackOff ==
  /\ supervisor = "backoff"
  /\ supervisor' = "login"
  /\ UNCHANGED <<feedApi, Adapter, session, mapped, ws, sockets, opening, logins, feedFaults>>

-----------------------------------------------------------------------------
(* The thread of a socket.                                                 *)

\* on_open subscribes the commodities on the latest socket, whichever this
\* is; when that one is not open it ends with an error.
SocketOpens(g) ==
  /\ sockets[g].state = "connecting"
  /\ sockets' = [sockets EXCEPT ![g].state = "open"]
  /\ opening' = IF g = ws \/ IsOpen(ws) THEN opening \cup {g} ELSE opening
  /\ UNCHANGED <<feedApi, Adapter, session, supervisor, mapped, ws, logins, feedFaults>>

\* Mutant: the new socket is taken to stream what the old one did.
ForgetSubscriptions_Kept(g) ==
  /\ g \in opening
  /\ opening' = opening \ {g}
  /\ connected' = TRUE
  /\ UNCHANGED <<feedApi, subscribed, aligning, session, supervisor, mapped, ws, sockets,
                 logins, feedFaults>>

\* The rest of on_open.
ForgetSubscriptions(g) ==
  /\ g \in opening
  /\ opening' = opening \ {g}
  /\ subscribed' = {}
  /\ connected' = TRUE
  /\ UNCHANGED <<feedApi, aligning, session, supervisor, mapped, ws, sockets, logins, feedFaults>>

\* The broker, the network or a later login ends it.
SocketDies(g) ==
  /\ sockets[g].state \in {"connecting", "open"}
  /\ sockets' = [sockets EXCEPT ![g] = [state |-> "closed", stocks |-> {}]]
  /\ opening' = opening \ {g}
  /\ UNCHANGED <<feedApi, Adapter, session, supervisor, mapped, ws, logins, feedFaults>>

-----------------------------------------------------------------------------
(* _equity_subscription_loop.                                              *)

ReadDemand ==
  /\ aligning = AtSleep
  /\ ws > 0 /\ connected /\ mapped
  /\ aligning' = [AtSleep EXCEPT !.step = "add", !.desired = want]
  /\ UNCHANGED <<feedApi, feedRun, connected, subscribed, feedFaults>>

\* Both differences are taken now.  A socket that is not open makes the call
\* raise, and the cycle is over.  The call and the update of the set are one
\* step: before it opens another socket the supervisor sleeps for seconds.
AddStocks ==
  /\ aligning.step = "add"
  /\ LET new  == aligning.desired \ subscribed
         idle == subscribed \ aligning.desired
     IN  IF new # {} /\ ~IsOpen(ws)
           THEN aligning' = AtSleep /\ UNCHANGED <<sockets, subscribed>>
           ELSE /\ sockets' = IF new = {} THEN sockets
                              ELSE [sockets EXCEPT ![ws].stocks = @ \cup new]
                /\ subscribed' = subscribed \cup new
                /\ aligning' = IF idle = {} THEN AtSleep
                               ELSE [AtSleep EXCEPT !.step = "drop", !.drop = idle]
  /\ UNCHANGED <<feedApi, connected, session, supervisor, mapped, ws, opening, logins, feedFaults>>

DropStocks ==
  /\ aligning.step = "drop"
  /\ IF IsOpen(ws)
       THEN /\ sockets' = [sockets EXCEPT ![ws].stocks = @ \ aligning.drop]
            /\ subscribed' = subscribed \ aligning.drop
       ELSE UNCHANGED <<sockets, subscribed>>
  /\ aligning' = AtSleep
  /\ UNCHANGED <<feedApi, connected, session, supervisor, mapped, ws, opening, logins, feedFaults>>

-----------------------------------------------------------------------------

FeedNext ==
  \/ \E b \in Browsers : Leave(b) \/ \E s \in Stocks : Ask(b, s)
  \/ KeepAlive \/ \E s \in Stocks : DemandLapses(s)
  \/ Login \/ PublishSession \/ RefreshScrip \/ OpenWebsocket
  \/ SocketGone \/ Relogin \/ BackOff
  \/ \E g \in 1..ws : SocketOpens(g) \/ ForgetSubscriptions(g) \/ SocketDies(g)
  \/ ReadDemand \/ AddStocks \/ DropStocks

FeedSpec == FeedInit /\ [][FeedNext]_feedVars

\* The two loops go on after their sleeps, and on_open comes to its end.
FeedFairness ==
  /\ WF_feedVars(KeepAlive)
  /\ WF_feedVars(ReadDemand \/ AddStocks \/ DropStocks)
  /\ \A g \in 1..MaxSockets : WF_feedVars(ForgetSubscriptions(g))

-----------------------------------------------------------------------------
(* Properties.                                                             *)

FeedTypeOK ==
  /\ asked \in [Browsers -> Stocks \cup {NoStock}]
  /\ UNION {want, subscribed, aligning.desired, aligning.drop} \subseteq Stocks
  /\ session \in {"none", "current", "old"}
  /\ supervisor \in {"login", "publish", "refresh", "open", "wait", "backoff"}
  /\ mapped \in BOOLEAN /\ connected \in BOOLEAN
  /\ ws \in 0..MaxSockets /\ opening \subseteq 1..ws
  /\ sockets \in [1..MaxSockets -> Socket]
  /\ aligning.step \in {"sleep", "add", "drop"}

\* A stock somebody goes on looking at ends up on the latest socket, if that
\* one stays open: reconnects, late callbacks of an older socket, lapses of
\* the demand and cycles that straddle a reconnect do not leave the adapter
\* believing that it streams what it does not
\* (ingestion/adapters/angelone_mcx.py, _on_open and _equity_subscription_loop).
DemandServed ==
  \A s \in Stocks :
    (/\ <>[](\E b \in Browsers : asked[b] = s)
     /\ <>[](IsOpen(ws)))
      => <>[](IsOpen(ws) /\ s \in sockets[ws].stocks)

=============================================================================
