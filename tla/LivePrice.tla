----------------------------- MODULE LivePrice -----------------------------
(***************************************************************************)
(* From symbols to broker tokens.  Two maps (NSE, BSE) come from a large   *)
(* file that a background task downloads piece by piece, from a copy in    *)
(* Redis, and symbol by symbol from the search of the broker, with a few   *)
(* lookups per request.  Requests overlap with each other and with the     *)
(* download; a request without a broker session ends before all this.      *)
(***************************************************************************)
EXTENDS Integers, Sequences, SequencesExt, FiniteSets, FiniteSetsExt

CONSTANTS
  Symbols,
  Listed,        \* exchanges a symbol is listed on, a subset of {"NSE", "BSE"}
  Lookalikes,    \* symbols whose search finds others with a name like theirs
  Master,        \* symbols the file covers
  Batches,       \* symbols of one request, as sequences
  Callers,       \* requests that can be under way together
  MaxLookups,    \* _SEARCH_MAX_PER_CALL
  Pieces,        \* pieces of the file
  MaxRefreshes, MaxPriceFaults    \* bounds

ASSUME LivePriceAssumption ==
  /\ Listed \in [Symbols -> SUBSET {"NSE", "BSE"}]
  /\ Master \subseteq Symbols /\ Lookalikes \subseteq Symbols
  /\ \A b \in Batches : ToSet(b) \subseteq Symbols
  /\ {MaxLookups, Pieces} \subseteq Nat \ {0}
  /\ {MaxRefreshes, MaxPriceFaults} \subseteq Nat

VARIABLES
  nse, bse,      \* _equity_tokens, _bse_equity_tokens: symbols that have one
  fresh,         \* _scrip_loaded_at is recent enough
  cached,        \* the maps in Redis, if any
  refresh,       \* _refresh_task: "idle" or "running"
  buffer,        \* pieces in _dl_state, kept from cycle to cycle
  benched,       \* _search_neg
  calls,         \* requests: where they are, symbols to resolve, lookups left,
                 \* and the symbols they find benched
  refreshes, priceFaults

priceVars == <<nse, bse, fresh, cached, refresh, buffer, benched, calls,
               refreshes, priceFaults>>

OnNse == {s \in Symbols : "NSE" \in Listed[s]}
OnBse == {s \in Symbols : "BSE" \in Listed[s]}
NoCall   == [step |-> "idle", rest |-> <<>>, lookups |-> 0, skips |-> {}]
NoCache  == [nse |-> {}, bse |-> {}]

PriceInit ==
  /\ nse = {} /\ bse = {} /\ fresh = FALSE
  /\ cached \in {NoCache, [nse |-> OnNse \cap Master, bse |-> OnBse \cap Master]}
  /\ refresh = "idle" /\ buffer = 0
  /\ benched = {}
  /\ calls = [c \in Callers |-> NoCall]
  /\ refreshes = 0 /\ priceFaults = 0

PriceFault == priceFaults < MaxPriceFaults /\ priceFaults' = priceFaults + 1

-----------------------------------------------------------------------------
(* A request.                                                              *)

\* At most one download at a time; asking for it counts as an attempt.
KickRefresh(maps) ==
  IF refresh = "idle" /\ refreshes < MaxRefreshes
    THEN /\ refresh' = "running"
         /\ refreshes' = refreshes + 1
         /\ fresh' = (maps # {} \/ fresh)
    ELSE UNCHANGED <<refresh, refreshes, fresh>>

\* _ensure_equity_tokens, up to the await of Redis.
Begin(c, batch) ==
  /\ calls[c] = NoCall
  /\ LET step == IF ~fresh /\ nse = {} THEN "cache" ELSE "resolve"
     IN  calls' = [calls EXCEPT ![c] = [step |-> step, rest |-> batch, lookups |-> MaxLookups,
                                       skips |-> IF step = "resolve" THEN benched ELSE {}]]
  /\ IF ~fresh /\ nse # {} THEN KickRefresh(nse) ELSE UNCHANGED <<refresh, refreshes, fresh>>
  /\ UNCHANGED <<nse, bse, cached, buffer, benched, priceFaults>>

\* _load_cached_tokens replaces both maps, whatever they hold by then.
LoadCached(c) ==
  /\ calls[c].step = "cache"
  /\ \/ /\ cached # NoCache
        /\ nse' = cached.nse /\ bse' = cached.bse
        /\ fresh' = TRUE
        /\ IF refresh = "idle" /\ refreshes < MaxRefreshes
             THEN refresh' = "running" /\ refreshes' = refreshes + 1
             ELSE UNCHANGED <<refresh, refreshes>>
        /\ UNCHANGED priceFaults
     \/ /\ IF cached = NoCache THEN UNCHANGED priceFaults ELSE PriceFault
        /\ KickRefresh(nse)
        /\ UNCHANGED <<nse, bse>>
  /\ calls' = [calls EXCEPT ![c].step = "resolve", ![c].skips = benched]
  /\ UNCHANGED <<cached, buffer, benched>>

\* A request asks whether a bench has ended by the clock at which it began to
\* resolve: what is benched then, or since, is so to its end.
Unresolved(c, s) == s \notin nse \cup bse \cup calls[c].skips

\* Mutant: a symbol that needs no lookup uses one up all the same.
Wanted_Wasted(c) ==
  {i \in DOMAIN calls[c].rest : i <= calls[c].lookups /\ Unresolved(c, calls[c].rest[i])}

\* Where the symbols are that may still be looked up in this call.
Wanted(c) ==
  {i \in DOMAIN calls[c].rest : calls[c].lookups > 0 /\ Unresolved(c, calls[c].rest[i])}

\* _resolve_unmapped: on to the next lookup, or to the quotes and the answer.
ResolveNext(c) ==
  /\ calls[c].step = "resolve"
  /\ calls' = [calls EXCEPT ![c] =
       IF Wanted(c) = {} THEN NoCall
       ELSE [@ EXCEPT !.step = "search", !.lookups = @ - 1,
                      !.rest = SubSeq(@, Min(Wanted(c)), Len(@))]]
  /\ UNCHANGED <<nse, bse, fresh, cached, refresh, buffer, benched,
                 refreshes, priceFaults>>

SearchOrder == <<"NSE", "BSE">>

\* _resolve_via_search: the exchanges in order, skipping those that answer
\* with an error.  Without a hit, only a clean "not found" is benched: rows
\* without an exact match count as an error, in every request anew.
Search(c) ==
  LET s == Head(calls[c].rest)
  IN  /\ calls[c].step = "search"
      /\ \E failing \in {{}, {"NSE"}, {"BSE"}, {"NSE", "BSE"}} :
           LET hits == SelectSeq(SearchOrder, LAMBDA x : x \in Listed[s] \ failing)
           IN  /\ IF failing = {} THEN UNCHANGED priceFaults ELSE PriceFault
               /\ nse' = IF hits # <<>> /\ hits[1] = "NSE" THEN nse \cup {s} ELSE nse
               /\ bse' = IF hits # <<>> /\ hits[1] = "BSE" THEN bse \cup {s} ELSE bse
               /\ LET missed == IF hits = <<>> /\ failing = {} THEN {s} \ Lookalikes ELSE {}
                      next   == [calls EXCEPT ![c].step = "resolve", ![c].rest = Tail(@)]
                  IN  /\ benched' = benched \cup missed
                      /\ calls' = [k \in Callers |->
                           IF next[k].step \in {"resolve", "search"}
                             THEN [next[k] EXCEPT !.skips = @ \cup missed] ELSE next[k]]
      /\ UNCHANGED <<fresh, cached, refresh, buffer, refreshes>>

-----------------------------------------------------------------------------
(* The download, and time.                                                 *)

\* One attempt of _download_scrip_master: what came is kept, or is the new
\* start when the server ignored the range.
Download ==
  /\ refresh = "running" /\ buffer < Pieces
  /\ buffer' \in buffer..Pieces \cup {0}
  /\ UNCHANGED <<nse, bse, fresh, cached, refresh, benched, calls, refreshes, priceFaults>>

\* After _SCRIP_MAX_ATTEMPTS the pieces wait for the next cycle.
DownloadEnds ==
  /\ refresh = "running" /\ buffer < Pieces
  /\ refresh' = "idle"
  /\ UNCHANGED <<nse, bse, fresh, cached, buffer, benched, calls, refreshes, priceFaults>>

\* The complete file replaces both maps and goes to Redis, which may fail; a
\* file that cannot be used is thrown away.
Swap ==
  /\ refresh = "running" /\ buffer = Pieces
  /\ refresh' = "idle" /\ buffer' = 0
  /\ LET maps == [nse |-> OnNse \cap Master, bse |-> OnBse \cap Master]
     IN  \/ /\ maps.nse # {}
            /\ nse' = maps.nse /\ bse' = maps.bse
            /\ fresh' = TRUE
            /\ \/ cached' = maps /\ UNCHANGED priceFaults
               \/ PriceFault /\ UNCHANGED cached
         \/ /\ IF maps.nse = {} THEN UNCHANGED priceFaults ELSE PriceFault
            /\ UNCHANGED <<nse, bse, fresh, cached>>
  /\ UNCHANGED <<benched, calls, refreshes>>

\* _SCRIP_REFRESH_S or a quarter of an hour passes; Redis forgets the maps.
GrowOld ==
  /\ \/ fresh' = FALSE /\ UNCHANGED cached
     \/ cached' = NoCache /\ UNCHANGED fresh
  /\ UNCHANGED <<nse, bse, refresh, buffer, benched, calls, refreshes, priceFaults>>

\* _SEARCH_NEG_TTL_S has passed.
BenchEnds(s) ==
  /\ s \in benched
  /\ benched' = benched \ {s}
  /\ UNCHANGED <<nse, bse, fresh, cached, refresh, buffer, calls, refreshes, priceFaults>>

PriceNext ==
  \/ \E c \in Callers, b \in Batches : Begin(c, b)
  \/ \E c \in Callers : LoadCached(c) \/ ResolveNext(c) \/ Search(c)
  \/ Download \/ DownloadEnds \/ Swap \/ GrowOld
  \/ \E s \in Symbols : BenchEnds(s)

PriceSpec == PriceInit /\ [][PriceNext]_priceVars

\* A request that has begun runs to its end; the download may never succeed.
PriceFairness ==
  \A c \in Callers : WF_priceVars(LoadCached(c) \/ ResolveNext(c) \/ Search(c))

-----------------------------------------------------------------------------
(* Properties.                                                             *)

PriceTypeOK ==
  /\ UNION {nse, bse, benched} \subseteq Symbols
  /\ fresh \in BOOLEAN /\ refresh \in {"idle", "running"} /\ buffer \in 0..Pieces
  /\ cached.nse \subseteq Symbols /\ cached.bse \subseteq Symbols
  /\ \A c \in Callers : /\ calls[c].step \in {"idle", "cache", "resolve", "search"}
                        /\ calls[c].lookups \in 0..MaxLookups /\ calls[c].skips \subseteq Symbols
                        /\ calls[c].step = "search" => calls[c].rest # <<>>

\* Where lookups go that give nothing: symbols without a token, ahead of s.
Futile(c, s) ==
  LET rest == calls[c].rest
  IN  {i \in DOMAIN rest : /\ Listed[rest[i]] = {} /\ Unresolved(c, rest[i])
                           /\ s \notin ToSet(SubSeq(rest, 1, i))}

\* A request that gets as far as s, whatever its lookups ahead of s give.
GetsAsFarAs(c, s) ==
  /\ calls[c].step = "resolve" /\ s \in ToSet(calls[c].rest)
  /\ Cardinality(Futile(c, s)) < calls[c].lookups

\* With the file out of reach, searches alone give a listed symbol its token,
\* when requests come again and again that have more lookups than there are
\* futile ones ahead of it: listed symbols ahead, errors and replaced maps do
\* not keep it out for good, and one that is benched costs nobody a lookup.
\* Without such requests a symbol may wait for ever, behind delisted ones whose
\* bench ends between any two requests, or behind a few that only resemble
\* something (kb/live_price.py, _resolve_unmapped and _resolve_via_search).
ListedGetsToken ==
  \A s \in OnNse \cup OnBse :
    []<>(\E c \in Callers : GetsAsFarAs(c, s)) => []<>(s \in nse \cup bse)

=============================================================================
