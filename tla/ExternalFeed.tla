---------------------------- MODULE ExternalFeed ----------------------------
(***************************************************************************)
(* The external price feeds (src/src/marketdata/ExternalFeedManager.cpp and *)
(* NeonFixFeed.cpp): a FIX session, a Hyperliquid or REST poll and a        *)
(* Mettraders web socket, each on a thread of its own, that publish quotes  *)
(* into one table and keep a health flag per feed, which the strategies     *)
(* read. With multi_theo_feeds all run and their flags gate the legs; with  *)
(* a single feed, some errors in a row blank every quote instead.           *)
(***************************************************************************)
EXTENDS Naturals

CONSTANTS
  NeonSymbols, HlSymbols, MetSymbols,   \* what the feeds quote
  ErrorsToBlank,                        \* consecutive_errors_before_invalidate
  MaxSessions                           \* bound: FIX connections

VARIABLES
  setup,     \* "multi", or the single feed: "fix" or "rest"
  feedOn,    \* running_
  fix, aux, met,  \* where fixFeedLoop, auxRestPollLoop or pollLoop, and mettradersFeedLoop are
  session,   \* history: number of the FIX connection
  up,        \* neon_up_, hl_up_, mettraders_up_
  logged,    \* fix_session_logged_on_
  quotes,    \* quotes_by_canonical_: per symbol the FIX connection it is from (0: none; others: 1)
  last,      \* last_quote_: the symbol, or "none" when it is not valid
  streak,    \* consecutive_quote_errors_
  told,      \* history: what the callbacks were told last
  errors,    \* history: errors since the last quote
  live       \* history: the web socket has delivered a quote since it opened

feedState == <<setup, feedOn, fix, aux, met, session, up, logged, quotes, last, streak, told, errors, live>>

Symbols == NeonSymbols \cup HlSymbols \cup MetSymbols
Multi == setup = "multi"
None == "none"
NoQuotes == [s \in Symbols |-> 0]

FeedInit ==
  /\ setup \in {"multi", "fix", "rest"}
  /\ feedOn = FALSE /\ fix = "off" /\ aux = "off" /\ met = "off" /\ session = 0
  /\ up = [neon |-> FALSE, hl |-> FALSE, met |-> FALSE] /\ logged = FALSE
  /\ quotes = NoQuotes /\ last = None /\ streak = 0
  /\ told = None /\ errors = 0 /\ live = FALSE

Quotes == <<quotes, last, streak, told, errors>>
-----------------------------------------------------------------------------
(* publishQuote, recordQuoteErrorForProtectiveInvalidate, getTheoPrice *)
PublishQuote(s, from) ==
  /\ streak' = 0 /\ errors' = 0
  /\ last' = s /\ quotes' = [quotes EXCEPT ![s] = from]
  /\ told' = "quote"

InvalidateQuote == last' = None /\ quotes' = NoQuotes /\ told' = "invalid"
Counted == errors' = IF Multi \/ errors = ErrorsToBlank THEN errors ELSE errors + 1

\* mutant: a feed's error blanks the quotes of the others as well
RecordErrorAnyMode ==
  /\ Counted
  /\ IF streak + 1 < ErrorsToBlank THEN streak' = streak + 1 /\ UNCHANGED <<last, quotes, told>>
     ELSE streak' = 0 /\ InvalidateQuote
RecordError ==
  /\ Counted
  /\ IF Multi THEN streak' = 0 /\ UNCHANGED <<last, quotes, told>>
     ELSE IF streak + 1 < ErrorsToBlank THEN streak' = streak + 1 /\ UNCHANGED <<last, quotes, told>>
     ELSE streak' = 0 /\ InvalidateQuote

GetTheo(s) == IF quotes[s] # 0 THEN s ELSE IF last = s THEN s ELSE None
-----------------------------------------------------------------------------
(* start, stop *)
\* with several feeds a stunnel that does not come up takes only the FIX feed down
Start ==
  /\ fix = "off" /\ aux = "off" /\ ~feedOn
  /\ feedOn' = TRUE
  /\ fix' = IF setup = "rest" THEN "off" ELSE "connect"
  /\ aux' = IF setup = "fix" THEN "off" ELSE "poll"
  /\ met' = IF Multi THEN "dial" ELSE "off"
  /\ UNCHANGED <<setup, session, up, logged, quotes, last, streak, told, errors, live>>

\* the second start (executeTradingLoop) tries the stunnel again before it sees that all run
StartAgain ==
  /\ feedOn /\ Multi
  /\ up' = [up EXCEPT !.neon = FALSE] /\ logged' = FALSE
  /\ UNCHANGED <<setup, feedOn, fix, aux, met, session, quotes, last, streak, told, errors, live>>

Stop ==
  /\ feedOn /\ feedOn' = FALSE
  /\ UNCHANGED <<setup, fix, aux, met, session, up, logged, quotes, last, streak, told, errors, live>>
-----------------------------------------------------------------------------
(* fixFeedLoop, runNeonFixFeed *)
\* mutant: the session callback leaves the flag of the feed alone
SessionStateOnly(on) == logged' = on /\ UNCHANGED up
SessionState(on) == logged' = on /\ up' = IF on THEN up ELSE [up EXCEPT !.neon = FALSE]
FixError == logged' = FALSE /\ up' = [up EXCEPT !.neon = FALSE] /\ RecordError
FixRest == UNCHANGED <<setup, feedOn, aux, met, live>>

FixConnect ==
  /\ fix = "connect" /\ feedOn /\ session < MaxSessions
  /\ session' = session + 1
  /\ SessionState(FALSE) /\ fix' = "dial"
  /\ UNCHANGED Quotes /\ FixRest

\* the connection, then the logon message; only a refused connection waits before the next
Dialled ==
  /\ fix = "dial"
  /\ \/ fix' = "session" /\ UNCHANGED <<up, logged>> /\ UNCHANGED Quotes
     \/ fix' \in {"retry", "connect"} /\ FixError
  /\ UNCHANGED session /\ FixRest

\* logon: the books are cleared and every symbol is requested
Logon ==
  /\ fix = "session" /\ feedOn
  /\ \/ SessionState(TRUE) /\ UNCHANGED fix /\ UNCHANGED Quotes
     \/ FixError /\ fix' = "close"
  /\ UNCHANGED session /\ FixRest

\* a snapshot or an update that leaves both sides known and not crossed
Quoted(s) ==
  /\ fix = "session" /\ feedOn
  /\ PublishQuote(s, session) /\ fix' = "mark"
  /\ UNCHANGED <<session, up, logged>> /\ FixRest
Mark ==
  /\ fix = "mark" /\ fix' = "session"
  /\ up' = [up EXCEPT !.neon = TRUE]
  /\ UNCHANGED <<session, logged>> /\ UNCHANGED Quotes /\ FixRest

\* logout, session reject, a heartbeat that cannot be sent, or the peer is gone
Dropped ==
  /\ fix = "session" /\ feedOn
  /\ FixError /\ fix' = "close"
  /\ UNCHANGED session /\ FixRest

Close ==
  /\ fix = "close" \/ (fix = "session" /\ ~feedOn)
  /\ SessionState(FALSE) /\ fix' = "retry"
  /\ UNCHANGED session /\ UNCHANGED Quotes /\ FixRest

Retry ==
  /\ fix = "retry" \/ (fix = "connect" /\ ~feedOn)
  /\ fix' = IF feedOn THEN "connect" ELSE "end"
  /\ UNCHANGED <<session, up, logged>> /\ UNCHANGED Quotes /\ FixRest
-----------------------------------------------------------------------------
(* fetchAndUpdateHyperliquidMulti; fetchAndUpdate and fetchAndUpdateHyperliquid *)
AuxRest == UNCHANGED <<setup, feedOn, fix, met, session, logged, live>>

HlPoll ==
  /\ Multi /\ aux = "poll" /\ feedOn
  /\ aux' = "match" /\ UNCHANGED up
  /\ UNCHANGED Quotes /\ AuxRest
\* the mids of the legs that are found; none at all is not an error of the transport
HlMatch(s) ==
  /\ aux = "match" /\ aux' = "mark" /\ UNCHANGED up
  /\ PublishQuote(s, 1) \/ UNCHANGED Quotes
  /\ AuxRest
HlMark ==
  /\ aux = "mark" /\ aux' = "poll" /\ up' = [up EXCEPT !.hl = TRUE]
  /\ UNCHANGED Quotes /\ AuxRest
\* no answer, one that does not parse, or no mids in it
HlFails ==
  /\ aux = "match" /\ aux' = "poll"
  /\ up' = [up EXCEPT !.hl = FALSE]
  /\ UNCHANGED <<quotes, last, streak, told, errors>> /\ AuxRest

RestQuote(s) ==
  /\ setup = "rest" /\ aux = "poll" /\ feedOn
  /\ PublishQuote(s, 1) /\ up' = [up EXCEPT !.hl = TRUE]
  /\ UNCHANGED aux /\ AuxRest
RestFails ==
  /\ setup = "rest" /\ aux = "poll" /\ feedOn
  /\ RecordError /\ up' = [up EXCEPT !.hl = FALSE]
  /\ UNCHANGED aux /\ AuxRest

AuxEnds ==
  /\ aux = "poll" /\ ~feedOn /\ aux' = "end"
  /\ UNCHANGED up /\ UNCHANGED Quotes /\ AuxRest
-----------------------------------------------------------------------------
(* mettradersFeedLoop *)
MetRest == UNCHANGED <<setup, feedOn, fix, aux, session, logged>>
\* a route table or an URL that is not usable ends the thread; there is one connection attempt
MetRoutes ==
  /\ met = "dial" /\ met' \in {"connecting", "end"}
  /\ up' = [up EXCEPT !.met = FALSE] /\ UNCHANGED live
  /\ UNCHANGED Quotes /\ MetRest
MetOpen ==
  /\ met = "connecting" /\ feedOn /\ met' = "open"
  /\ UNCHANGED <<up, live>> /\ UNCHANGED Quotes /\ MetRest
\* a well-formed message of a routed instrument; others change nothing
MetMessage ==
  /\ met = "open" /\ feedOn /\ met' = "publish"
  /\ up' = [up EXCEPT !.met = TRUE] /\ UNCHANGED live
  /\ UNCHANGED Quotes /\ MetRest
MetPublish(s) ==
  /\ met = "publish" /\ met' = "open" /\ live' = TRUE
  /\ PublishQuote(s, 1)
  /\ UNCHANGED up /\ MetRest
MetLost ==
  /\ met \in {"connecting", "open"} /\ feedOn /\ met' = "lost"
  /\ up' = [up EXCEPT !.met = FALSE] /\ live' = FALSE
  /\ UNCHANGED Quotes /\ MetRest
MetEnds ==
  /\ met \in {"connecting", "open", "lost"} /\ ~feedOn /\ met' = "end"
  /\ up' = [up EXCEPT !.met = FALSE] /\ live' = FALSE
  /\ UNCHANGED Quotes /\ MetRest

FeedNext ==
  \/ Start \/ StartAgain \/ Stop
  \/ FixConnect \/ Dialled \/ Logon \/ Mark \/ Dropped \/ Close \/ Retry
  \/ \E s \in NeonSymbols : Quoted(s)
  \/ \E s \in HlSymbols : HlMatch(s) \/ RestQuote(s)
  \/ HlPoll \/ HlMark \/ HlFails \/ RestFails \/ AuxEnds
  \/ MetRoutes \/ MetOpen \/ MetMessage \/ MetLost \/ MetEnds
  \/ \E s \in MetSymbols : MetPublish(s)

FeedSpec == FeedInit /\ [][FeedNext]_feedState
-----------------------------------------------------------------------------
\* A feed whose flag is up has delivered a quote on the connection it has now: the FIX feed for
\* one of its symbols at least, the web socket for one or it is about to; and the FIX session is
\* taken for logged on only while there is one. (The flag of the Hyperliquid poll says only that
\* the last poll was answered.)
UpIsFresh ==
  /\ up.neon => fix \in {"session", "mark"} /\ \E s \in NeonSymbols : quotes[s] = session
  /\ up.met => met = "publish" \/ (met = "open" /\ live)
  /\ logged => fix \in {"session", "mark"}

\* With a single feed, as many errors in a row as configured leave no symbol with a theo, and the
\* strategies know. With several, the error of one feed blanks no quote and tells nobody that
\* every quote is gone.
Blanked ==
  IF Multi THEN told # "invalid" /\ (told = "quote" => last # None)
  ELSE errors = ErrorsToBlank => (\A s \in Symbols : GetTheo(s) = None) /\ told = "invalid"
=============================================================================
