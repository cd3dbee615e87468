----------------------------- MODULE UserRequests -----------------------------
(***************************************************************************)
(* What the users of the service do between the daily jobs: their ledger,  *)
(* their change log, their watch lists, their alert rules, their sessions  *)
(* and the streams, screens, rankings, charts, live sectors and analyses   *)
(* they look at.  These share no state but the change log, so a behaviour  *)
(* is about one of them: its subject.                                      *)
(***************************************************************************)
EXTENDS PortfolioRequests, WatchListRequests, EodAlerts, AuthSessions, RealtimeClient,
        Screener, IndustryStrength, Technicals, RealtimeStrength, AiAnalysis

VARIABLE subject

Subjects == {"ledger", "numbers", "lists", "alerts", "sessions", "streams",
             "screens", "rankings", "charts", "sectors", "analyses"}

viewed == <<screens, ranking, chart, live, ai>>
personal == <<request, made, log, book, lists, evars, auth, stream>>
vars == <<subject, personal, viewed>>

Init ==
    /\ subject \in Subjects
    /\ DInit /\ PInit /\ WInit /\ EInit /\ AInit /\ SInit
    /\ ScInit /\ RInit /\ TInit /\ LInit /\ GInit

(* Clients enter, delete and import transactions.                          *)
LedgerNext ==
    /\ subject = "ledger"
    /\ ApiNext \/ ImportNext
    /\ UNCHANGED <<lists, evars, auth, stream, viewed>>

(* Imports and pushes of devices take numbers of the change log.           *)
NumbersNext ==
    /\ subject = "numbers"
    /\ \/ ImportNext
       \/ PushNext /\ UNCHANGED book
    /\ UNCHANGED <<lists, evars, auth, stream, viewed>>

ListsNext == subject = "lists" /\ ListNext /\ UNCHANGED <<book, evars, auth, stream, viewed>>

AlertsNext ==
    /\ subject = "alerts" /\ AlertNext
    /\ UNCHANGED <<request, made, log, book, lists, auth, stream, viewed>>

SessionsNext ==
    /\ subject = "sessions" /\ AuthNext
    /\ UNCHANGED <<request, made, log, book, lists, evars, stream, viewed>>

StreamsNext ==
    /\ subject = "streams" /\ StreamNext
    /\ UNCHANGED <<request, made, log, book, lists, evars, auth, viewed>>

(* What is viewed shares nothing with these, nor with each other.          *)
ScreensNext == subject = "screens" /\ ScreenNext /\ UNCHANGED <<personal, ranking, chart, live, ai>>
RankingsNext == subject = "rankings" /\ RankNext /\ UNCHANGED <<personal, screens, chart, live, ai>>
ChartsNext == subject = "charts" /\ ChartNext /\ UNCHANGED <<personal, screens, ranking, live, ai>>
SectorsNext == subject = "sectors" /\ LiveNext /\ UNCHANGED <<personal, screens, ranking, chart, ai>>
AnalysesNext == subject = "analyses" /\ AiNext /\ UNCHANGED <<personal, screens, ranking, chart, live>>

Next ==
    /\ LedgerNext \/ NumbersNext \/ ListsNext \/ AlertsNext \/ SessionsNext
       \/ StreamsNext \/ ScreensNext \/ RankingsNext \/ ChartsNext
       \/ SectorsNext \/ AnalysesNext
    /\ UNCHANGED subject

(* A device keeps a change in its outbox and pushes it at every            *)
(* synchronisation until it is taken; its user goes on synchronising.      *)
PushRetried ==
    /\ subject = "numbers" /\ PushAttempt
    /\ UNCHANGED <<subject, request, made, book, lists, evars, auth, stream, viewed>>

Spec == Init /\ [][Next]_vars /\ WF_vars(PushRetried)
=============================================================================
