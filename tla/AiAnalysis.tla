------------------------------ MODULE AiAnalysis ------------------------------
(***************************************************************************)
(* Analyses by a language model: a request checks the user's consent if it *)
(* is about a portfolio, builds a package of facts from the tables, looks  *)
(* for an answer to the same facts in Redis, has the provider write one,   *)
(* and saves it.  Every step awaits the database, Redis or the provider,   *)
(* so settings, portfolios and stocks change in between.                   *)
(***************************************************************************)
EXTENDS Naturals, FiniteSets

CONSTANTS Readers,          \* users
          AiCalls,          \* requests the server handles at once
          Asked,            \* what may be asked: records [type, target]
          PortfolioOf,      \* [Readers -> the target that is the user's portfolio]
          KnownStocks,      \* targets that are stocks
          NamedGroups,      \* targets that are industries or themes
          MaxAnalyses,      \* bound: analyses asked for
          MaxMeanwhile      \* bound: changes of consents, portfolios and stocks

VARIABLES setting,          \* user_settings: the consent row of each reader
          said,             \* history: what the reader's last change of it said
          consentCall,      \* POST /ai/consent under way
          rows,             \* [Readers -> does the portfolio have transactions]
          halted,           \* stocks that are not active
          cached,           \* ai_cache keys in Redis, with their answers
          analysis,         \* [AiCalls -> the request under way]
          analyses, meanwhile

ai == <<setting, said, consentCall, rows, halted, cached, analysis, analyses, meanwhile>>

NoSetting == [allow |-> FALSE, deleted |-> FALSE, stored |-> FALSE]
Setting(allow) == [allow |-> allow, deleted |-> FALSE, stored |-> TRUE]
NoAnalysis == [step |-> "idle"]
Broken == {"refused", "not found", "raised"}

GInit ==
    /\ setting = [u \in Readers |-> NoSetting]
    /\ said = [u \in Readers |-> FALSE]
    /\ consentCall = [u \in Readers |-> NoAnalysis]
    /\ rows = [u \in Readers |-> FALSE]
    /\ halted = {}
    /\ cached = {}
    /\ analysis = [c \in AiCalls |-> NoAnalysis]
    /\ analyses = 0 /\ meanwhile = 0

-----------------------------------------------------------------------------
(* Consent                                                                 *)

Standing(u) == setting[u].stored /\ ~setting[u].deleted

(* check_portfolio_consent.                                                *)
Consents(u) == Standing(u) /\ setting[u].allow

(* set_portfolio_consent looks for the live row ...                        *)
ConsentRead(u, allow) ==
    /\ meanwhile < MaxMeanwhile
    /\ consentCall[u] = NoAnalysis
    /\ consentCall' = [consentCall EXCEPT ![u] =
          [step |-> "write", allow |-> allow, found |-> Standing(u)]]
    /\ meanwhile' = meanwhile + 1
    /\ UNCHANGED <<setting, said, rows, halted, cached, analysis, analyses>>

(* ... and changes it, whatever became of it since; or inserts one, which  *)
(* fails if there is one by now, or a deleted one: the key is unique.      *)
ConsentWrite(u) ==
    LET call == consentCall[u]
    IN  /\ call.step = "write"
        /\ IF call.found \/ ~setting[u].stored
           THEN /\ setting' = [setting EXCEPT ![u] =
                       IF call.found THEN [@ EXCEPT !.allow = call.allow] ELSE Setting(call.allow)]
                /\ said' = [said EXCEPT ![u] = call.allow]
           ELSE UNCHANGED <<setting, said>>
        /\ consentCall' = [consentCall EXCEPT ![u] = NoAnalysis]
        /\ UNCHANGED <<rows, halted, cached, analysis, analyses, meanwhile>>

(* A device pushes the setting: a tombstone takes no change any more.      *)
SettingPushed(u, allow) ==
    /\ meanwhile < MaxMeanwhile
    /\ ~setting[u].deleted
    /\ setting' = [setting EXCEPT ![u] = Setting(allow)]
    /\ said' = [said EXCEPT ![u] = allow]
    /\ meanwhile' = meanwhile + 1
    /\ UNCHANGED <<consentCall, rows, halted, cached, analysis, analyses>>

SettingDeleted(u) ==
    /\ meanwhile < MaxMeanwhile
    /\ Standing(u)
    /\ setting' = [setting EXCEPT ![u].deleted = TRUE]
    /\ said' = [said EXCEPT ![u] = FALSE]
    /\ meanwhile' = meanwhile + 1
    /\ UNCHANGED <<consentCall, rows, halted, cached, analysis, analyses>>

-----------------------------------------------------------------------------
(* The facts of a request                                                  *)

(* build_portfolio_grounding: the replay is given the rows without their   *)
(* updated_at, which raises for any portfolio that has one.                *)
PortfolioFacts(u, target) ==
    IF target # PortfolioOf[u] THEN "not found"
    ELSE IF rows[u] THEN "raised" ELSE <<"positions", "0", "basis", "0">>

SecurityFacts(target) ==
    IF target \notin KnownStocks THEN "not found"
    ELSE <<target, IF target \in halted THEN "INACTIVE" ELSE "ACTIVE">>

(* An unknown industry has facts, too.                                     *)
IndustryFacts(target) == <<IF target \in NamedGroups THEN target ELSE "group">>

(* The figures of market, comparison and screener are constants: a         *)
(* comparison is known by how many it compares, a screen by its expression.*)
MarketFacts == <<"TAIEX">>
ComparisonFacts(stocks) == <<Cardinality(stocks)>>
ScreenerFacts(expression) == <<expression>>

Facts(u, what) ==
    IF what.type \in {"SECURITY", "PORTFOLIO", "INDUSTRY"} /\ what.target = "none"
    THEN "refused"
    ELSE CASE what.type = "MARKET"     -> MarketFacts
           [] what.type = "SECURITY"   -> SecurityFacts(what.target)
           [] what.type = "PORTFOLIO"  -> PortfolioFacts(u, what.target)
           [] what.type = "INDUSTRY"   -> IndustryFacts(what.target)
           [] what.type = "COMPARISON" -> ComparisonFacts(what.target)
           [] what.type = "SCREENER"   -> ScreenerFacts(what.target)

-----------------------------------------------------------------------------
(* analyze                                                                 *)

At(c, step) == analysis[c].step = step
Goes(c, step) == analysis' = [analysis EXCEPT ![c].step = step]
SameSurroundings == UNCHANGED <<setting, said, consentCall, rows, halted, meanwhile>>

Analyze(c, u, what) ==
    /\ analyses < MaxAnalyses
    /\ analysis[c].step \in {"idle", "answered", "failed"}
    /\ analysis' = [analysis EXCEPT ![c] =
          [step |-> IF what.type = "PORTFOLIO" /\ ~Consents(u) THEN "failed" ELSE "ground",
           user |-> u, what |-> what, said |-> said[u]]]
    /\ analyses' = analyses + 1
    /\ SameSurroundings /\ UNCHANGED cached

Ground(c) ==
    /\ At(c, "ground")
    /\ LET call == analysis[c]
           facts == Facts(call.user, call.what)
       IN  analysis' = [analysis EXCEPT ![c] =
              IF facts \in Broken THEN [call EXCEPT !.step = "failed"]
              ELSE [step |-> "look", user |-> call.user, what |-> call.what,
                    said |-> call.said, facts |-> facts]]
    /\ SameSurroundings /\ UNCHANGED <<cached, analyses>>

(* Variant: the key names what was asked for and not the facts.            *)
CacheKey_Asked(call) == <<call.what.type, call.user, call.what.target>>

(* _compute_cache_key: the type, the user and the facts.                   *)
CacheKey(call) == <<call.what.type, call.user, call.facts>>

Answered(call, answer) ==
    [step |-> "answered", user |-> call.user, what |-> call.what, said |-> call.said,
     facts |-> call.facts, answer |-> answer]

(* An answer in Redis is given, unless it cannot be read.                  *)
LookHit(c) ==
    /\ At(c, "look")
    /\ \E entry \in cached :
          /\ entry.key = CacheKey(analysis[c])
          /\ analysis' = [analysis EXCEPT ![c] = Answered(@, entry.answer)]
    /\ SameSurroundings /\ UNCHANGED <<cached, analyses>>

(* There is none, or Redis fails.                                          *)
LookMiss(c) ==
    /\ At(c, "look")
    /\ Goes(c, "summarize")
    /\ SameSurroundings /\ UNCHANGED <<cached, analyses>>

(* The provider states every fact, and what the type of analysis calls for.*)
WrittenBy(call) == [user |-> call.user, type |-> call.what.type, of |-> call.facts]

(* summarize: the provider is sent the facts and answers, Redis takes the  *)
(* answer or fails.                                                        *)
Summarize(c) ==
    LET call == analysis[c]
        answer == WrittenBy(call)
    IN  /\ At(c, "summarize")
        /\ analysis' = [analysis EXCEPT ![c] = Answered(@, answer)]
        /\ \/ cached' = {e \in cached : e.key # CacheKey(call)}
                          \cup {[key |-> CacheKey(call), answer |-> answer]}
           \/ UNCHANGED cached
        /\ SameSurroundings /\ UNCHANGED analyses

(* The provider is not configured, or fails.                               *)
SummarizeFails(c) ==
    /\ At(c, "summarize")
    /\ Goes(c, "failed")
    /\ SameSurroundings /\ UNCHANGED <<cached, analyses>>

-----------------------------------------------------------------------------
(* Meanwhile                                                               *)

(* A transaction is entered into a portfolio, or a stock is listed or not. *)
FirstTransaction(u) ==
    /\ meanwhile < MaxMeanwhile
    /\ meanwhile' = meanwhile + 1
    /\ rows' = [rows EXCEPT ![u] = TRUE]
    /\ UNCHANGED <<setting, said, consentCall, halted, cached, analysis, analyses>>

Halt(s) ==
    /\ meanwhile < MaxMeanwhile
    /\ s \notin halted
    /\ meanwhile' = meanwhile + 1
    /\ halted' = halted \cup {s}
    /\ UNCHANGED <<setting, said, consentCall, rows, cached, analysis, analyses>>

(* An hour has passed.                                                     *)
AnswerExpires ==
    /\ \E entry \in cached : cached' = cached \ {entry}
    /\ SameSurroundings /\ UNCHANGED <<analysis, analyses>>

AiNext ==
    \/ \E u \in Readers :
          \/ \E allow \in BOOLEAN : ConsentRead(u, allow) \/ SettingPushed(u, allow)
          \/ ConsentWrite(u) \/ SettingDeleted(u) \/ FirstTransaction(u)
    \/ \E c \in AiCalls :
          \/ \E u \in Readers, what \in Asked : Analyze(c, u, what)
          \/ Ground(c) \/ LookHit(c) \/ LookMiss(c) \/ Summarize(c) \/ SummarizeFails(c)
    \/ \E s \in KnownStocks : Halt(s)
    \/ AnswerExpires

AiSpec == GInit /\ [][AiNext]_ai

(* What an analysis answers was written for this user from these very      *)
(* facts, however old it is and whatever has changed since; what goes to   *)
(* the provider about a portfolio is the user's own, and the user's last   *)
(* word when the request was checked, on any device, had been yes.         *)
AnalysesAreOfOwnFacts ==
    \A c \in AiCalls :
        LET call == analysis[c]
        IN  /\ At(c, "answered") =>
                  call.answer = [user |-> call.user, type |-> call.what.type, of |-> call.facts]
            /\ call.step \in {"look", "summarize", "answered"} /\ call.what.type = "PORTFOLIO"
                  => call.said /\ call.what.target = PortfolioOf[call.user]
===============================================================================
