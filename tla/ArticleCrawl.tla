----------------------------- MODULE ArticleCrawl -----------------------------
(***************************************************************************)
(* Fetching one article after another through one ApplicationRuntime:      *)
(*   ArticleCrawlService.crawl   src/aa_crawler/application/service.py     *)
(*   HtmlFetcher.fetch           src/aa_crawler/html/fetcher.py            *)
(*   RobotsPolicy.allowed        src/aa_crawler/robots/policy.py           *)
(*   SourceRegistry              src/aa_crawler/sources/registry.py        *)
(*   SourceProfile               src/aa_crawler/sources/models.py          *)
(*   ParserComposer.create       src/aa_crawler/composition/parser.py      *)
(*                                                                         *)
(* A step is what happens between two uses of the network.  One call of    *)
(* HttpClient.send is one step here; that it ends, and how, is what        *)
(* HttpSend promises and HttpClient implements.  The network answers       *)
(* anything it can, so robots.txt may differ each time it is fetched and   *)
(* redirects may loop, leave the source or point nowhere.                  *)
(***************************************************************************)
EXTENDS Naturals, Sequences, FiniteSets

CONSTANTS
    Pages,          \* URLs that pass _validate_url
    Unusable,       \* a URL that urljoin() builds and _validate_url rejects
    Malformed,      \* a Location value that urljoin() cannot parse
    Origins,        \* scheme, host and port, as robots.txt sees them
    OriginOf,       \* [Pages -> Origins]
    Hosts,          \* normalized hostnames
    HostOf,         \* [Pages -> Hosts]
    Secure,         \* the pages whose URL is https and without credentials
    Profiles,       \* the source profiles of the registry, in order
    MaxRedirects,   \* _MAX_REDIRECTS
    MaxCrawls,      \* bound: crawl() calls of one behaviour
    MaxClears       \* bound: clear_cache() calls of one behaviour

ASSUME UrlAssumption ==
    /\ OriginOf \in [Pages -> Origins]
    /\ HostOf \in [Pages -> Hosts]
    /\ Secure \subseteq Pages
    /\ Unusable \notin Pages /\ Malformed \notin Pages /\ Unusable # Malformed
    /\ MaxRedirects \in Nat

\* SourceProfile: an identifier and the hosts it owns, at least one.  It may name
\* an adapter, which no part of the program provides.
IsProfile(p) ==
    /\ p.domains # {} /\ p.domains \subseteq Hosts
    /\ p.enabled \in BOOLEAN /\ p.adapter \in BOOLEAN

\* SourceRegistry.__init__ accepts them: no profile claims the identifier or a
\* host of an earlier one.
Registers(profiles) ==
    \A i \in DOMAIN profiles :
        /\ IsProfile(profiles[i])
        /\ \A j \in DOMAIN profiles : j < i =>
              /\ profiles[j].source # profiles[i].source
              /\ profiles[j].domains \cap profiles[i].domains = {}

\* Otherwise create_application_runtime() raises (CrawlSession!CreateFails).
ASSUME RegistryAssumption ==
    /\ DOMAIN Profiles = 1..Len(Profiles)
    /\ Registers(Profiles)

\* _host_index
HostIndex ==
    [h \in UNION {Profiles[i].domains : i \in DOMAIN Profiles} |->
        CHOOSE i \in DOMAIN Profiles : h \in Profiles[i].domains]

PagesOf(o) == {p \in Pages : OriginOf[p] = o}

VARIABLES
    pc,             \* where the crawl stands
    url,            \* the URL crawl() was called with
    current,        \* current_url
    hop,            \* requests of the redirect loop already made
    cache,          \* RobotsPolicy._cache: origin -> the pages its rules forbid
    result,         \* how the last crawl ended: an item or an error class
    \* history, for the properties only
    heard,          \* the last robots.txt answer of each origin
    fetched,        \* usable robots.txt answers per origin since the cache was empty
    requested,      \* the pages requested by this crawl, in order
    robotsRequests, \* the robots.txt requests of this crawl
    lastAnswer,     \* what the last page request of this crawl came back with
    crawls,         \* crawl() calls so far
    clears          \* clear_cache() calls so far

historyVars == <<heard, fetched, requested, robotsRequests, lastAnswer>>
boundVars == <<crawls, clears>>
vars == <<pc, url, current, hop, cache, result, historyVars, boundVars>>

Targets == Pages \cup {Unusable, Malformed}

\* The ways HttpClient.send ends without a response (HttpSend!Answers).
SendFailures == {"RequestError", "ResponseError", "unexpected"}

\* What an origin answers to GET /robots.txt, by what the policy does with it:
\* a 2xx body, 401 or 403, 404 or 410, and everything else.
RobotsKinds == {"rules", "forbidden", "missing", "other_status"}

\* What the body of a 2xx page can turn out to be.  A charset whose codec raises
\* a bare UnicodeError ("undefined") is not translated by fetch().  Whatever the
\* parser raises is a ParsingError (ArticlePage).
Bodies == {"not_html", "undecodable", "codec_error", "article", "no_article"}

Results ==
    SendFailures \cup
    {"none", "item", "UnsupportedSourceError", "HtmlError", "HtmlDisallowedError",
     "RobotsError", "TooManyRedirectsError", "HtmlContentTypeError",
     "HtmlDecodingError", "SourceBoundaryError",
     "ParserCompositionError", "ParsingError"}

Init ==
    /\ pc = "idle"
    /\ url \in Targets
    /\ current = url
    /\ hop = 0
    /\ cache = [o \in {} |-> {}]
    /\ result = "none"
    /\ heard = [o \in Origins |-> [kind |-> "nothing", forbids |-> {}]]
    /\ fetched = [o \in Origins |-> 0]
    /\ requested = <<>>
    /\ robotsRequests = 0
    /\ lastAnswer = "none"
    /\ crawls = 0
    /\ clears = 0

\* No profile, as get_by_host() and get_by_url() say it.
NoSource == 0

\* Finding disabled profiles, too.
GetByHost_Disabled(h) == IF h \in DOMAIN HostIndex THEN HostIndex[h] ELSE NoSource

\* SourceRegistry.get_by_host: the position of the profile that owns the host.
GetByHost(h) ==
    IF h \in DOMAIN HostIndex /\ Profiles[HostIndex[h]].enabled
    THEN HostIndex[h] ELSE NoSource

\* SourceRegistry.get_by_url
GetByUrl(u) == IF u \in Secure THEN GetByHost(HostOf[u]) ELSE NoSource

\* crawl() or fetch() returns or raises.
End(r) ==
    /\ pc' = "idle"
    /\ result' = r

\* ArticleCrawlService.crawl up to the call of HtmlFetcher.fetch.
Crawl(u) ==
    /\ pc = "idle"
    /\ crawls < MaxCrawls
    /\ crawls' = crawls + 1
    /\ url' = u
    /\ current' = u
    /\ hop' = 0
    /\ requested' = <<>>
    /\ robotsRequests' = 0
    /\ lastAnswer' = "none"
    /\ IF GetByUrl(u) = NoSource
       THEN End("UnsupportedSourceError")
       ELSE pc' = "hop" /\ result' = "none"
    /\ UNCHANGED <<cache, heard, fetched, clears>>

\* Asking only about the first URL, and following redirects unasked.
Admit_FirstHopOnly(forbidden) ==
    IF hop = 0 /\ current \in forbidden THEN End("HtmlDisallowedError")
                                        ELSE pc' = "page" /\ result' = result

\* Going round the loop again instead of giving a forbidden page up.
Admit_TriesAgain(forbidden) ==
    /\ pc' = IF current \in forbidden THEN "hop" ELSE "page"
    /\ result' = result

\* parser.can_fetch() and the test of its answer in fetch().
Admit(forbidden) ==
    IF current \in forbidden THEN End("HtmlDisallowedError")
                             ELSE pc' = "page" /\ result' = result

\* The head of the redirect loop: validate the URL and look its origin up.
EnterHop ==
    /\ pc = "hop"
    /\ \/ /\ current \notin Pages
          /\ End("HtmlError")
       \/ /\ current \in Pages
          /\ OriginOf[current] \in DOMAIN cache
          /\ Admit(cache[OriginOf[current]])
       \/ /\ current \in Pages
          /\ OriginOf[current] \notin DOMAIN cache
          /\ pc' = "robots"
          /\ result' = result
    /\ UNCHANGED <<url, current, hop, cache, historyVars, boundVars>>

\* Reading a failing robots.txt as "nothing is forbidden".
UsableKinds_FailOpen == {"rules", "forbidden", "missing", "other_status"}

\* The statuses _parser_from_response has an interpretation for.
UsableKinds == {"rules", "forbidden", "missing"}

\* _parser_from_response: the pages a usable answer forbids.
RulesFrom(kind, forbids) ==
    CASE kind = "rules"     -> forbids
      [] kind = "forbidden" -> PagesOf(OriginOf[current])
      [] OTHER              -> {}

\* self._cache[origin] = parser
Remember(o, rules) ==
    cache' = [x \in DOMAIN cache \cup {o} |-> IF x = o THEN rules ELSE cache[x]]

\* robots.txt of the current origin is answered: RobotsPolicy.allowed after send().
RobotsAnswered(kind, forbids) ==
    LET o == OriginOf[current] IN
    /\ pc = "robots"
    /\ robotsRequests' = robotsRequests + 1
    /\ heard' = [heard EXCEPT ![o] = [kind |-> kind, forbids |-> forbids]]
    /\ IF kind \in UsableKinds
       THEN /\ Remember(o, RulesFrom(kind, forbids))
            /\ fetched' = [fetched EXCEPT ![o] = @ + 1]
            /\ Admit(RulesFrom(kind, forbids))
       ELSE /\ End("RobotsError")
            /\ UNCHANGED <<cache, fetched>>
    /\ UNCHANGED <<url, current, hop, requested, lastAnswer, boundVars>>

\* robots.txt could not be fetched: the error of send() ends the crawl.
RobotsUnreachable(f) ==
    /\ pc = "robots"
    /\ robotsRequests' = robotsRequests + 1
    /\ heard' = [heard EXCEPT ![OriginOf[current]] = [kind |-> f, forbids |-> {}]]
    /\ End(f)
    /\ UNCHANGED <<url, current, hop, cache, fetched, requested, lastAnswer, boundVars>>

\* A page request comes back with an answer of some kind.
PageAnswered(answer) ==
    /\ pc = "page"
    /\ requested' = Append(requested, current)
    /\ lastAnswer' = answer
    /\ UNCHANGED <<url, cache, heard, fetched, robotsRequests, boundVars>>

\* send() raises.
PageUnreachable(f) ==
    /\ PageAnswered("failure")
    /\ End(f)
    /\ UNCHANGED <<current, hop>>

\* Any status but 2xx and 3xx, or a 3xx without Location.
PageRefused ==
    /\ PageAnswered("refusal")
    /\ End("ResponseError")
    /\ UNCHANGED <<current, hop>>

\* A loop that makes one request more.
NextHop_OneMore(target) ==
    /\ current' = target
    /\ hop' = hop + 1
    /\ IF hop <= MaxRedirects THEN pc' = "hop" /\ result' = result
                              ELSE End("TooManyRedirectsError")

\* A loop over range(_MAX_REDIRECTS): one request less.
NextHop_OneLess(target) ==
    /\ current' = target
    /\ hop' = hop + 1
    /\ IF hop + 1 < MaxRedirects THEN pc' = "hop" /\ result' = result
                                 ELSE End("TooManyRedirectsError")

\* The loop over range(_MAX_REDIRECTS + 1) goes on, or is exhausted.
NextHop(target) ==
    /\ current' = target
    /\ hop' = hop + 1
    /\ IF hop < MaxRedirects THEN pc' = "hop" /\ result' = result
                             ELSE End("TooManyRedirectsError")

\* A 3xx with a Location, resolved by urljoin().
PageRedirects(target) ==
    /\ PageAnswered("redirect")
    /\ IF target = Malformed
       THEN End("unexpected") /\ UNCHANGED <<current, hop>>
       ELSE NextHop(target)

\* Accepting any registered source as the place a crawl may end.
InsideSource_AnySource == GetByUrl(current) # NoSource

\* The test of the final URL against the requested source.
InsideSource == GetByUrl(current) = GetByUrl(url)

\* Ignoring adapter_key.
Composes_AnyProfile == TRUE

\* ParserComposer.create has a parser for the requested profile, which is enabled
\* and of a supported family by now, if it names no adapter.
Composes == ~Profiles[GetByUrl(url)].adapter

\* ArticleCrawlService.crawl after fetch(): the boundary check and the parser.
ServiceResult(body) ==
    CASE ~InsideSource -> "SourceBoundaryError"
      [] InsideSource /\ ~Composes -> "ParserCompositionError"
      [] InsideSource /\ Composes -> IF body = "article" THEN "item" ELSE "ParsingError"

\* A 2xx page: decoding it, and the rest of the crawl.
PageDelivered(body) ==
    /\ PageAnswered("document")
    /\ End(CASE body = "not_html"    -> "HtmlContentTypeError"
             [] body = "undecodable" -> "HtmlDecodingError"
             [] body = "codec_error" -> "unexpected"
             [] OTHER                -> ServiceResult(body))
    /\ UNCHANGED <<current, hop>>

\* RobotsPolicy.clear_cache, between two crawls.
ClearCache ==
    /\ pc = "idle"
    /\ clears < MaxClears
    /\ clears' = clears + 1
    /\ cache' = [o \in {} |-> {}]
    /\ fetched' = [o \in Origins |-> 0]
    /\ UNCHANGED <<pc, url, current, hop, result, heard, requested, robotsRequests,
                   lastAnswer, crawls>>

RobotsStep ==
    /\ pc = "robots"
    /\ \/ \E forbids \in SUBSET PagesOf(OriginOf[current]) : RobotsAnswered("rules", forbids)
       \/ \E kind \in RobotsKinds \ {"rules"} : RobotsAnswered(kind, {})
       \/ \E f \in SendFailures : RobotsUnreachable(f)

PageStep ==
    \/ \E f \in SendFailures : PageUnreachable(f)
    \/ PageRefused
    \/ \E target \in Targets : PageRedirects(target)
    \/ \E body \in Bodies : PageDelivered(body)

Caller == ClearCache \/ \E u \in Targets : Crawl(u)

Next == Caller \/ EnterHop \/ RobotsStep \/ PageStep

\* send() always ends (HttpClient!EverySendEnds); no caller has to call again.
Fairness == WF_vars(EnterHop) /\ WF_vars(RobotsStep) /\ WF_vars(PageStep)

Spec == Init /\ [][Next]_vars /\ Fairness

-------------------------------------------------------------------------------

TypeOK ==
    /\ pc \in {"idle", "hop", "robots", "page"}
    /\ url \in Targets
    /\ current \in Targets
    /\ hop \in 0..MaxRedirects + 1
    /\ DOMAIN cache \subseteq Origins
    /\ cache \in [DOMAIN cache -> SUBSET Pages]
    /\ result \in Results
    /\ heard \in [Origins -> [kind : RobotsKinds \cup SendFailures \cup {"nothing"},
                              forbids : SUBSET Pages]]
    /\ fetched \in [Origins -> Nat]
    /\ requested \in Seq(Pages)
    /\ robotsRequests \in Nat
    /\ lastAnswer \in {"none", "failure", "refusal", "redirect", "document"}
    /\ crawls \in Nat
    /\ clears \in Nat

\* What the last answer of its origin says about a page, in the terms of RFC 9309.
Permits(p) ==
    LET answer == heard[OriginOf[p]]
    IN  answer.kind = "missing" \/ (answer.kind = "rules" /\ p \notin answer.forbids)

(***************************************************************************)
(* ADR-005, ADR-032: a page is requested only when robots.txt of its own   *)
(* origin was fetched and allows it - the first URL and every redirect     *)
(* target alike, over any number of crawls sharing the cache, and never    *)
(* because robots.txt could not be read.                                   *)
(***************************************************************************)
RobotsRespected == pc = "page" => current \in Pages /\ Permits(current)

(***************************************************************************)
(* The cache holds what the origin last said, is filled by one usable      *)
(* answer, and an answer that could not be used leaves it empty, so that   *)
(* the next crawl asks again.                                              *)
(***************************************************************************)
CacheIsFaithful ==
    \A o \in Origins :
        /\ fetched[o] = (IF o \in DOMAIN cache THEN 1 ELSE 0)
        /\ o \in DOMAIN cache => \A p \in PagesOf(o) : p \notin cache[o] <=> Permits(p)

(***************************************************************************)
(* ADR-020, ADR-021: whatever redirects were followed, an item comes from  *)
(* an https page of a host that one enabled profile claims together with   *)
(* the host that was asked for, and no other profile claims either; and    *)
(* the profile names no adapter, without which it could not be parsed.     *)
(***************************************************************************)
ItemsStayInSource ==
    result = "item" =>
        /\ requested # <<>>
        /\ {url, requested[Len(requested)]} \subseteq Secure
        /\ \E i \in DOMAIN Profiles :
              /\ Profiles[i].enabled /\ ~Profiles[i].adapter
              /\ \A p \in {url, requested[Len(requested)]}, j \in DOMAIN Profiles :
                    HostOf[p] \in Profiles[j].domains <=> j = i

(***************************************************************************)
(* ADR-032: a crawl requests at most _MAX_REDIRECTS + 1 pages and one      *)
(* robots.txt for each, and a URL of no registered source costs nothing.   *)
(***************************************************************************)
TrafficIsBounded ==
    /\ Len(requested) <= MaxRedirects + 1
    /\ robotsRequests <= Len(requested) + 1
    /\ robotsRequests <= MaxRedirects + 1
    /\ GetByUrl(url) = NoSource => requested = <<>> /\ robotsRequests = 0

(***************************************************************************)
(* The error says what happened: too many redirects only after the whole   *)
(* budget of redirects, a robots refusal only for a page that robots.txt   *)
(* forbids and that was not requested, a robots failure only without a     *)
(* usable answer, and what concerns the source or the parser only for a    *)
(* page that was delivered.                                                *)
(***************************************************************************)
ErrorsTellTheCause ==
    /\ result = "TooManyRedirectsError" =>
          Len(requested) = MaxRedirects + 1 /\ lastAnswer = "redirect"
    /\ result = "HtmlDisallowedError" =>
          /\ ~Permits(current)
          /\ \A i \in 1..Len(requested) : requested[i] # current
    /\ result = "RobotsError" => OriginOf[current] \notin DOMAIN cache
    /\ result \in {"SourceBoundaryError", "ParserCompositionError", "ParsingError"} =>
          lastAnswer = "document"

\* A crawl ends, also when redirects lead in a circle.
EveryCrawlEnds == (pc # "idle") ~> (pc = "idle")

(***************************************************************************)
(* README, exit codes and batch table: what a site answers to a page       *)
(* request is a crawl-domain failure, so a redirect never ends a crawl     *)
(* with an exception that is not a CrawlerError.                           *)
(***************************************************************************)
RedirectsStayInTheDomain ==
    result = "unexpected" => lastAnswer # "redirect"
===============================================================================
