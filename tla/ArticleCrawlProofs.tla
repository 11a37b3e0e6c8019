-------------------------- MODULE ArticleCrawlProofs --------------------------
(***************************************************************************)
(* Theorems about ArticleCrawl for every set of pages, origins and         *)
(* sources, every assignment of pages to them and every redirect budget,   *)
(* with any number of crawls that share one robots cache.                  *)
(***************************************************************************)
EXTENDS ArticleCrawl, TLAPS

\* What the step that ends a crawl and the two loop helpers may do.
LEMMA AdmitFacts ==
    ASSUME NEW forbidden, Admit(forbidden)
    PROVE  \/ current \in forbidden /\ pc' = "idle" /\ result' = "HtmlDisallowedError"
           \/ current \notin forbidden /\ pc' = "page" /\ result' = result
  BY DEF Admit, End

\* The pages a usable robots.txt answer forbids are pages of the origin asked.
LEMMA RulesFacts ==
    ASSUME current \in Pages, NEW kind, NEW forbids \in SUBSET PagesOf(OriginOf[current])
    PROVE  RulesFrom(kind, forbids) \in SUBSET PagesOf(OriginOf[current])
  BY DEF RulesFrom

(***************************************************************************)
(* In a registry the constructor accepted, two URLs that resolve to one    *)
(* profile have hosts of that enabled profile, which is the one looked up, *)
(* and of no other.                                                        *)
(***************************************************************************)
LEMMA OwnerFacts ==
    ASSUME NEW u, NEW v, GetByUrl(u) # NoSource, GetByUrl(u) = GetByUrl(v)
    PROVE  /\ {u, v} \subseteq Secure
           /\ \E i \in DOMAIN Profiles :
                 /\ Profiles[i].enabled /\ Profiles[i] = Profiles[GetByUrl(u)]
                 /\ \A p \in {u, v}, j \in DOMAIN Profiles :
                       HostOf[p] \in Profiles[j].domains <=> j = i
  <1> DEFINE owner == GetByUrl(u)
  <1>1. \A p \in {u, v} : p \in Secure /\ GetByHost(HostOf[p]) = owner /\ owner # NoSource
    BY DEF GetByUrl
  <1>2. \A h \in DOMAIN HostIndex :
            HostIndex[h] \in DOMAIN Profiles /\ h \in Profiles[HostIndex[h]].domains
    BY DEF HostIndex
  <1>3. \A p \in {u, v} : /\ HostOf[p] \in DOMAIN HostIndex
                         /\ HostIndex[HostOf[p]] = owner
                         /\ Profiles[owner].enabled
    BY <1>1 DEF GetByHost
  <1>4. \A i, j \in DOMAIN Profiles : i # j => Profiles[i].domains \cap Profiles[j].domains = {}
    BY RegistryAssumption DEF Registers
  <1>5. QED
    BY <1>1, <1>2, <1>3, <1>4

\* The results a delivered page can lead to.
LEMMA DeliveredFacts ==
    ASSUME NEW body \in Bodies, PageDelivered(body)
    PROVE  /\ pc' = "idle"
           /\ result' \in Results
           /\ result' = "item" => InsideSource /\ Composes
           /\ result' \notin {"TooManyRedirectsError", "HtmlDisallowedError", "RobotsError"}
  BY DEF PageDelivered, ServiceResult, End, Bodies, Results, SendFailures

-------------------------------------------------------------------------------

(***************************************************************************)
(* The loop is where its counters say: in the loop the current URL has its *)
(* source, "robots" is reached only with a valid URL of an origin that is  *)
(* not cached, "page" only when it is, and each completed round made one   *)
(* page request and at most one robots.txt request.                        *)
(***************************************************************************)
LoopInv ==
    /\ pc # "idle" => GetByUrl(url) # NoSource
    /\ pc # "idle" => hop = Len(requested) /\ hop <= MaxRedirects
    /\ pc \in {"hop", "robots"} => robotsRequests <= hop
    /\ pc = "page" => robotsRequests <= hop + 1
    /\ pc \in {"robots", "page"} => current \in Pages
    /\ pc = "robots" => OriginOf[current] \notin DOMAIN cache
    /\ pc = "page" => OriginOf[current] \in DOMAIN cache

\* TypeOK and LoopInv together are inductive.
LEMMA LoopInvariant == Spec => [](TypeOK /\ LoopInv)
  <1> USE UrlAssumption
  <1>1. Init => TypeOK /\ LoopInv
    BY DEF Init, TypeOK, LoopInv, Results
  <1>2. TypeOK /\ LoopInv /\ [Next]_vars => (TypeOK /\ LoopInv)'
    <2> SUFFICES ASSUME TypeOK, LoopInv, [Next]_vars
                 PROVE  TypeOK' /\ LoopInv'
      OBVIOUS
    <2>1. CASE ClearCache
      BY <2>1 DEF ClearCache, TypeOK, LoopInv
    <2>2. ASSUME NEW u \in Targets, Crawl(u)
          PROVE  TypeOK' /\ LoopInv'
      BY <2>2 DEF Crawl, End, TypeOK, LoopInv, Results
    <2>3. CASE EnterHop
      BY <2>3, AdmitFacts
      DEF EnterHop, End, historyVars, boundVars, TypeOK, LoopInv, Results
    <2>4. ASSUME NEW kind \in RobotsKinds, NEW forbids \in SUBSET PagesOf(OriginOf[current]),
                 RobotsAnswered(kind, forbids)
          PROVE  TypeOK' /\ LoopInv'
      <3>1. current \in Pages /\ OriginOf[current] \in Origins
        BY <2>4 DEF RobotsAnswered, LoopInv
      <3>2. RulesFrom(kind, forbids) \in SUBSET Pages /\ forbids \in SUBSET Pages
        BY <3>1, RulesFacts DEF PagesOf
      <3>3. CASE kind \in UsableKinds
        <4>1. /\ DOMAIN cache' = DOMAIN cache \cup {OriginOf[current]}
              /\ cache' \in [DOMAIN cache' -> SUBSET Pages]
          BY <2>4, <3>1, <3>2, <3>3 DEF RobotsAnswered, Remember, TypeOK
        <4>2. Admit(RulesFrom(kind, forbids))
          BY <2>4, <3>3 DEF RobotsAnswered
        <4>3. heard' \in [Origins -> [kind : RobotsKinds \cup SendFailures \cup {"nothing"},
                                     forbids : SUBSET Pages]]
          BY <2>4, <3>1, <3>2 DEF RobotsAnswered, TypeOK
        <4>4. fetched' \in [Origins -> Nat]
          <5>1. /\ fetched \in [Origins -> Nat] /\ OriginOf[current] \in Origins
                /\ fetched' = [fetched EXCEPT ![OriginOf[current]] = @ + 1]
            BY <2>4, <3>1, <3>3 DEF RobotsAnswered, TypeOK
          <5>2. fetched[OriginOf[current]] + 1 \in Nat
            BY <5>1
          <5>3. QED
            BY <5>1, <5>2, Zenon
        <4>5. TypeOK'
          BY <2>4, <4>1, <4>2, <4>3, <4>4, AdmitFacts
          DEF RobotsAnswered, boundVars, TypeOK, Results, RobotsKinds
        <4>6. LoopInv'
          BY <2>4, <3>1, <3>3, <4>1, <4>2, AdmitFacts
          DEF RobotsAnswered, boundVars, TypeOK, LoopInv
        <4>7. QED
          BY <4>5, <4>6
      <3>4. CASE kind \notin UsableKinds
        BY <2>4, <3>1, <3>2, <3>4
        DEF RobotsAnswered, End, boundVars, TypeOK, LoopInv, Results, RobotsKinds
      <3>5. QED
        BY <3>3, <3>4
    <2>5. ASSUME NEW f \in SendFailures, RobotsUnreachable(f)
          PROVE  TypeOK' /\ LoopInv'
      BY <2>5 DEF RobotsUnreachable, End, boundVars, TypeOK, LoopInv, Results
    <2>6. ASSUME NEW answer \in {"failure", "refusal", "redirect", "document"},
                 PageAnswered(answer)
          PROVE  /\ pc = "page"
                 /\ requested' \in Seq(Pages)
                 /\ Len(requested') = Len(requested) + 1
                 /\ lastAnswer' = answer
                 /\ UNCHANGED <<url, cache, heard, fetched, robotsRequests, boundVars>>
      BY <2>6 DEF PageAnswered, TypeOK, LoopInv
    <2>7. ASSUME NEW f \in SendFailures, PageUnreachable(f)
          PROVE  TypeOK' /\ LoopInv'
      BY <2>6, <2>7 DEF PageUnreachable, End, boundVars, TypeOK, LoopInv, Results
    <2>8. CASE PageRefused
      BY <2>6, <2>8 DEF PageRefused, End, boundVars, TypeOK, LoopInv, Results, SendFailures
    <2>9. ASSUME NEW target \in Targets, PageRedirects(target)
          PROVE  TypeOK' /\ LoopInv'
      BY <2>6, <2>9
      DEF PageRedirects, NextHop, End, boundVars, TypeOK, LoopInv, Results, SendFailures
    <2>10. ASSUME NEW body \in Bodies, PageDelivered(body)
           PROVE  TypeOK' /\ LoopInv'
      BY <2>6, <2>10, DeliveredFacts DEF PageDelivered, boundVars, TypeOK, LoopInv
    <2>11. CASE UNCHANGED vars
      BY <2>11 DEF vars, historyVars, boundVars, TypeOK, LoopInv
    <2>12. QED
      BY <2>1, <2>2, <2>3, <2>4, <2>5, <2>7, <2>8, <2>9, <2>10, <2>11
      DEF Next, Caller, RobotsStep, PageStep, RobotsKinds
  <1>3. QED
    BY <1>1, <1>2, PTL DEF Spec

\* ArticleCrawl stays in its state space: the redirect counter never passes
\* _MAX_REDIRECTS + 1, and the cache maps origins to sets of pages.
THEOREM TypeCorrect == Spec => []TypeOK
  BY LoopInvariant, PTL

-------------------------------------------------------------------------------

(***************************************************************************)
(* Why robots.txt is obeyed: the cache says what the origins said, and     *)
(* while a crawl runs its earlier pages stay permitted, since an origin    *)
(* with a cache entry is not asked again.                                  *)
(***************************************************************************)
RequestedWasPermitted ==
    pc # "idle" =>
        \A i \in 1..Len(requested) :
            OriginOf[requested[i]] \in DOMAIN cache /\ Permits(requested[i])

RobotsInv == CacheIsFaithful /\ RobotsRespected /\ RequestedWasPermitted

\* What asking an uncached origin for robots.txt does to the robots state.
LEMMA AskedFacts ==
    ASSUME TypeOK, LoopInv, RobotsInv,
           NEW kind \in RobotsKinds, NEW forbids \in SUBSET PagesOf(OriginOf[current]),
           RobotsAnswered(kind, forbids), kind \in UsableKinds
    PROVE  /\ CacheIsFaithful'
           /\ \A p \in Pages : OriginOf[p] \in DOMAIN cache =>
                 OriginOf[p] \in DOMAIN cache' /\ Permits(p)' = Permits(p)
           /\ current \notin RulesFrom(kind, forbids) => Permits(current)'
           /\ OriginOf[current] \in DOMAIN cache'
  <1> USE UrlAssumption
  <1> DEFINE o == OriginOf[current]
  <1>1. /\ current \in Pages /\ o \in Origins /\ o \notin DOMAIN cache
        /\ current' = current
        /\ heard' = [heard EXCEPT ![o] = [kind |-> kind, forbids |-> forbids]]
        /\ fetched' = [fetched EXCEPT ![o] = @ + 1]
        /\ cache' = [x \in DOMAIN cache \cup {o} |->
                         IF x = o THEN RulesFrom(kind, forbids) ELSE cache[x]]
    BY DEF RobotsAnswered, Remember, LoopInv
  <1>2. \A p \in PagesOf(o) : p \notin RulesFrom(kind, forbids) <=> Permits(p)'
    BY <1>1 DEF PagesOf, RulesFrom, Permits, TypeOK, UsableKinds
  <1>3. \A p \in Pages : OriginOf[p] # o => heard'[OriginOf[p]] = heard[OriginOf[p]]
    BY <1>1 DEF TypeOK
  <1>4. \A p \in Pages : OriginOf[p] # o => Permits(p)' = Permits(p)
    BY <1>3 DEF Permits
  <1>5. ASSUME NEW x \in Origins
        PROVE  /\ fetched'[x] = (IF x \in DOMAIN cache' THEN 1 ELSE 0)
               /\ x \in DOMAIN cache' => \A p \in PagesOf(x) : p \notin cache'[x] <=> Permits(p)'
    <2>1. CASE x = o
      BY <1>1, <1>2, <2>1 DEF CacheIsFaithful, RobotsInv, TypeOK
    <2>2. CASE x # o
      <3>1. fetched'[x] = fetched[x] /\ (x \in DOMAIN cache' <=> x \in DOMAIN cache)
        BY <1>1, <2>2 DEF TypeOK
      <3>2. x \in DOMAIN cache => cache'[x] = cache[x]
        BY <1>1, <2>2
      <3>3. QED
        BY <1>4, <2>2, <3>1, <3>2 DEF CacheIsFaithful, RobotsInv, PagesOf
    <2>3. QED
      BY <2>1, <2>2
  <1>6. CacheIsFaithful'
    BY <1>5 DEF CacheIsFaithful
  <1>7. \A p \in Pages : OriginOf[p] \in DOMAIN cache =>
           OriginOf[p] \in DOMAIN cache' /\ Permits(p)' = Permits(p)
    BY <1>1, <1>4
  <1>8. current \notin RulesFrom(kind, forbids) => Permits(current)'
    BY <1>1, <1>2 DEF PagesOf
  <1>9. OriginOf[current] \in DOMAIN cache'
    BY <1>1
  <1>10. QED
    BY <1>6, <1>7, <1>8, <1>9

\* An answer that cannot be used, or none, changes what was heard and nothing else.
LEMMA UnusableFacts ==
    ASSUME TypeOK, LoopInv, RobotsInv, pc = "robots", NEW answer,
           heard' = [heard EXCEPT ![OriginOf[current]] = answer],
           UNCHANGED <<cache, fetched>>
    PROVE  CacheIsFaithful'
  <1> USE UrlAssumption
  <1>1. current \in Pages /\ OriginOf[current] \notin DOMAIN cache
    BY DEF LoopInv
  <1>2. \A p \in Pages : OriginOf[p] \in DOMAIN cache => Permits(p)' = Permits(p)
    BY <1>1 DEF Permits, TypeOK
  <1>3. QED
    BY <1>2 DEF CacheIsFaithful, RobotsInv, PagesOf

\* RobotsInv is preserved by every step.
LEMMA RobotsStepPreserves ==
    TypeOK /\ LoopInv /\ RobotsInv /\ [Next]_vars => RobotsInv'
  <1> SUFFICES ASSUME TypeOK, LoopInv, RobotsInv, [Next]_vars
               PROVE  RobotsInv'
    OBVIOUS
  <1> USE UrlAssumption
  <1>1. CASE ClearCache
    BY <1>1 DEF ClearCache, RobotsInv, CacheIsFaithful, RobotsRespected, RequestedWasPermitted
  <1>2. ASSUME NEW u \in Targets, Crawl(u)
        PROVE  RobotsInv'
    <2>1. UNCHANGED <<cache, heard, fetched>> /\ Len(requested') = 0 /\ pc' # "page"
      BY <1>2 DEF Crawl, End
    <2>2. CacheIsFaithful' /\ RobotsRespected'
      BY <2>1 DEF RobotsInv, CacheIsFaithful, RobotsRespected, Permits
    <2>3. RequestedWasPermitted'
      BY <2>1 DEF RequestedWasPermitted
    <2>4. QED
      BY <2>2, <2>3 DEF RobotsInv
  <1>3. CASE EnterHop
    <2>1. UNCHANGED <<cache, heard, fetched, requested, current>>
      BY <1>3 DEF EnterHop, historyVars
    <2>2. CacheIsFaithful'
      BY <2>1 DEF RobotsInv, CacheIsFaithful, Permits
    <2>3. RequestedWasPermitted'
      BY <1>3, <2>1 DEF EnterHop, RobotsInv, RequestedWasPermitted, Permits
    <2>4. ASSUME pc' = "page"
          PROVE  current \in Pages /\ Permits(current)
      <3>1. /\ current \in Pages
            /\ OriginOf[current] \in DOMAIN cache
            /\ current \notin cache[OriginOf[current]]
        BY <1>3, <2>4, AdmitFacts DEF EnterHop, End
      <3>2. QED
        BY <3>1 DEF RobotsInv, CacheIsFaithful, PagesOf
    <2>5. QED
      BY <2>1, <2>2, <2>3, <2>4 DEF RobotsInv, RobotsRespected, Permits
  <1>4. ASSUME NEW kind \in RobotsKinds, NEW forbids \in SUBSET PagesOf(OriginOf[current]),
               RobotsAnswered(kind, forbids)
        PROVE  RobotsInv'
    <2>1. CASE kind \in UsableKinds
      <3>1. /\ Admit(RulesFrom(kind, forbids))
            /\ UNCHANGED <<current, requested>>
            /\ pc # "idle" /\ current \in Pages
        BY <1>4, <2>1 DEF RobotsAnswered, LoopInv
      <3>2. RobotsRespected'
        BY <1>4, <2>1, <3>1, AskedFacts, AdmitFacts DEF RobotsRespected, Permits
      <3>3. \A i \in 1..Len(requested) : requested[i] \in Pages
        BY DEF TypeOK
      <3>4. RequestedWasPermitted'
        BY <1>4, <2>1, <3>1, <3>3, AskedFacts DEF RobotsInv, RequestedWasPermitted, Permits
      <3>5. QED
        BY <1>4, <2>1, <3>2, <3>4, AskedFacts DEF RobotsInv
    <2>2. CASE kind \notin UsableKinds
      BY <1>4, <2>2, UnusableFacts
      DEF RobotsAnswered, End, RobotsInv, RobotsRespected, RequestedWasPermitted
    <2>3. QED
      BY <2>1, <2>2
  <1>5. ASSUME NEW f \in SendFailures, RobotsUnreachable(f)
        PROVE  RobotsInv'
    BY <1>5, UnusableFacts
    DEF RobotsUnreachable, End, RobotsInv, RobotsRespected, RequestedWasPermitted
  <1>6. ASSUME NEW answer, PageAnswered(answer), pc' # "page"
        PROVE  RobotsInv'
    <2>1. /\ UNCHANGED <<cache, heard, fetched>>
          /\ requested' = Append(requested, current)
          /\ pc = "page"
          /\ OriginOf[current] \in DOMAIN cache /\ Permits(current)
      BY <1>6 DEF PageAnswered, LoopInv, RobotsInv, RobotsRespected
    <2>2. CacheIsFaithful' /\ RobotsRespected'
      BY <1>6, <2>1 DEF RobotsInv, CacheIsFaithful, RobotsRespected, Permits
    <2>3. \A i \in 1..Len(requested') :
             OriginOf[requested'[i]] \in DOMAIN cache /\ Permits(requested'[i])
      BY <2>1 DEF RobotsInv, RequestedWasPermitted, TypeOK
    <2>4. QED
      BY <2>1, <2>2, <2>3 DEF RobotsInv, RequestedWasPermitted, Permits
  <1>7. CASE PageStep
    <2>1. PICK answer : PageAnswered(answer) /\ pc' # "page"
      BY <1>7
      DEF PageStep, PageUnreachable, PageRefused, PageRedirects, PageDelivered, NextHop, End
    <2>2. QED
      BY <1>6, <2>1
  <1>8. CASE UNCHANGED vars
    BY <1>8 DEF vars, historyVars, boundVars, RobotsInv, CacheIsFaithful, RobotsRespected,
                RequestedWasPermitted, Permits
  <1>9. QED
    BY <1>1, <1>2, <1>3, <1>4, <1>5, <1>7, <1>8 DEF Next, Caller, RobotsStep, RobotsKinds

\* RobotsInv holds of every behaviour.
LEMMA RobotsInvariant == Spec => []RobotsInv
  <1>1. Init => RobotsInv
    BY UrlAssumption
    DEF Init, RobotsInv, CacheIsFaithful, RobotsRespected, RequestedWasPermitted
  <1>2. QED
    BY <1>1, RobotsStepPreserves, LoopInvariant, PTL DEF Spec

\* No page is requested that robots.txt of its own origin does not allow, on any
\* hop of any crawl, whatever the cache was filled with before.
THEOREM RobotsAlwaysRespected == Spec => []RobotsRespected
  BY RobotsInvariant, PTL DEF RobotsInv

\* The cache never holds anything but the last usable answer of the origin.
THEOREM CacheAlwaysFaithful == Spec => []CacheIsFaithful
  BY RobotsInvariant, PTL DEF RobotsInv

-------------------------------------------------------------------------------

\* While a crawl runs, there is no outcome to speak of.
Unsettled == pc # "idle" => result = "none"

OutcomeInv == Unsettled /\ ItemsStayInSource /\ TrafficIsBounded /\ ErrorsTellTheCause

\* What an answer to a page request does to the record of the crawl.
LEMMA PageFacts ==
    ASSUME TypeOK, LoopInv, RobotsInv, TrafficIsBounded, NEW answer, PageAnswered(answer)
    PROVE  /\ requested' \in Seq(Pages)
           /\ Len(requested') = hop + 1
           /\ requested'[Len(requested')] = current
           /\ lastAnswer' = answer
           /\ url' = url /\ cache' = cache
           /\ TrafficIsBounded'
  <1>1. /\ pc = "page" /\ current \in Pages /\ requested' = Append(requested, current)
        /\ requested \in Seq(Pages) /\ Len(requested) = hop /\ hop <= MaxRedirects
        /\ hop \in Nat /\ robotsRequests \in Nat /\ robotsRequests <= hop + 1
        /\ lastAnswer' = answer /\ UNCHANGED <<url, cache, robotsRequests>>
        /\ GetByUrl(url) # NoSource
    BY DEF PageAnswered, LoopInv, TypeOK
  <1>2. Len(requested') = hop + 1 /\ requested'[Len(requested')] = current
    BY <1>1
  <1>3. TrafficIsBounded'
    BY <1>1, <1>2, UrlAssumption DEF TrafficIsBounded
  <1>4. QED
    BY <1>1, <1>2, <1>3

\* OutcomeInv is preserved by every step.
LEMMA OutcomeStepPreserves ==
    TypeOK /\ LoopInv /\ RobotsInv /\ OutcomeInv /\ [Next]_vars => OutcomeInv'
  <1> SUFFICES ASSUME TypeOK, LoopInv, RobotsInv, OutcomeInv, [Next]_vars
               PROVE  OutcomeInv'
    OBVIOUS
  <1> USE UrlAssumption
  <1>1. CASE ClearCache
    BY <1>1
    DEF ClearCache, OutcomeInv, Unsettled, ItemsStayInSource, TrafficIsBounded,
        ErrorsTellTheCause, Permits
  <1>2. ASSUME NEW u \in Targets, Crawl(u)
        PROVE  OutcomeInv'
    <2>1. /\ requested' = <<>> /\ robotsRequests' = 0
          /\ result' \in {"none", "UnsupportedSourceError"}
          /\ pc' # "idle" => result' = "none"
      BY <1>2 DEF Crawl, End
    <2>2. TrafficIsBounded'
      BY <2>1 DEF TrafficIsBounded
    <2>3. QED
      BY <2>1, <2>2 DEF OutcomeInv, Unsettled, ItemsStayInSource, ErrorsTellTheCause
  <1>3. CASE EnterHop
    <2>1. UNCHANGED <<url, current, cache, heard, requested, robotsRequests, lastAnswer>>
      BY <1>3 DEF EnterHop, historyVars
    <2>2. TrafficIsBounded'
      BY <2>1 DEF OutcomeInv, TrafficIsBounded
    <2>3. /\ result' \in {"none", "HtmlError", "HtmlDisallowedError"}
          /\ pc' # "idle" => result' = "none"
      BY <1>3, AdmitFacts DEF EnterHop, End, OutcomeInv, Unsettled
    <2>4. ASSUME result' = "HtmlDisallowedError"
          PROVE  /\ ~Permits(current)
                 /\ \A i \in 1..Len(requested) : requested[i] # current
      <3>1. /\ current \in Pages
            /\ OriginOf[current] \in DOMAIN cache
            /\ current \in cache[OriginOf[current]]
            /\ pc = "hop"
        BY <1>3, <2>4, AdmitFacts DEF EnterHop, End, OutcomeInv, Unsettled
      <3>2. ~Permits(current)
        BY <3>1 DEF RobotsInv, CacheIsFaithful, PagesOf
      <3>3. QED
        BY <3>1, <3>2 DEF RobotsInv, RequestedWasPermitted
    <2>5. ErrorsTellTheCause'
      BY <2>1, <2>3, <2>4 DEF ErrorsTellTheCause, Permits
    <2>6. QED
      BY <2>2, <2>3, <2>5 DEF OutcomeInv, Unsettled, ItemsStayInSource
  <1>4. ASSUME pc = "robots", robotsRequests' = robotsRequests + 1,
               UNCHANGED <<url, requested>>
        PROVE  TrafficIsBounded'
    BY <1>4 DEF OutcomeInv, LoopInv, TypeOK, TrafficIsBounded
  <1>5. ASSUME NEW kind \in RobotsKinds, NEW forbids \in SUBSET PagesOf(OriginOf[current]),
               RobotsAnswered(kind, forbids)
        PROVE  OutcomeInv'
    <2>1. /\ pc = "robots" /\ result = "none" /\ current \in Pages
          /\ UNCHANGED <<url, current, requested, lastAnswer>>
          /\ OriginOf[current] \notin DOMAIN cache
      BY <1>5 DEF RobotsAnswered, LoopInv, OutcomeInv, Unsettled
    <2>2. TrafficIsBounded'
      BY <1>4, <1>5, <2>1 DEF RobotsAnswered
    <2>3. CASE kind \notin UsableKinds
      <3>1. result' = "RobotsError" /\ pc' = "idle" /\ cache' = cache
        BY <1>5, <2>3 DEF RobotsAnswered, End
      <3>2. QED
        BY <2>1, <2>2, <3>1
        DEF OutcomeInv, Unsettled, ItemsStayInSource, ErrorsTellTheCause
    <2>4. CASE kind \in UsableKinds
      <3>1. /\ result' \in {"none", "HtmlDisallowedError"}
            /\ pc' # "idle" => result' = "none"
            /\ result' = "HtmlDisallowedError" => current \in RulesFrom(kind, forbids)
        BY <1>5, <2>1, <2>4, AdmitFacts DEF RobotsAnswered
      <3>2. ASSUME result' = "HtmlDisallowedError"
            PROVE  /\ ~Permits(current)'
                   /\ \A i \in 1..Len(requested) : requested[i] # current
        <4>1. current \in cache'[OriginOf[current]] /\ OriginOf[current] \in DOMAIN cache'
          BY <1>5, <2>4, <3>1, <3>2 DEF RobotsAnswered, Remember
        <4>2. ~Permits(current)'
          BY <1>5, <2>1, <2>4, <4>1, AskedFacts DEF CacheIsFaithful, PagesOf
        <4>3. \A i \in 1..Len(requested) : requested[i] # current
          BY <2>1 DEF RobotsInv, RequestedWasPermitted
        <4>4. QED
          BY <4>2, <4>3
      <3>3. ErrorsTellTheCause'
        BY <2>1, <3>1, <3>2 DEF ErrorsTellTheCause
      <3>4. QED
        BY <2>2, <3>1, <3>3 DEF OutcomeInv, Unsettled, ItemsStayInSource
    <2>5. QED
      BY <2>3, <2>4
  <1>6. ASSUME NEW f \in SendFailures, RobotsUnreachable(f)
        PROVE  OutcomeInv'
    <2>1. TrafficIsBounded'
      BY <1>4, <1>6 DEF RobotsUnreachable
    <2>2. pc' = "idle" /\ result' \in SendFailures
      BY <1>6 DEF RobotsUnreachable, End
    <2>3. QED
      BY <2>1, <2>2
      DEF OutcomeInv, Unsettled, ItemsStayInSource, ErrorsTellTheCause, SendFailures
  <1>7. ASSUME NEW f \in SendFailures, PageUnreachable(f)
        PROVE  OutcomeInv'
    BY <1>7, PageFacts
    DEF PageUnreachable, End, OutcomeInv, Unsettled, ItemsStayInSource, ErrorsTellTheCause,
        SendFailures
  <1>8. CASE PageRefused
    BY <1>8, PageFacts
    DEF PageRefused, End, OutcomeInv, Unsettled, ItemsStayInSource, ErrorsTellTheCause
  <1>9. ASSUME NEW target \in Targets, PageRedirects(target)
        PROVE  OutcomeInv'
    <2>1. /\ TrafficIsBounded' /\ lastAnswer' = "redirect" /\ Len(requested') = hop + 1
          /\ result = "none" /\ hop \in Nat /\ hop <= MaxRedirects
      BY <1>9, PageFacts
      DEF PageRedirects, PageAnswered, OutcomeInv, Unsettled, LoopInv, TypeOK
    <2>2. /\ result' \in {"none", "unexpected", "TooManyRedirectsError"}
          /\ pc' # "idle" => result' = "none"
          /\ result' = "TooManyRedirectsError" => Len(requested') = MaxRedirects + 1
      BY <1>9, <2>1 DEF PageRedirects, NextHop, End
    <2>3. QED
      BY <2>1, <2>2 DEF OutcomeInv, Unsettled, ItemsStayInSource, ErrorsTellTheCause
  <1>10. ASSUME NEW body \in Bodies, PageDelivered(body)
         PROVE  OutcomeInv'
    <2>1. /\ TrafficIsBounded' /\ lastAnswer' = "document" /\ url' = url
          /\ Len(requested') = hop + 1 /\ requested'[Len(requested')] = current
          /\ hop \in Nat /\ GetByUrl(url) # NoSource /\ url \in Targets
      BY <1>10, PageFacts
      DEF PageDelivered, PageAnswered, OutcomeInv, LoopInv, TypeOK
    <2>2. ASSUME result' = "item"
          PROVE  ItemsStayInSource'
      <3>1. GetByUrl(url) = GetByUrl(current) /\ ~Profiles[GetByUrl(url)].adapter
        BY <1>10, <2>2, DeliveredFacts DEF InsideSource, Composes
      <3>2. requested' # <<>>
        BY <2>1
      <3>3. QED
        BY <2>1, <3>1, <3>2, OwnerFacts DEF ItemsStayInSource
    <2>3. ItemsStayInSource'
      BY <2>2 DEF ItemsStayInSource
    <2>4. QED
      BY <1>10, <2>1, <2>3, DeliveredFacts DEF OutcomeInv, Unsettled, ErrorsTellTheCause
  <1>11. CASE UNCHANGED vars
    BY <1>11
    DEF vars, historyVars, boundVars, OutcomeInv, Unsettled, ItemsStayInSource,
        TrafficIsBounded, ErrorsTellTheCause, Permits
  <1>12. QED
    BY <1>1, <1>2, <1>3, <1>5, <1>6, <1>7, <1>8, <1>9, <1>10, <1>11
    DEF Next, Caller, RobotsStep, PageStep, RobotsKinds

\* OutcomeInv holds of every behaviour.
LEMMA OutcomeInvariant == Spec => []OutcomeInv
  <1>1. Init => OutcomeInv
    BY UrlAssumption
    DEF Init, OutcomeInv, Unsettled, ItemsStayInSource, TrafficIsBounded, ErrorsTellTheCause
  <1>2. QED
    BY <1>1, OutcomeStepPreserves, LoopInvariant, RobotsInvariant, PTL DEF Spec

\* No chain of redirects brings an item out of another source than the one asked.
THEOREM ItemsAlwaysInSource == Spec => []ItemsStayInSource
  BY OutcomeInvariant, PTL DEF OutcomeInv

\* A crawl never costs more than _MAX_REDIRECTS + 1 pages and as many robots.txt.
THEOREM TrafficAlwaysBounded == Spec => []TrafficIsBounded
  BY OutcomeInvariant, PTL DEF OutcomeInv

\* The error a crawl ends with agrees with what happened on the network.
THEOREM ErrorsAlwaysTellTheCause == Spec => []ErrorsTellTheCause
  BY OutcomeInvariant, PTL DEF OutcomeInv
===============================================================================
