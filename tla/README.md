# TLA+ models of AA Crawler

AA Crawler (`src/src/aa_crawler/`) is a command line program that fetches news
articles politely: it looks up the *source profile* that owns a URL, asks the
origin's `robots.txt`, follows redirects, checks that it ended inside the
source, parses the page into one article item, prints the item as JSON and, if
asked, saves it. It can do so once or on a schedule, for one URL or a list.

This directory holds TLA+ models of the parts of the program whose behaviour
is spread over several steps and several modules, TLC configurations that
check them on small instances, and TLAPS proofs that hold for every instance.
Paths in this file are relative to `src/src/aa_crawler/` unless they start
with `docs/`; ADR-*nnn* is `docs/adr/0nnn-*.md`.

## 1. Inventory of the system

| Component | Code | State it keeps | Operations | Modelled in |
|---|---|---|---|---|
| HTTP client and policies | `http/client.py`, `http/policies.py` | per-host end of the last request; the loop of one `send()` | `send`, `close` | `HttpSend`, `HttpClient` |
| HTTP adapters | `http/adapters.py` | none | request/response conversion | no (stateless) |
| Robots policy | `robots/policy.py` | cache origin → parsed rules | `allowed`, `clear_cache` | `ArticleCrawl` |
| HTML fetcher | `html/fetcher.py` | the redirect loop of one `fetch()` | `fetch` | `ArticleCrawl` |
| Article crawl service | `application/service.py` | none between crawls | `crawl` | `ArticleCrawl` |
| Source registry and profiles | `sources/` | profiles and host index, fixed at construction | `__init__`, `get_by_host`, `get_by_url`, `get_by_source` (unused) | `ArticleCrawl` |
| Application runtime | `application/runtime.py` | open/closed, owns the HTTP client | create, use, `close` | `CrawlSession` |
| Command line modes | `cli/` | arguments, position in the list, passes | `main`, the four `run_*` functions | `CrawlSession` |
| JSON Lines sink | `persistence/file_sink.py` | the file | `save` | `JsonLinesSink` |
| SQLite sink | `persistence/sqlite_sink.py` | the database | `save` | `ResultStore`, `SqliteSink` |
| JSON-LD parser | `parser/article.py`, `parser/base.py` | stack and count of the traversal, what the page's head says | `parse`, `parse_document` | `ArticlePage` |
| Microdata parser | `parser/microdata_article.py` | stacks of open elements and scopes | `handle_starttag`, `handle_data`, `handle_endtag`, `parse_document` | `MicrodataScopes` (items), `ArticlePage` (page) |
| Generic JSON parser | `parser/generic_json_article.py` | none | `parse_document` | `ArticlePage` |
| Parser composition | `composition/` | none | `create`: refusal, dispatch on the parser family | `ArticleCrawl` (`Composes`), `ArticlePage` (`family`) |
| Crawler base classes, contracts | `crawler/`, `contracts/` | immutable values | validation, an unused pull pipeline | no |
| Configuration and paths | `configuration/` | settings; directories on the disk | `load_settings`, `resolve_runtime_paths`, `prepare_runtime_directories` | `Startup` |
| Logging, correlation, redaction | `observability/` | handlers of one logger; a context variable | `configure_logging`, `bind_correlation_id` | `Startup` (the handlers) |
| Bootstrap | `bootstrap.py` | none | `bootstrap_application` | `Startup`, joined with `main` in `Process` |
| Request identity | `identity/` | immutable values | validation | no |

### How they interact

    Process ── Startup: settings → directories → log handlers
       │                    (by an embedding program, then by main)
       └── CrawlSession: bootstrap → runtime → { crawl → print → save }* → exit
                              │                    │               │
                              │           ArticleCrawl        JsonLinesSink
                              │   registry → (robots → page)*   SqliteSink
                              │                    │
                              └── owns ──►     HttpClient  ── network

Everything is a synchronous call: `CrawlSession` calls `ArticleCrawl` once per
URL, `ArticleCrawl` calls `HttpClient.send` for each `robots.txt` and each
page, and the sinks are called after an item was printed. What the layers
share is state that outlives one call: the politeness table of the HTTP client,
the robots cache, the runtime's life, the file or database that other processes
may write as well, and what startups leave behind: directories and the handlers
of the logger `aa_crawler`.

### What is hard here, and what correctness means

* **HTTP client.** Two waits (backoff, politeness) compose with overlong
  sleeps, failures, retries and other callers on the same host. Right means:
  no request sooner than the interval after the last one *really* ended, a
  retry delay that is the larger of the two waits, no repetition of what may
  not be repeated, a result that agrees with the last attempt.
* **One crawl.** The robots check and the boundary check sit at different
  places around a loop, and the cache carries answers from one crawl to the
  next. Right means: every request, on every hop, is permitted by what that
  origin said; failures of `robots.txt` neither permit nor stick; items come
  from the requested source; the loop ends with bounded traffic and the error
  that names the cause.
* **One run.** Four modes with four different tables of failures, a resource
  that must be closed on every path, a two-step output, and a Ctrl+C at any
  moment. Right means: the runtime is owned, the sink follows standard output,
  exit statuses tell the truth, schedules make the passes they were asked for.
* **Startup.** `bootstrap_application` is exported, so it may run several times
  in one Python process, each time on the handlers and directories that the
  earlier calls left; four sources of a setting hide one another; directories
  are created one by one and handlers exchanged one by one, with a failure or a
  Ctrl+C between any two. Right means: no record is doubled or sent to a closed
  handler, a failed startup leaves the logger alone, directories come before
  the handlers that need them, and a run has the configuration of its own
  environment.
* **Sinks.** Several processes, failures and kills between and within writes.
  Right means: damage to a JSON Lines file stays local, and a SQLite save is
  atomic and replaces only older rows.
* **Microdata.** Real pages have stray, missing, implied and slashed tags, and the parser
  pops an element for every end tag whatever its name. Right means: documents
  with balanced tags are read as they are, and damage in one item leaves the
  others exact, with no value doubled or moved to another item.
* **The article of a page.** A page may hold several articles, nested in each
  other, in blocks of which some are broken or too large, and say in several
  places which page it is. Right means: an ambiguous page yields nothing, an
  unambiguous one its article, a refusal names its cause, and an item carries
  an approved URL that the page does not contradict.

`PROJECT.json` lists the hazards one by one, each at its line and with the
properties that would catch it.

## 2. The modules

| Module | What it is |
|---|---|
| `HttpSend` | abstract: what `HttpClient.send` promises its callers |
| `HttpClient` | the client, its retry loop, its clock and its politeness table; implements `HttpSend` |
| `ArticleCrawl` | crawls that share a robots cache, one step per use of the network |
| `CrawlSession` | one run of `main()` up to its exit status, in the four modes |
| `Startup` | calls of `bootstrap_application()` in one Python process |
| `Process` | startups by an embedding program, then `main()` with its startup step by step; implements `CrawlSession` |
| `JsonLinesSink` | several writers appending records to one file |
| `ResultStore` | abstract: an atomic store with one row per URL |
| `SqliteSink` | several processes with one database; implements `ResultStore` |
| `MicrodataScopes` | the parser that collects Microdata items, and the author of a document with and without faulty tags |
| `ArticlePage` | from the document of a page to one article or an error, for the three parser families |
| `*Proofs` | the theorems about the module of that name |
| `MC*` | constants for TLC; several `.cfg` files may share one |

The layers are composed by abstraction, not by one big state space. A call of
`send()` is one step of `ArticleCrawl`, whose possible endings
(`SendFailures` and answers) are `HttpSend!Answers`; that this abstraction is
right is the refinement `HttpClient!KeepsPromise`. In the same way a crawl is
one step of `CrawlSession`, and `EverySendEnds` and `EveryCrawlEnds` justify
the fairness of the next layer. `Process` joins `Startup` and `CrawlSession`:
the startup is one step, `Bootstrap`, of the session, and the steps of
`Startup`'s call in the process, of which the last is that step and the others
leave the session alone (`ProcessRunsTheSession`). `ArticlePage` begins where
`MicrodataScopes` ends, with whole items, and its `outcome`, an item or some
`ParserError`, is the body `article` or `no_article` of `ArticleCrawl`. Operators named `Definition_Variant` are
deliberately wrong versions of `Definition` - a dropped test, an off-by-one, a
missing reset. No action uses them. Each property of each run is
violated once one of them takes its definition's place (the pairs are in
`PROJECT.json`, "mutants"), which shows that the property depends on the code.

### `HttpClient`

`pc` is the place in `send()`: `backoff` (line 91), `wait` and `wire`
(`_wait_for_host` and the transport call in `_send_once`). `lastEnd` is
`_last_request_end`. Time is discrete and passes in sleeps (each may overrun by
`MaxOversleep`), in the transport and between calls. `AttemptEnds` contains the
`finally` clause, which runs before `send()` looks at the result; `Retry` and
`Settle` split what it then does. `AttemptResults` merges statuses and
exceptions into the five classes the code tells apart; `defect` stands for
exceptions outside `httpx.HTTPError`, which leave `send()` untranslated. A
request without a hostname is not rate limited. The history variables `seen`
and `wireEnd` record what happened on the wire independently of what the client
wrote down about it; the properties speak of those.

### `ArticleCrawl`

`Crawl` is `ArticleCrawlService.crawl` up to `fetch`; `EnterHop` the head of the
redirect loop with `_validate_url` and the cache lookup; `RobotsStep` the
`robots.txt` request with its interpretation; `PageStep` the page request with
the status classes, the redirect or the decoding, and, at the end of the loop,
the boundary check and the parser. The network may answer anything at any time:
`robots.txt` may change between two requests, redirects may lead to any page, to
a URL the validation rejects (`Unusable`), or to a Location that `urljoin()`
itself rejects (`Malformed`). Rules are abstracted to the set of pages they
forbid; a page's body to one of five outcomes.

`Profiles` is the tuple the registry is built from. `Registers` says what its
constructor accepts - no identifier and no host twice - and is an assumption of
the module, since the constructor raises otherwise and no crawl takes place.
`HostIndex` is `_host_index`, `GetByHost` refuses unknown hosts and disabled
profiles, and `GetByUrl` also URLs that are not `https` or carry credentials
(pages outside `Secure`). The lookup is made twice in a crawl, for the requested
and for the final URL, with different errors. `ServiceResult` is the rest of
`crawl` after the fetch: the boundary check, `ParserComposer.create`, which
refuses a profile that names an adapter (`Composes`), and the parser.

### `CrawlSession`

The arguments are variables that are chosen in `Init` and never change, so one
run covers all modes. `Handler` is the table of `except` clauses of the mode,
`UrlDone` and `PassDone` are the loops, `Exit` is leaving the `with` statement
by any path. `Interrupt` is enabled everywhere; while printing or saving it may
or may not let the output through. `interval` is the *kind* of number
`float()` produced, because only its comparisons matter.

### `Startup` and `Process`

`LoadSettings` is `load_settings`, which reads and validates and has no effect
but its result: `Effective` is the precedence of `_LoaderSettings` (overrides,
environment, dotenv file, defaults), `Rejected` the refusals, where unknown
names are searched in every source but values only after the merge, so an
invalid value that a higher source hides is never noticed. Of the thirteen
settings `Fields` keeps the two handler switches and the paths; a value is one
the code tells apart. `MakeDirectory` and `DirectoryFails` are one `mkdir` of
`prepare_runtime_directories`; `BuildHandlers`, `RemoveHandler`, `AddHandler`
and `Finish` are `configure_logging`, in the order it works. A handler is known
by its kind and the call that created it. `made`, `built`, `good` and `calls`
are history.

`Process` first lets an embedding program call the startup (`EarlierCall`,
with any overrides and dotenv file), and then runs `main()`, which passes
neither (`EnterMain`). `MainStarts` says when the startup's call is over for
the session: `create` if it returned, exit status 4 if it raised.
`NoWorkingDirectory` is `Path.cwd()` failing in front of it. `CtrlC` may come
between any two steps of `main()`, also within the startup.

### Sinks

`JsonLinesSink` models the writes the operating system sees: Python's text
layer passes a record of at most 8192 characters on together with its newline,
and a longer one separately, so a save is one write or two. A write can fail or
be cut short, and a save can be killed or raise right behind it (`Mishap`):
that leaves nothing of the write, a part of the text, the text without its
newline, or all of it. `overlaps` counts the records written behind another
process's text before its newline came.

`SqliteSink` separates the time stamp, the table's creation (a transaction of
its own, as `sqlite3` does not open one for DDL), the upsert that takes the
write lock, the commit, and the end of the call. `Fail` is any `sqlite3.Error`,
the busy timeout included; `Die` a kill or an interrupt. A save's number stands
for its payload and its time stamp. Locking and rollback are SQLite's, modelled
as the sink relies on them.

### `MicrodataScopes`

`parser` holds `_stack`, `_scopes` and `items`, and the operators `HandleStartTag`,
`HandleData` and `HandleEndTag` are the handlers of
`_MicrodataMetadataParser`. A value is known by its element and the pieces of
text in it. The document is written event by event by an author who keeps the
real tree (`doc`, `open`): a start tag, text, or an end tag, of which the parser
is told as `html.parser.HTMLParser` would. A *departure* is an event that does
not go with the tree: an end tag left out (the parser hears of one end where
several elements end) or implied by the next start tag (as of `<p>` and `<li>`:
the parser hears of none), a stray one, or a slash in a start tag, which HTML
ignores and `HTMLParser.handle_startendtag` turns into an end tag. A stray end tag
that finds the parser's stack empty is ignored by it, so it is left out. `spoiled`
collects the elements in whose content there was one. The section "What the
document says" defines, without any stack, the properties of each item from the
tree alone; `DamageIsLocal` compares the two. `Props` has the two names that
`_resolve_nested_value` tells apart; `contentUrl`, the third, is treated by the
same loop, and the other names are never looked up there.

### `ArticlePage`

`family` is what `ParserComposer.create` reads from the profile. The document is
written element by element (`Read`) and collected as the family's collector does
(`Collect`): the first canonical link with a target, the first Open Graph URL,
the first of each kind of other metadata, the blocks, the items. `DecodeBlock` is the loop of
`JsonLdArticleParser.parse_document` with `json.loads`; `StartWalk`, `Visit` and
`WalkDone` are `_walk_json`, one value of the JSON tree per step, with its
explicit `stack` and its count `visited`. `Choose` is everything from the
candidates to the item for JSON-LD and Microdata (`_select_candidate` is
`Chosen`), `Convert` the whole of the generic family.

JSON is abstracted to values with children. URLs are those of
the source, others, the empty text and none, because "absent" and "empty" are
treated differently in three places (`Or`, `IsSilent`, `Collect`). A field of an
article is something good, nothing the parser can use, or what the parser takes
and `ArticleItem` refuses (`Given`, `GivenTime`): a text with a control character,
an https image with white space, an IP address or a host of one label, a time
without a UTC equivalent. `Padded` are the URLs that `_validated_page_url` lets
pass although there is white space around them. What an article does not give, the page's
metadata may (`Else`), each with its own idea of what can be used (`Sayable`):
the first `og:title` counts even if it is empty, which `ArticleItem` then
refuses, an empty `og:description` gives way to the page's description, and
Microdata has no metadata for its times. `Checked` lists the fields in the order
of `ArticleItem.__post_init__`, and the first that fails decides the error. Left
out are checks that cannot fail there: the requested URL has passed the registry
and the transport, which are stricter, `source` and `source_domain` are the
profile's, and the language has passed the parser's own pattern.
`outcome.result` names the error by what its message is about; `execution` is any other exception of
`parse_document`, which `BaseParser.parse` turns into a `ParserExecutionError`.

What the properties compare this with is defined from `doc` alone, in the section
"What the document says": the articles in it by recursion over the JSON trees,
the page it says it is, the rivals of an article.

## 3. The checks

| Run | Instance | What it shows |
|---|---|---|
| `http_client` | 2 hosts and a URL without host, GET and POST, 3 attempts, interval 4, backoffs 3 and 5, oversleep 0 or 1, 3 calls | `Polite`, `RetryGap`, `RetriesAreSafe`, `ResultIsHonest`, `EverySendEnds`, `KeepsPromise` |
| `article_crawl` | 3 origins, 3 profiles (one with an adapter, one disabled), 4 hosts, 5 pages (one with credentials in its URL), 2 redirects, 2 crawls, 1 `clear_cache` | `RobotsRespected`, `CacheIsFaithful`, `ItemsStayInSource`, `TrafficIsBounded`, `ErrorsTellTheCause`, `EveryCrawlEnds` |
| `crawl_session` (module `MCProcess`) | one earlier startup with 4 overrides and 4 dotenv files, 7 environments; all modes, lists of 2 URLs, 1 or 2 passes or an endless schedule cut at 6 crawls | `LoggerIsWhole`, `StartupIsOrdered`, `SessionIsConfigured`, `RuntimeIsOwned`, `SavedFollowsPrinted`, `ExitTellsWhatHappened`, `PassesAreComplete`, `BoundedRunsEnd` |
| `json_lines` | 2 writers, 4 records of 2 sizes, 2 mishaps | `DamageIsBounded` (at most one saved record spoiled per mishap and two per overlap, and the readable ones in the order of their saves), `WrittenOnce` |
| `sqlite_sink` | 2 processes, 2 URLs, 4 saves | `SavesReplaceOlderRows`, `RowsAreReal`, `ImplementsStore` |
| `microdata` | documents of 4 elements and pieces of text, 1 departure | `ScopesFollowFrames`, `BalancedDocumentsAreRead`, `DamageIsLocal`, `ValuesHaveOnePlace` |
| `article_page` | 3 elements out of links (one URL padded), metadata of 6 kinds, 8 articles with every kind of refused data, 7 other JSON values, 3 unreadable texts; 6 nodes, depth 2 | `WalkIsPreorder`, `RefusalsTellTheCause`, `ItemIsTheOnlyOne`, `TheArticleIsFound` |
| `malformed_redirect`, `batch_interrupt`, `interval_nan`, `torn_line`, `slashed_void` | as above | disagreements of documentation and code, section 6 |

Every passing run also checks its module's type invariant.

**Why the bounds are enough.** *http_client*: the backoffs lie below (3), at the
cap (5) and above the interval (4), so each of the two waits dominates once; two
hosts distinguish per-host from global waiting; three calls let a call meet the
traces of two earlier ones; three attempts give a first, a middle and a last.
*article_crawl*: two origins of enabled sources suffice for a redirect that
changes the origin and one that comes back to a cached one, and the third is
where a redirect may lead although its profile is disabled; a page of the first
origin that the registry does not know tells the boundary from the origin; two
other pages of it distinguish "this page is forbidden" from "the site is"; two redirects make chains that reach the limit
and cycles; two crawls and a clearing let the cache be filled, used, and filled
differently. *crawl_session*: two URLs and two passes have a first and a last of
each; the endless schedule reaches three passes over one list. One earlier
startup leaves handlers and directories, or fails, before `main()`'s; the
sources agree, differ, hide one another's invalid values and are refused for
each of the reasons; a later call meets nothing that the first two do not leave,
and the proofs are for any number. *json_lines*: a
record's neighbours on both sides need three records, and the fourth lets the
file recover; the damage formula needs two mishaps to be more than a constant.
*sqlite_sink*: two overlapping saves of one URL, one before and one after them.
*microdata*: four nodes make an item with a nested item that has a name and
a url, text in an element in an element in an item, and an item behind a damaged one; one
departure before, in or behind an item, of each of the four kinds.
*article_page*: three elements make a page with a link and two blocks, or three
blocks that agree, disagree, or are broken, or an article with two of the metadata it may
fall back on, of which the first is unusable, refused or good. The limits of 10,000 values and 64
levels are constants; with 6 and 2 there are blocks at each of them and one
above each of them alone (`full` and `tooMany`, `high` and `tooHigh`), and two
blocks together exceed the first limit.
Bounds that exist for TLC only (`MaxSends`, `MaxCrawls`, `MaxClears`,
`MaxEarlierCalls`, `MaxSaves`, `MaxMishaps`) are guards of the caller's actions and constants; the
proofs hold for any values of them.

**Fairness.** `HttpClient` assumes weak fairness of its two sleeps and of the
transport, whose phases `TimeoutPolicy` limits; nothing is assumed about callers.
`ArticleCrawl` assumes that steps of a crawl that has begun are taken, which is
what `EverySendEnds` provides, and `CrawlSession` that the process does not stop
in mid-run, which `EveryCrawlEnds` and finite sleeps provide; nobody has to press
Ctrl+C. `Process` assumes the same of its work, the startup included: `main()` is
called and its steps are taken, while earlier calls of an embedding program and
Ctrl+C need not happen. The sinks have no fairness and no liveness property: a writer may be
killed anywhere. `CHECK_DEADLOCK FALSE` stands in every configuration because in
each instance the callers run out of calls, the process exits or the document
is complete. `MicrodataScopes` has no fairness and no liveness property: its
steps are the document's.

## 4. The proofs

All theorems are checked by TLAPS for every value of the constants. The
assumptions are those the modules declare: hosts and the absent host differ, the
policies hold natural numbers and the backoff never exceeds its cap
(`HostAssumption`, `PolicyAssumption`, `BackoffAssumption`), pages have an origin
and a host (`UrlAssumption`), the registry accepts its profiles
(`RegistryAssumption`), a list has a URL and a bound on crawls
does not cut a counted schedule (`SessionAssumption`), every source of settings speaks of known or unknown
settings and a caller may pass nothing (`ProcessAssumption` of `Process`), `Nobody` is
no process (`ProcessAssumption` of `SqliteSink`), the bounds on saves and mishaps
are numbers (`BoundAssumption`), the children of a JSON value are values
and the limits are numbers (`ValueAssumption`, `LimitAssumption`), JSON values are trees,
since `json.loads` makes each from values it made before (`TreeAssumption`), and no
text is both a value and unreadable (`TextAssumption`).
`MicrodataScopes` needs none. The last conjunct of `BackoffAssumption` states the range
of the backoffs, which follows from the others by exponentiation, for which the
provers have no theory; TLC evaluates it.

| Module | Proved | The inductive invariant, and why it is needed |
|---|---|---|
| `HttpClientProofs` | `TypeOK`, `Polite`, `RetryGap`, `RetriesAreSafe`, `ResultIsHonest`, `KeepsPromise` | `PoliteInv`: the table agrees with the wire (`TableIsTrue`) and no request ends in the future, else a wait computed from the table says nothing about the wire. `GapInv`: where the clock stands at each point of a retry. `AttemptInv`: `attempt` counts what was seen. |
| `ArticleCrawlProofs` | all six safety properties | `LoopInv`: where the loop's counters stand. `RobotsInv`: the cache equals what was heard, and pages already requested stay permitted, since a cached origin is not asked again. `OutcomeInv`: no result before the end. |
| `CrawlSessionProofs` | all five safety properties, of `SafetySpec` (the specification without its fairness) | `RuntimeInv`: where the runtime is at each point. `OutputInv` and `RunningInv`: how printed, saved and crawled relate *while* running. `PassInv`: crawls made = passes completed × URLs + position. |
| `ProcessProofs` | that `ProcessSpec` implements `CrawlSession!SafetySpec`; `ProcessTypeOK`, `LoggerIsWhole`, `StartupIsOrdered`, `SessionIsConfigured`; through the first, all safety properties of `CrawlSession` | `DiskInv`: which directories are there at each point of a call (`PrepareInv`). `LoggerInv`: whose handlers are attached - the last good call's until the exchange, then only old ones or only new ones. `MainInv`: that `main()`'s call loaded what its environment says (`Configured`), which the end of the startup leaves to the session. |
| `SqliteSinkProofs` | `TypeOK`, `SavesReplaceOlderRows`, `RowsAreReal`, `ImplementsStore`; and that the write lock is with the one process between upsert and commit (`LockIsHeldByItsWriter`) | `CallInv`: no two processes are in one save, and a running save is neither over nor before anyone. `RowInv`: what `SavesReplaceOlderRows` says holds from the commit on. |
| `JsonLinesSinkProofs` | `TypeOK`, `WrittenOnce`, `DamageIsBounded` | `ShapeInv`: what each writer still has to write decides how much of its record is in the file. `CopyInv`: a record still waiting has no text in the file, any other is there once. `DamageInv`: records already spoilt or sure to be (`Doomed`), with one more for a torn line at the end of the file, are no more than the mishaps and overlaps so far. `OrderInv`: records are in the file in the order in which their saves returned. |
| `MicrodataScopesProofs` | all five properties | `StacksAgree`: the two stacks rise with the document and hold the same open items, so that the last scope always belongs to the last frame that opened one. `Tree`: the nodes that are open are each within those before it. `Unique`: a value is captured by one open frame or held in one place, and is younger than the scope that will hold it. `ReadWhileBalanced`: without departures the frames are the open elements, and the items those that stand alone. `Nesting` and `LocalInv`, for `DamageIsLocal`: a departure in an open element is also in the elements around it, so the open elements without one are the last, their frames are on top of the stack with the text of each so far, and the scopes of such items, and the items that ended without a departure, hold exactly what the tree has said of them so far. A lemma per handler shows that each is kept. |
| `ArticlePageProofs` | all five properties, `TheArticleIsFound` in both directions; that items of every family have an approved URL | `PageInv`: the types with, between two values of a walk, a count within the limit and a stack at most one level below the other limit, and an outcome that is an item only with an approved URL. `DocInv`: what the collector keeps of a document - its items or blocks, the first links, the first metadata of each kind - is all that the document says of articles, identities, limits and missing fields. `CourseInv`: where `parse_document` stands - the candidates are the articles of the blocks decoded so far and, within a walk, those of the values visited so far, and what is still on the stack is the rest of the block in text order. |

The refinement proofs map `HttpClient` to `HttpSend` with `open <- pc # "idle"`
and `tries <- Len(seen)`: sleeping stutters, `Retry` is `Try`, `Settle` is
`Close`. They map `SqliteSink` to `ResultStore` with "committed" as "took
effect": creating the table and the upsert stutter.

Facts about recursive functions (`Preorder` and `Height` of a JSON value, the
flattening of lists, `Only`, and `PropertiesOf`, which is defined over the nesting
of the items) are proved without an induction theorem: a value or a number
that contradicts the statement has a least one beneath it (`TreeAssumption`, the
well-foundedness of the natural numbers), and the equation of the function
refutes that one.

**Only model-checked:** the liveness properties (`EverySendEnds`,
`EveryCrawlEnds`, `BoundedRunsEnd`), which are outside what the prover handles,
and the runs that end in a violation.

## 5. What is not modelled

* An article's language, which decides nothing: the parsers use it only if their
  own pattern accepts it, and `ArticleItem` then does too. All other fields are
  present as the classes their validation tells apart, not with their contents;
  that an item carries the right text is therefore not checked here. Python's tokenizer
  and `json.loads` are environments that report the tags and text of the page
  and the values of a block.
* Matching of `robots.txt` rules (`urllib.robotparser`), URL normalisation,
  validation of values, formatting, help texts and `--doctor`/`--version`: pure
  functions with no steps in between.
* Of the startup: levels, formats and redaction of log records and the
  correlation identifier, which is set and reset by one `with` statement around
  `run_crawl()`; dotenv files that are not UTF-8; a Ctrl+C in an embedding
  program's own startup (`main()`'s is interrupted anywhere); calls of
  `configure_logging` from several threads, which the program does not have.
  `LoggingSetupError` is left out because handlers are created with
  `delay=True` and open their file at the first record, so constructing them
  does not fail. `mkdir(parents=True)` may create directories above the one
  asked for, and leave them behind when it fails; `Startup` knows only the
  directories of the settings.
* HTTP adapters and request identity: conversions and immutable values without
  state. The crawler base classes: an abstract pull pipeline that no command
  uses. `SourceRegistry.get_by_source`, which no command uses either.
* The transport: `httpx` and the network are an environment that answers
  anything; SQLite, the file system and signals likewise, restricted to what the
  code relies on.
* Politeness between processes: the table is per client, and the code promises
  no more.
* Concurrency inside a process: the program is single-threaded.

## 6. Disagreements found

| Run | Code | Says |
|---|---|---|
| `malformed_redirect` | `html/fetcher.py`: `urljoin()` raises `ValueError` for some Location values (an unbalanced bracket, say), outside the validation | fetching raises errors of the crawler's hierarchy |
| `batch_interrupt` | `cli/batch.py`: a single-shot batch has no handler for Ctrl+C | the README's batch table lists it as a clean shutdown with status 0 |
| `interval_nan` | `cli/__init__.py`: `nan` and `inf` are not `<= 0`, and the first sleep raises | `--interval` takes a positive number of seconds and repeats until interrupted |
| `slashed_void` | `parser/microdata_article.py`: `<meta .../>` in an item pops the item's own frame, so the rest of the item is lost | a frame is one open element, a scope one open `itemscope` |
| `torn_line` | `persistence/file_sink.py`: after a partial write the next record joins the torn line | each `save()` appends exactly one line |

The exact quotations are in `PROJECT.json`, "findings". The runs also showed
behaviours that no document excludes: a page whose charset names the codec
`undefined` ends a crawl with an untranslated `UnicodeError`, and of two
overlapping saves of one URL the one stamped earlier may win in the database. A
JSON-LD block with an integer of more than 4300 digits is not skipped like
other unreadable blocks but ends the page (`json.loads` raises a plain
`ValueError`), and a publication time without a UTC equivalent (year 1 or 9999)
is an `OverflowError` that only `BaseParser.parse` turns into a `ParserError`.
`TheArticleIsFound` also says when a complete article is lost: an image, an author
or a description that the parser lets pass and `ArticleItem` refuses
(`https://localhost/x.png`, say, or a newline in the page's meta description) makes
the whole page "article metadata is invalid", in the article and in the page's metadata
alike, although `docs/sprint/sprint-9.md` (lines 158-161) says that optional-field
validation (image, language, author) "fails open — omitted, never fatal".
A profile with an adapter key is refused
as ADR-020 says, but only after its page was fetched, and as a `ValueError`
outside the crawler's hierarchy, so the command line reports it as unexpected.
`RetryPolicy` overflows a float from about attempt 1025 on, which
no caller configures. Reading the startup showed two more, which are hazards without a run: `AA_DATA_DIR=` (empty)
is accepted, because the loader's model makes it `Path('.')` before
`reject_empty_paths` looks at it, and base_dir itself becomes the data
directory; and an unwritable log file is noticed at the first record and not by
the startup, although `docs/architecture/engineering-standards.md` (line 1020) calls a
failure to initialize file logging fatal.

## 7. Plan

In the order of importance. Done: 1 to 9, each with its runs. Left: 10.

1. `HttpSend`, `HttpClient` with proofs: politeness and retries.
2. `ArticleCrawl` with proofs: robots, redirects, boundary.
3. `CrawlSession` with proofs: the modes, the runtime, the output.
4. `JsonLinesSink`; `ResultStore`, `SqliteSink` with proofs.
5. `MicrodataScopes`, `ArticlePage`: the items of a page and the choice of its
   article.
6. `Startup`, `Process` with proofs: settings, directories and handlers, and
   `CrawlSession`'s bootstrap step as their abstraction; the source registry in
   `ArticleCrawl`.
7. `JsonLinesSinkProofs`: every record once and the damage of partial writes, for
   any number of writers.
8. More proofs about `MicrodataScopes`: the values and the balanced documents, and
   `DamageIsLocal`: what an item without a departure in it has collected is what the
   document has said of it so far.
9. More proofs about `ArticlePage`: the walk, the choice and the refusals, from what
   the collector keeps of a document.
10. Composition: `CrawlSession` with `ArticleCrawl`'s outcome in place of its
   `CrawlResults`, so that exit statuses are related to causes on the network.
