------------------------------ MODULE ArticlePage ------------------------------
(***************************************************************************)
(* From the document of a page to one article or an error: parse_document  *)
(* of the three parser families (parser/article.py,                        *)
(* parser/microdata_article.py, parser/generic_json_article.py), of which  *)
(* composition/parser.py creates one for a source.                         *)
(*                                                                         *)
(* A document is written element by element and reported to the collector  *)
(* of its family in that order.  Then JSON-LD blocks are decoded one by    *)
(* one and walked with an explicit stack and two limits; Microdata items   *)
(* come as MicrodataScopes delivers them.  Last, one candidate is chosen   *)
(* as the article of the page, or none.  BaseParser.parse, around it all,  *)
(* makes every exception a ParserError.                                    *)
(***************************************************************************)
EXTENDS Naturals, FiniteSets, SequencesExt

CONSTANTS
    Urls,           \* the texts that name pages
    Approved,       \* those _validated_page_url lets pass for the source
    Padded,         \* of these, those with white space around or control characters in them
    NoUrl,          \* a URL that is absent
    EmptyUrl,       \* a URL that is the empty text
    Values,         \* JSON values
    Children,       \* the values directly in each, in order
    Article,        \* what the values with an article type say of the article
    MaxJsonNodes,   \* _MAX_JSON_NODES
    MaxJsonDepth,   \* _MAX_JSON_DEPTH
    MaxElements     \* bound: elements of a document

\* What a page or an article gives as a URL, as _validated_page_url tells it.
Links == Urls \cup {NoUrl, EmptyUrl}

\* What an article gives for a field: something good, nothing the parser can use,
\* or what the parser takes and ArticleItem refuses.  Refused are texts with
\* control characters and https images with white space, an IP address or a host of
\* one label; out of range is a time without a UTC equivalent.
Given == {"good", "none", "refused"}
GivenTime == {"good", "none", "out_of_range"}

Articles ==
    [kind : {"news", "article"}, main : Links, url : Links,
     headline : Given, time : GivenTime, description : Given, authors : Given,
     modified : GivenTime, section : Given, image : Given]

ASSUME UrlAssumption ==
    Approved \subseteq Urls /\ Padded \subseteq Approved /\ NoUrl \notin Urls /\ EmptyUrl \notin Urls /\ NoUrl # EmptyUrl

ASSUME ValueAssumption ==
    /\ Children \in [Values -> Seq(Values)]
    /\ DOMAIN Article \subseteq Values
    /\ \A v \in DOMAIN Article : Article[v] \in Articles

\* Values are trees: json.loads makes each from values it made before.
ASSUME TreeAssumption ==
    \A S \in SUBSET Values : S # {} => \E v \in S : ToSet(Children[v]) \cap S = {}

ASSUME LimitAssumption == MaxJsonNodes \in Nat /\ MaxJsonDepth \in Nat

Families == {"jsonld_article", "generic_json_article", "microdata_article"}

\* What json.loads cannot read: text that is no JSON, text nested too deeply for
\* its recursion, and an integer with more digits than int() accepts.
Unreadable == {"broken", "too_deep", "overlong"}

ASSUME TextAssumption == Values \cap Unreadable = {}

VARIABLES
    family,     \* the parser family of the source
    doc,        \* the elements of the document so far
    found,      \* what the collector keeps of them
    pc,         \* where parse_document is
    next,       \* the next JSON-LD block
    stack,      \* _walk_json: values to visit with their depths
    visited,    \* _walk_json: values visited
    candidates, \* the articles found
    outcome     \* how parse_document ended

walkVars == <<next, stack, visited, candidates>>
vars == <<family, doc, found, pc, walkVars, outcome>>

NoOutcome == [result |-> "none", of |-> 0, url |-> NoUrl]

\* An ArticleParserError, by what its message is about; "execution" is another
\* exception of parse_document, which parse reports as a ParserExecutionError.
Refused(why) == [result |-> why, of |-> 0, url |-> NoUrl]

Refusals ==
    {"unreadable", "limits", "no candidate", "boundary", "no choice", "no headline", "no time",
     "no object", "invalid", "execution"}

-------------------------------------------------------------------------------
(* The collectors. *)

\* The metadata of a page that stand in for what its article does not give.
Times == {"published", "modified"}
Metadata == {"og_title", "og_description", "description", "og_image"} \cup Times

\* What a page can say there.  "bad" cannot be used, and yet it is the first: a time
\* that is none, an image that is not https, an empty og:description.  An empty
\* og:title is used, and refused.
Sayable(what) ==
    CASE what \in Times -> {"good", "bad", "out_of_range"}
      [] what \in {"og_title", "description"} -> {"good", "refused"}
      [] what \in {"og_description", "og_image"} -> {"good", "bad", "refused"}

\* The first of each kind of metadata stays; a link without href is no first one.
Collect(c, e) ==
    CASE e.what = "canonical" -> [c EXCEPT !.canonical = IF @ = NoUrl THEN e.of ELSE @]
      [] e.what = "og_url"    -> [c EXCEPT !.og_url = IF @ = NoUrl THEN e.of ELSE @]
      [] e.what \in Metadata  -> [c EXCEPT !.meta[e.what] = IF @ = "none" THEN e.of ELSE @]
      [] e.what = "block"     -> [c EXCEPT !.blocks = Append(@, e.of)]
      [] e.what = "item"      -> [c EXCEPT !.items = Append(@, e.of)]

Texts == Values \cup Unreadable

\* The elements that the collector of a family looks at.
ElementsOf(f) ==
    LET links  == {[what |-> "canonical", of |-> u] : u \in Links}
                    \cup {[what |-> "og_url", of |-> u] : u \in Urls \cup {EmptyUrl}}
        meta(K) == UNION {{[what |-> k, of |-> t] : t \in Sayable(k)} : k \in K}
        blocks == {[what |-> "block", of |-> t] : t \in Texts}
        items  == {[what |-> "item", of |-> v] : v \in DOMAIN Article}
    IN  CASE f = "jsonld_article"       -> links \cup meta(Metadata) \cup blocks
          [] f = "microdata_article"    -> links \cup meta(Metadata \ Times) \cup items
          [] f = "generic_json_article" -> blocks

Init ==
    /\ family \in Families
    /\ doc = <<>>
    /\ found = [canonical |-> NoUrl, og_url |-> NoUrl, meta |-> [k \in Metadata |-> "none"],
                blocks |-> <<>>, items |-> <<>>]
    /\ pc = "reading"
    /\ next = 1
    /\ stack = <<>>
    /\ visited = 0
    /\ candidates = <<>>
    /\ outcome = NoOutcome

\* The document of the generic family is one JSON text.
Read(e) ==
    /\ pc = "reading"
    /\ Len(doc) < IF family = "generic_json_article" THEN 1 ELSE MaxElements
    /\ doc' = Append(doc, e)
    /\ found' = Collect(found, e)
    /\ UNCHANGED <<family, pc, walkVars, outcome>>

End(o) == pc' = "done" /\ outcome' = o

EndOfPage ==
    /\ pc = "reading"
    /\ \/ /\ family = "jsonld_article"
          /\ pc' = "decoding"
          /\ UNCHANGED candidates
       \/ /\ family = "microdata_article"
          /\ pc' = "choosing"
          /\ candidates' = found.items
       \/ /\ family = "generic_json_article"
          /\ doc # <<>>
          /\ pc' = "converting"
          /\ UNCHANGED candidates
    /\ UNCHANGED <<family, doc, found, next, stack, visited, outcome>>

-------------------------------------------------------------------------------
(* JSON-LD blocks. *)

\* Counting the values of all blocks against the limit of one.
StartWalk_KeepsCount(v) ==
    stack' = <<[value |-> v, depth |-> 0]>> /\ UNCHANGED visited

\* _walk_json, up to its loop.
StartWalk(v) ==
    stack' = <<[value |-> v, depth |-> 0]>> /\ visited' = 0

\* json.loads of the next block; one that is no JSON or too deep is skipped.
DecodeBlock ==
    /\ pc = "decoding"
    /\ next <= Len(found.blocks)
    /\ LET text == found.blocks[next] IN
       \/ /\ text \in {"broken", "too_deep"}
          /\ next' = next + 1
          /\ UNCHANGED <<pc, stack, visited, outcome>>
       \/ /\ text = "overlong"
          /\ End(Refused("execution"))
          /\ UNCHANGED <<next, stack, visited>>
       \/ /\ text \in Values
          /\ StartWalk(text)
          /\ pc' = "walking"
          /\ UNCHANGED <<next, outcome>>
    /\ UNCHANGED <<family, doc, found, candidates>>

BlocksDone ==
    /\ pc = "decoding"
    /\ next > Len(found.blocks)
    /\ pc' = "choosing"
    /\ UNCHANGED <<family, doc, found, walkVars, outcome>>

\* One value more than the limit.
Exceeds_OffByOne(count, depth) == count > MaxJsonNodes + 1 \/ depth > MaxJsonDepth

Exceeds(count, depth) == count > MaxJsonNodes \/ depth > MaxJsonDepth

\* Putting the children on the stack in their own order.
Pushed_InOrder(entry) ==
    [i \in 1..Len(Children[entry.value]) |->
        [value |-> Children[entry.value][i], depth |-> entry.depth + 1]]

\* reversed(children), a level deeper.
Pushed(entry) ==
    [i \in 1..Len(Children[entry.value]) |->
        [value |-> Reverse(Children[entry.value])[i], depth |-> entry.depth + 1]]

\* One turn of the loop of _walk_json, and what parse_document does with the value.
Visit ==
    /\ pc = "walking"
    /\ stack # <<>>
    /\ LET top == Last(stack) IN
       /\ visited' = visited + 1
       /\ IF Exceeds(visited + 1, top.depth)
          THEN /\ End(Refused("limits"))
               /\ UNCHANGED <<stack, candidates>>
          ELSE /\ stack' = Front(stack) \o Pushed(top)
               /\ candidates' = IF top.value \in DOMAIN Article
                                THEN Append(candidates, top.value) ELSE candidates
               /\ UNCHANGED <<pc, outcome>>
    /\ UNCHANGED <<family, doc, found, next>>

WalkDone ==
    /\ pc = "walking"
    /\ stack = <<>>
    /\ next' = next + 1
    /\ pc' = "decoding"
    /\ UNCHANGED <<family, doc, found, stack, visited, candidates, outcome>>

-------------------------------------------------------------------------------
(* The choice of the article, and the item. *)

\* Python's "a or b".
Or(a, b) == IF a \in {NoUrl, EmptyUrl} THEN b ELSE a

\* _candidate_identity, of the i-th candidate.
Identity(i) == LET a == Article[candidates[i]] IN Or(a.main, a.url)

PageIdentity == Or(found.canonical, found.og_url)

\* News articles like any other article.
Eligible_All == 1..Len(candidates)

\* The news articles, if there are any.
Eligible ==
    LET news == {i \in 1..Len(candidates) : Article[candidates[i]].kind = "news"}
    IN  IF news # {} THEN news ELSE 1..Len(candidates)

\* A candidate that does not say which page it is about.
IsSilent(i) ==
    Identity(i) = NoUrl \/ (family = "microdata_article" /\ Identity(i) = EmptyUrl)

Matches == {i \in Eligible : Identity(i) = PageIdentity}

\* Taking the first of several that match.
Chosen_First ==
    IF PageIdentity # NoUrl /\ Matches # {} THEN {Min(Matches)}
    ELSE IF Cardinality(Eligible) = 1 /\ \A i \in Eligible : PageIdentity = NoUrl \/ IsSilent(i)
    THEN Eligible
    ELSE {}

\* _select_candidate: the one candidate it returns, or none.
Chosen ==
    IF PageIdentity # NoUrl /\ Matches # {}
    THEN IF Cardinality(Matches) = 1 THEN Matches ELSE {}
    ELSE IF Cardinality(Eligible) = 1 /\ \A i \in Eligible : PageIdentity = NoUrl \/ IsSilent(i)
    THEN Eligible
    ELSE {}

\* What an article gives or else, if it can be used, what the page says.
Else(given, said) ==
    IF given # "none" THEN given ELSE IF said = "bad" THEN "none" ELSE said

Headline(a) == Else(a.headline, found.meta["og_title"])
Time(a) == Else(a.time, found.meta["published"])
Modified(a) == Else(a.modified, found.meta["modified"])
Image(a) == Else(a.image, found.meta["og_image"])
Description(a) ==
    Else(Else(a.description, found.meta["og_description"]), found.meta["description"])

\* What ArticleItem checks, in its order.  The requested URL has passed the registry
\* and the transport and the language the parser's own check, which are stricter.
Checked(a, u) ==
    <<IF u \in Padded THEN "refused" ELSE "good", Image(a), Headline(a), Time(a),
      Description(a), a.authors, Modified(a), a.section>>

\* Leaving out a field that ArticleItem would refuse.
ArticleItem_Lenient(fields, i, u) == [result |-> "item", of |-> i, url |-> u]

\* ArticleItem: the first check that fails.  For a time out of range that is an
\* OverflowError, which the parsers do not catch.
ArticleItem(fields, i, u) ==
    LET wrong == {k \in 1..Len(fields) : fields[k] \in {"refused", "out_of_range"}}
    IN  IF wrong = {} THEN [result |-> "item", of |-> i, url |-> u]
        ELSE IF fields[Min(wrong)] = "refused" THEN Refused("invalid")
        ELSE Refused("execution")

\* The item of article a, with URL u.
ItemOf(a, i, u) ==
    CASE u \notin Approved -> Refused("boundary")
      [] u \in Approved /\ Headline(a) = "none" -> Refused("no headline")
      [] u \in Approved /\ Headline(a) # "none" /\ Time(a) = "none" -> Refused("no time")
      [] u \in Approved /\ Headline(a) # "none" /\ Time(a) # "none" ->
            ArticleItem(Checked(a, u), i, u)

\* parse_document from the candidates on, JSON-LD and Microdata.
Choose ==
    /\ pc = "choosing"
    /\ \/ candidates = <<>> /\ End(Refused("no candidate"))
       \/ candidates # <<>> /\ PageIdentity \notin Approved \cup {NoUrl} /\ End(Refused("boundary"))
       \/ /\ candidates # <<>>
          /\ PageIdentity \in Approved \cup {NoUrl}
          /\ \/ Chosen = {} /\ End(Refused("no choice"))
             \/ \E i \in Chosen :
                   LET u == IF PageIdentity = NoUrl THEN Identity(i) ELSE PageIdentity
                   IN  End(ItemOf(Article[candidates[i]], i, u))
    /\ UNCHANGED <<family, doc, found, walkVars>>

\* parse_document of the generic JSON family.  Nothing catches a RecursionError
\* there, its url has no alternative, and a value that is no article here is an array
\* or the like, or an object without a url.
Convert ==
    /\ pc = "converting"
    /\ LET text == found.blocks[1] IN
       \/ text = "broken" /\ End(Refused("unreadable")) /\ UNCHANGED candidates
       \/ text \in {"too_deep", "overlong"} /\ End(Refused("execution")) /\ UNCHANGED candidates
       \/ /\ text \in Values \ DOMAIN Article
          /\ \E why \in {"no object", "boundary"} : End(Refused(why))
          /\ UNCHANGED candidates
       \/ /\ text \in DOMAIN Article
          /\ candidates' = <<text>>
          /\ End(ItemOf(Article[text], 1, Article[text].url))
    /\ UNCHANGED <<family, doc, found, next, stack, visited>>

Next ==
    \/ \E e \in ElementsOf(family) : Read(e)
    \/ EndOfPage
    \/ DecodeBlock
    \/ BlocksDone
    \/ Visit
    \/ WalkDone
    \/ Choose
    \/ Convert

Spec == Init /\ [][Next]_vars

-------------------------------------------------------------------------------
(* What the document says. *)

\* A JSON value with everything in it, in the order of the text.
Preorder[v \in Values] ==
    <<v>> \o FlattenSeq([i \in 1..Len(Children[v]) |-> Preorder[Children[v][i]]])

Height[v \in Values] == Max({0} \cup {1 + Height[c] : c \in ToSet(Children[v])})

TooLarge(v) == Len(Preorder[v]) > MaxJsonNodes \/ Height[v] > MaxJsonDepth

\* The articles among some values, in order.
ArticlesIn(values) ==
    FlattenSeq([i \in 1..Len(values) |-> IF values[i] \in DOMAIN Article THEN <<values[i]>> ELSE <<>>])

SaidBy(e) ==
    CASE e.what = "item" -> <<e.of>>
      [] e.what = "block" /\ e.of \in Values -> ArticlesIn(Preorder[e.of])
      [] OTHER -> <<>>

\* All articles of the document, in order.
ArticlesSaid == FlattenSeq([j \in 1..Len(doc) |-> SaidBy(doc[j])])

IsNews(v) == Article[v].kind = "news"

\* The page an article says it is about.
Says(v) == IF Article[v].main \in Urls THEN Article[v].main ELSE Article[v].url

\* The page the document says it is.
PageSays ==
    LET links == {j \in 1..Len(doc) : doc[j].what = "canonical" /\ doc[j].of # NoUrl}
        ogs   == {j \in 1..Len(doc) : doc[j].what = "og_url"}
    IN  IF links # {} /\ doc[Min(links)].of # EmptyUrl THEN doc[Min(links)].of
        ELSE IF ogs # {} THEN doc[Min(ogs)].of ELSE NoUrl

\* The i-th of articles S may be the page's: no news article is passed over for it.
MayBeChosen(S, i) == IsNews(S[i]) \/ \A j \in 1..Len(S) : ~IsNews(S[j])

\* The others that may be.
Rivals(S, i) == {j \in 1..Len(S) \ {i} : MayBeChosen(S, j)}

\* What the page says first of a kind of metadata.
FirstSaid(what) ==
    LET places == {j \in 1..Len(doc) : doc[j].what = what}
    IN  IF places = {} THEN "none" ELSE doc[Min(places)].of

\* What there is for a field: what the article gives or else what the page says.
Has(given, what) == IF given = "none" THEN FirstSaid(what) ELSE given

\* The article and its page have what every article must have.
Complete(v) == Has(Article[v].headline, "og_title") = "good" /\ Has(Article[v].time, "published") = "good"

\* Nothing to refuse among the texts and the time an article may have.
GoodTexts(v) ==
    LET first == Has(Article[v].description, "og_description")
    IN  /\ first # "refused"
        /\ first \in {"none", "bad"} => FirstSaid("description") # "refused"
        /\ Article[v].section # "refused"
        /\ Has(Article[v].modified, "modified") # "out_of_range"

\* Nor about its image and its authors.
GoodCredits(v) == Has(Article[v].image, "og_image") # "refused" /\ Article[v].authors # "refused"

\* The i-th of articles S is the one that the page is about.
IsThePages(S, i) ==
    /\ MayBeChosen(S, i)
    /\ Says(S[i]) \in Approved
    /\ PageSays = Says(S[i]) \/ (PageSays = NoUrl /\ Rivals(S, i) = {})
    /\ \A j \in Rivals(S, i) : Says(S[j]) # Says(S[i])

\* A block that ends the parsing of the page.
Stops(e) == e.what = "block" /\ (e.of = "overlong" \/ (e.of \in Values /\ TooLarge(e.of)))

-------------------------------------------------------------------------------

Entries == [value : Values, depth : 0..(MaxJsonDepth + 1)]

TypeOK ==
    /\ family \in Families
    /\ doc \in Seq(ElementsOf(family))
    /\ found \in [canonical : Links, og_url : Links,
                  meta : {m \in [Metadata -> {"none", "good", "bad", "refused", "out_of_range"}] :
                            \A k \in Metadata : m[k] \in Sayable(k) \cup {"none"}},
                  blocks : Seq(Texts), items : Seq(DOMAIN Article)]
    /\ pc \in {"reading", "decoding", "walking", "choosing", "converting", "done"}
    /\ next \in 1..(Len(found.blocks) + 1)
    /\ stack \in Seq(Entries)
    /\ visited \in Nat
    /\ pc # "done" => visited <= MaxJsonNodes
    /\ candidates \in Seq(DOMAIN Article)
    /\ outcome \in [result : Refusals \cup {"none", "item"}, of : Nat, url : Links]

(***************************************************************************)
(* _walk_json: at every turn of its loop, the values visited and the trees *)
(* on its stack make up the block, in the order of the text.  So every     *)
(* article is found, once and in order, and the count is of this block.    *)
(***************************************************************************)
WalkIsPreorder ==
    pc = "walking" =>
        LET rest == FlattenSeq([k \in 1..Len(stack) |-> Preorder[Reverse(stack)[k].value]])
            read == FlattenSeq([j \in 1..next |->
                        IF found.blocks[j] \in Values THEN Preorder[found.blocks[j]] ELSE <<>>])
        IN  /\ candidates \o ArticlesIn(rest) = ArticlesIn(read)
            /\ visited + Len(rest) = Len(Preorder[found.blocks[next]])

(***************************************************************************)
(* sprint-4.md, "Bounded JSON-LD traversal": a page is refused for its     *)
(* size exactly if one of the blocks is too large, however many others     *)
(* there are, and for the lack of an article exactly if no block or item   *)
(* has one.                                                                *)
(***************************************************************************)
RefusalsTellTheCause ==
    pc = "done" /\ family # "generic_json_article" =>
        /\ outcome.result = "limits" <=>
              \E j \in 1..Len(doc) : /\ Stops(doc[j])
                                     /\ doc[j].of # "overlong"
                                     /\ \A i \in 1..(j - 1) : ~Stops(doc[i])
        /\ outcome.result = "no candidate" <=>
              ArticlesSaid = <<>> /\ \A j \in 1..Len(doc) : ~Stops(doc[j])

(***************************************************************************)
(* sprint-4.md, "Rejected ambiguous candidates rather than selecting       *)
(* silently": an item has an approved URL, which the page does not         *)
(* contradict; its article says that URL or, alone, none; no other         *)
(* article that might be chosen says it, and no news article was passed    *)
(* over for one of another kind.                                           *)
(***************************************************************************)
ItemIsTheOnlyOne ==
    outcome.result = "item" =>
        /\ outcome.url \in Approved
        /\ family # "generic_json_article" =>
              LET S == ArticlesSaid
                  i == outcome.of
              IN  /\ PageSays \in {outcome.url, NoUrl}
                  /\ MayBeChosen(S, i)
                  /\ \A j \in Rivals(S, i) : Says(S[j]) # outcome.url
                  /\ \/ Says(S[i]) = outcome.url
                     \/ Says(S[i]) \notin Urls /\ Rivals(S, i) = {}

(***************************************************************************)
(* The other way round: the article that the page is about becomes its     *)
(* item, whatever broken blocks, nested values, repeated links and other   *)
(* articles surround it, if and only if it and its page together say what  *)
(* an article must have and nothing for it that ArticleItem refuses.  (An  *)
(* optional field is not always "omitted, never fatal", as sprint-9.md has *)
(* it: an image on a host without a dot is enough to lose the article.)    *)
(***************************************************************************)
TheArticleIsFound ==
    pc = "done" /\ family # "generic_json_article" /\ (\A j \in 1..Len(doc) : ~Stops(doc[j])) =>
        LET S == ArticlesSaid IN
        \A i \in 1..Len(S) : IsThePages(S, i) =>
            (outcome = [result |-> "item", of |-> i, url |-> Says(S[i])]
             <=> /\ Complete(S[i]) /\ GoodTexts(S[i]) /\ GoodCredits(S[i])
                 /\ Says(S[i]) \notin Padded)
===============================================================================
