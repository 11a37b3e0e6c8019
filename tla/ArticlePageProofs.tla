--------------------------- MODULE ArticlePageProofs ---------------------------
(***************************************************************************)
(* Theorems about ArticlePage for documents of any length and JSON-LD      *)
(* blocks of any shape.                                                    *)
(***************************************************************************)
EXTENDS ArticlePage, TLAPS, WellFoundedInduction, FiniteSetTheorems

(***************************************************************************)
(* An item of any family has a URL that was approved for its source.       *)
(***************************************************************************)
ItemsAreApproved == outcome.result = "item" => outcome.url \in Approved

Metas ==
    {m \in [Metadata -> {"none", "good", "bad", "refused", "out_of_range"}] :
        \A k \in Metadata : m[k] \in Sayable(k) \cup {"none"}}

Founds ==
    [canonical : Links, og_url : Links, meta : Metas,
     blocks : Seq(Texts), items : Seq(DOMAIN Article)]

Outcomes == [result : Refusals \cup {"none", "item"}, of : Nat, url : Links]

\* The parts of TypeOK that the actions change together.
ReadingOK == doc \in Seq(ElementsOf(family)) /\ found \in Founds
WalkOK ==
    /\ next \in 1..(Len(found.blocks) + 1)
    /\ stack \in Seq(Entries)
    /\ visited \in Nat
    /\ pc # "done" => visited <= MaxJsonNodes
    /\ candidates \in Seq(DOMAIN Article)
    /\ pc = "walking" => next <= Len(found.blocks)
OutcomeOK == outcome \in Outcomes /\ ItemsAreApproved
Pcs == {"reading", "decoding", "walking", "choosing", "converting", "done"}

PageInv == family \in Families /\ pc \in Pcs /\ ReadingOK /\ WalkOK /\ OutcomeOK

LEMMA PageInvIsTypeOK == PageInv => TypeOK
  BY DEF PageInv, Pcs, ReadingOK, WalkOK, OutcomeOK, Founds, Metas, Outcomes, TypeOK

-------------------------------------------------------------------------------

\* The elements of a document, by what they are.
LEMMA ElementFacts ==
    ASSUME NEW f \in Families, NEW e \in ElementsOf(f)
    PROVE  /\ \/ e.what = "canonical" /\ e.of \in Links
              \/ e.what = "og_url" /\ e.of \in Urls \cup {EmptyUrl}
              \/ e.what \in Metadata /\ e.of \in Sayable(e.what)
              \/ e.what = "block" /\ e.of \in Texts
              \/ e.what = "item" /\ e.of \in DOMAIN Article
           /\ f = "microdata_article" => e.what # "block"
           /\ f # "microdata_article" => e.what # "item"
  <1> DEFINE meta(K) == UNION {{[what |-> k, of |-> t] : t \in Sayable(k)} : k \in K}
  <1>1. ASSUME NEW K, NEW x \in meta(K) PROVE x.what \in K /\ x.of \in Sayable(x.what)
    <2>1. PICK k \in K : x \in {[what |-> k, of |-> t] : t \in Sayable(k)}
      OBVIOUS
    <2>2. PICK t \in Sayable(k) : x = [what |-> k, of |-> t]
      BY <2>1
    <2>3. x.what = k /\ x.of = t
      BY <2>2
    <2>4. QED
      BY <2>2, <2>3
  <1>2. /\ f = "jsonld_article" /\ e \notin meta(Metadata) =>
              e \in {[what |-> "canonical", of |-> u] : u \in Links}
                 \cup {[what |-> "og_url", of |-> u] : u \in Urls \cup {EmptyUrl}}
                 \cup {[what |-> "block", of |-> t] : t \in Texts}
        /\ f = "microdata_article" /\ e \notin meta(Metadata \ Times) =>
              e \in {[what |-> "canonical", of |-> u] : u \in Links}
                 \cup {[what |-> "og_url", of |-> u] : u \in Urls \cup {EmptyUrl}}
                 \cup {[what |-> "item", of |-> v] : v \in DOMAIN Article}
        /\ f = "generic_json_article" => e \in {[what |-> "block", of |-> t] : t \in Texts}
    BY DEF ElementsOf
  <1>3. f \in {"jsonld_article", "generic_json_article", "microdata_article"}
    BY DEF Families
  <1> HIDE DEF meta
  <1>4. CASE e \in meta(Metadata) \/ e \in meta(Metadata \ Times)
    BY <1>1, <1>4 DEF Metadata, Times
  <1>5. CASE e \notin meta(Metadata) /\ e \notin meta(Metadata \ Times)
    BY <1>2, <1>3, <1>5
  <1>6. QED
    BY <1>4, <1>5

\* What each kind of element is of.
LEMMA ElementOf ==
    ASSUME NEW f \in Families, NEW e \in ElementsOf(f)
    PROVE  /\ e.what = "canonical" => e.of \in Links
           /\ e.what = "og_url" => e.of \in Urls \cup {EmptyUrl}
           /\ e.what \in Metadata => e.of \in Sayable(e.what)
           /\ e.what = "block" => e.of \in Texts
           /\ e.what = "item" => e.of \in DOMAIN Article
           /\ f = "microdata_article" => e.what # "block"
           /\ f # "microdata_article" => e.what # "item"
  <1>1. Metadata \cap {"canonical", "og_url", "block", "item"} = {}
    BY DEF Metadata, Times
  <1> DEFINE w == e.what
             o == e.of
  <1>2. /\ \/ w = "canonical" /\ o \in Links
           \/ w = "og_url" /\ o \in Urls \cup {EmptyUrl}
           \/ w \in Metadata /\ o \in Sayable(w)
           \/ w = "block" /\ o \in Texts
           \/ w = "item" /\ o \in DOMAIN Article
        /\ f = "microdata_article" => w # "block"
        /\ f # "microdata_article" => w # "item"
    BY ElementFacts
  <1> HIDE DEF w, o
  <1>3. /\ w = "canonical" => o \in Links
        /\ w = "og_url" => o \in Urls \cup {EmptyUrl}
        /\ w \in Metadata => o \in Sayable(w)
        /\ w = "block" => o \in Texts
        /\ w = "item" => o \in DOMAIN Article
    BY <1>1, <1>2
  <1>4. QED
    BY <1>2, <1>3 DEF w, o

\* What the collector keeps stays of its types, and no block gets lost.
LEMMA CollectFacts ==
    ASSUME NEW c \in Founds, family \in Families, NEW e \in ElementsOf(family)
    PROVE  /\ Collect(c, e) \in Founds
           /\ Len(Collect(c, e).blocks) >= Len(c.blocks)
  <1>0. c = [canonical |-> c.canonical, og_url |-> c.og_url, meta |-> c.meta,
             blocks |-> c.blocks, items |-> c.items]
        /\ c.canonical \in Links /\ c.og_url \in Links /\ c.meta \in Metas
        /\ c.blocks \in Seq(Texts) /\ c.items \in Seq(DOMAIN Article)
    BY DEF Founds
  <1>1. \/ e.what = "canonical" /\ e.of \in Links
        \/ e.what = "og_url" /\ e.of \in Links
        \/ e.what \in Metadata /\ e.of \in Sayable(e.what)
        \/ e.what = "block" /\ e.of \in Texts
        \/ e.what = "item" /\ e.of \in DOMAIN Article
    <2>1. Urls \cup {EmptyUrl} \subseteq Links
      BY DEF Links
    <2>2. QED
      BY <2>1, ElementFacts
  <1>2. CASE e.what = "canonical" /\ e.of \in Links
    <2> DEFINE u == IF c.canonical = NoUrl THEN e.of ELSE c.canonical
    <2>1. u \in Links
      BY <1>0, <1>2
    <2>2. Collect(c, e) = [c EXCEPT !.canonical = u]
      <3>1. Collect(c, e) = [c EXCEPT !.canonical = IF @ = NoUrl THEN e.of ELSE @]
        BY <1>2 DEF Collect, Metadata, Times
      <3>2. QED
        BY <3>1, Zenon
    <2> HIDE DEF u
    <2>3. [c EXCEPT !.canonical = u] \in Founds
      BY <2>1, Zenon DEF Founds
    <2>4. [c EXCEPT !.canonical = u].blocks = c.blocks /\ Len(c.blocks) \in Nat
      BY <1>0
    <2>5. QED
      BY <2>2, <2>3, <2>4
  <1>3. CASE e.what = "og_url" /\ e.of \in Links
    <2> DEFINE u == IF c.og_url = NoUrl THEN e.of ELSE c.og_url
    <2>1. u \in Links
      BY <1>0, <1>3
    <2>2. Collect(c, e) = [c EXCEPT !.og_url = u]
      <3>1. Collect(c, e) = [c EXCEPT !.og_url = IF @ = NoUrl THEN e.of ELSE @]
        BY <1>3 DEF Collect, Metadata, Times
      <3>2. QED
        BY <3>1, Zenon
    <2> HIDE DEF u
    <2>3. [c EXCEPT !.og_url = u] \in Founds
      BY <2>1, Zenon DEF Founds
    <2>4. [c EXCEPT !.og_url = u].blocks = c.blocks /\ Len(c.blocks) \in Nat
      BY <1>0
    <2>5. QED
      BY <2>2, <2>3, <2>4
  <1>4. CASE e.what \in Metadata /\ e.of \in Sayable(e.what)
    <2> DEFINE k == e.what
               m == [c.meta EXCEPT ![k] = IF @ = "none" THEN e.of ELSE @]
    <2>1. Collect(c, e) = [c EXCEPT !.meta = m]
      BY <1>4 DEF Collect, Metadata, Times
    <2>2. e.of \in {"good", "bad", "refused", "out_of_range"}
      BY <1>4 DEF Sayable, Metadata, Times
    <2>3. m \in Metas
      <3>1. c.meta \in [Metadata -> {"none", "good", "bad", "refused", "out_of_range"}]
            /\ \A l \in Metadata : c.meta[l] \in Sayable(l) \cup {"none"}
        BY <1>0 DEF Metas
      <3>2. m \in [Metadata -> {"none", "good", "bad", "refused", "out_of_range"}]
        BY <1>4, <2>2, <3>1
      <3>3. \A l \in Metadata : m[l] \in Sayable(l) \cup {"none"}
        BY <1>4, <3>1
      <3>4. QED
        BY <3>2, <3>3 DEF Metas
    <2> HIDE DEF m
    <2>4. [c EXCEPT !.meta = m] \in Founds
      BY <2>3, Zenon DEF Founds
    <2>5. [c EXCEPT !.meta = m].blocks = c.blocks /\ Len(c.blocks) \in Nat
      BY <1>0
    <2>6. QED
      BY <2>1, <2>4, <2>5
  <1>6. CASE e.what = "block" /\ e.of \in Texts
    <2> DEFINE bs == Append(c.blocks, e.of)
    <2>1. bs \in Seq(Texts) /\ Len(bs) = Len(c.blocks) + 1 /\ Len(c.blocks) \in Nat
      BY <1>0, <1>6
    <2>2. Collect(c, e) = [c EXCEPT !.blocks = bs]
      BY <1>6 DEF Collect
    <2> HIDE DEF bs
    <2>3. [c EXCEPT !.blocks = bs] \in Founds
      BY <2>1, Zenon DEF Founds
    <2>4. [c EXCEPT !.blocks = bs].blocks = bs
      BY <1>0
    <2>5. QED
      BY <2>1, <2>2, <2>3, <2>4
  <1>7. CASE e.what = "item" /\ e.of \in DOMAIN Article
    <2> DEFINE is == Append(c.items, e.of)
    <2>1. is \in Seq(DOMAIN Article) /\ Len(c.blocks) \in Nat
      BY <1>0, <1>7
    <2>2. Collect(c, e) = [c EXCEPT !.items = is]
      BY <1>7 DEF Collect
    <2> HIDE DEF is
    <2>3. [c EXCEPT !.items = is] \in Founds
      BY <2>1, Zenon DEF Founds
    <2>4. [c EXCEPT !.items = is].blocks = c.blocks
      BY <1>0
    <2>5. QED
      BY <2>1, <2>2, <2>3, <2>4
  <1>8. QED
    BY <1>1, <1>2, <1>3, <1>4, <1>6, <1>7

\* An error is no item.
LEMMA RefusedFacts ==
    ASSUME NEW why \in Refusals
    PROVE  Refused(why) \in Outcomes /\ Refused(why).result # "item"
  BY DEF Refused, Outcomes, Refusals, Links

Wrong == {"refused", "out_of_range"}

\* ArticleItem makes an item of what it finds nothing wrong with, and of nothing else.
LEMMA ArticleItemFacts ==
    ASSUME NEW fields, NEW i, NEW u
    PROVE  LET item == [result |-> "item", of |-> i, url |-> u] IN
           /\ \/ ArticleItem(fields, i, u) = item
              \/ ArticleItem(fields, i, u) = Refused("invalid")
              \/ ArticleItem(fields, i, u) = Refused("execution")
           /\ ArticleItem(fields, i, u) = item <=> \A k \in 1..Len(fields) : fields[k] \notin Wrong
  <1> DEFINE item == [result |-> "item", of |-> i, url |-> u]
             wrong == {k \in 1..Len(fields) : fields[k] \in {"refused", "out_of_range"}}
             o == ArticleItem(fields, i, u)
  <1>1. o = IF wrong = {} THEN item
            ELSE IF fields[Min(wrong)] = "refused" THEN Refused("invalid") ELSE Refused("execution")
    BY Zenon DEF ArticleItem
  <1>2. wrong = {} <=> \A k \in 1..Len(fields) : fields[k] \notin Wrong
    BY DEF Wrong
  <1>3. item # Refused("invalid") /\ item # Refused("execution")
    <2>1. item.result = "item" /\ \A why : Refused(why).result = why
      BY DEF Refused
    <2>2. "item" # "invalid" /\ "item" # "execution"
      OBVIOUS
    <2> HIDE DEF item
    <2>3. QED
      BY <2>1, <2>2, Zenon
  <1> HIDE DEF item, wrong, o
  <1>4. (o = item \/ o = Refused("invalid") \/ o = Refused("execution")) /\ (o = item <=> wrong = {})
    BY <1>1, <1>3
  <1>5. QED
    BY <1>2, <1>4, Zenon DEF o, item

\* What becomes of an article, with any URL.
LEMMA ItemOfFacts ==
    ASSUME NEW a, NEW i \in Nat, NEW u
    PROVE  /\ ItemOf(a, i, u) \in Outcomes
           /\ ItemOf(a, i, u).result = "item" => ItemOf(a, i, u).url \in Approved
  <1> DEFINE o == ItemOf(a, i, u)
             item == [result |-> "item", of |-> i, url |-> u]
  <1>3. \/ \E why \in Refusals : o = Refused(why)
        \/ u \in Approved /\ o = item
    <2>1. CASE u \notin Approved
      BY <2>1 DEF ItemOf, Refusals
    <2>2. CASE u \in Approved /\ Headline(a) = "none"
      BY <2>2 DEF ItemOf, Refusals
    <2>3. CASE u \in Approved /\ Headline(a) # "none" /\ Time(a) = "none"
      BY <2>3 DEF ItemOf, Refusals
    <2>4. CASE u \in Approved /\ Headline(a) # "none" /\ Time(a) # "none"
      <3>1. o = ArticleItem(Checked(a, u), i, u)
        BY <2>4 DEF ItemOf
      <3>2. "invalid" \in Refusals /\ "execution" \in Refusals
        BY DEF Refusals
      <3> HIDE DEF o
      <3>3. QED
        BY <2>4, <3>1, <3>2, ArticleItemFacts, Zenon
    <2>5. QED
      BY <2>1, <2>2, <2>3, <2>4
  <1>4. ASSUME u \in Approved PROVE item \in Outcomes /\ item.url \in Approved
    BY <1>4, UrlAssumption DEF Outcomes, Links
  <1> HIDE DEF o, item
  <1>5. o \in Outcomes /\ (o.result = "item" => o.url \in Approved)
    BY <1>3, <1>4, RefusedFacts
  <1>6. QED
    BY <1>5 DEF o

\* The children of a value on the stack.
LEMMA PushedFacts ==
    ASSUME NEW top \in Entries, top.depth <= MaxJsonDepth
    PROVE  Pushed(top) \in Seq(Entries)
  <1> DEFINE cs == Children[top.value]
             n == Len(cs)
  <1>1. cs \in Seq(Values) /\ n \in Nat
    BY ValueAssumption DEF Entries
  <1>2. top.depth + 1 \in 0..(MaxJsonDepth + 1)
    BY LimitAssumption DEF Entries
  <1>3. ASSUME NEW i \in 1..n PROVE Reverse(cs)[i] \in Values
    <2>1. Reverse(cs)[i] = cs[(n - i) + 1] /\ (n - i) + 1 \in 1..n
      BY <1>1 DEF Reverse
    <2> HIDE DEF cs
    <2>2. QED
      BY <1>1, <2>1
  <1>4. ASSUME NEW i \in 1..n
        PROVE  [value |-> Reverse(cs)[i], depth |-> top.depth + 1] \in Entries
    BY <1>2, <1>3 DEF Entries
  <1>5. QED
    BY <1>1, <1>4 DEF Pushed

-------------------------------------------------------------------------------

LEMMA InitInv == Init => PageInv
  <1> SUFFICES ASSUME Init PROVE PageInv
    OBVIOUS
  <1>1. doc = <<>> /\ family \in Families /\ pc = "reading" /\ ReadingOK
    BY DEF Init, ReadingOK, Founds, Metas, Links
  <1>2. WalkOK
    BY LimitAssumption DEF Init, WalkOK
  <1>3. OutcomeOK
    BY DEF Init, OutcomeOK, NoOutcome, Outcomes, ItemsAreApproved, Links
  <1>4. QED
    BY <1>1, <1>2, <1>3 DEF PageInv, Pcs

LEMMA StepInv ==
    ASSUME PageInv, [Next]_vars
    PROVE  PageInv'
  <1> USE DEF PageInv
  <1>0. /\ family \in Families /\ pc \in Pcs /\ found \in Founds
        /\ found.blocks \in Seq(Texts) /\ Len(found.blocks) \in Nat
        /\ doc \in Seq(ElementsOf(family))
    BY DEF ReadingOK, Founds
  <1>1. ASSUME NEW e \in ElementsOf(family), Read(e) PROVE PageInv'
    <2>1. /\ doc' = Append(doc, e) /\ found' = Collect(found, e) /\ family' = family /\ pc' = pc
          /\ UNCHANGED <<walkVars, outcome>>
      BY <1>1 DEF Read
    <2>2. found' \in Founds /\ Len(found'.blocks) >= Len(found.blocks)
      BY <1>0, <2>1, CollectFacts
    <2>3. Len(found'.blocks) \in Nat
      BY <2>2 DEF Founds
    <2>4. ReadingOK'
      BY <1>0, <2>1, <2>2 DEF ReadingOK
    <2>5. WalkOK'
      BY <1>0, <2>1, <2>2, <2>3 DEF WalkOK, walkVars
    <2>6. OutcomeOK'
      BY <2>1 DEF OutcomeOK, ItemsAreApproved
    <2>7. QED
      BY <1>0, <2>1, <2>4, <2>5, <2>6
  <1>2. CASE EndOfPage
    <2>1. family' = family /\ pc' \in Pcs /\ ReadingOK' /\ OutcomeOK' /\ pc = "reading"
      BY <1>2 DEF EndOfPage, ReadingOK, OutcomeOK, ItemsAreApproved, Pcs
    <2>2. candidates' \in Seq(DOMAIN Article)
      BY <1>0, <1>2 DEF EndOfPage, WalkOK, Founds
    <2>3. WalkOK'
      BY <1>2, <2>1, <2>2 DEF EndOfPage, WalkOK
    <2>4. QED
      BY <2>1, <2>3
  <1>3. CASE DecodeBlock
    <2>1. /\ pc = "decoding" /\ next <= Len(found.blocks)
          /\ UNCHANGED <<family, doc, found, candidates>>
      BY <1>3 DEF DecodeBlock
    <2>2. ReadingOK' /\ family' \in Families
      BY <1>0, <2>1 DEF ReadingOK
    <2> DEFINE text == found.blocks[next]
    <2>3. CASE text \in {"broken", "too_deep"} /\ next' = next + 1 /\ UNCHANGED <<pc, stack, visited, outcome>>
      BY <1>0, <2>1, <2>2, <2>3 DEF WalkOK, OutcomeOK, ItemsAreApproved
    <2>4. CASE End(Refused("execution")) /\ UNCHANGED <<next, stack, visited>>
      <3>1. OutcomeOK' /\ pc' = "done"
        BY <2>4, RefusedFacts DEF End, OutcomeOK, ItemsAreApproved, Refusals
      <3>2. WalkOK'
        BY <2>1, <2>4, <3>1 DEF WalkOK
      <3>3. QED
        BY <2>2, <3>1, <3>2 DEF Pcs
    <2>5. CASE text \in Values /\ StartWalk(text) /\ pc' = "walking" /\ UNCHANGED <<next, outcome>>
      <3>1. [value |-> text, depth |-> 0] \in Entries
        BY <2>5, LimitAssumption DEF Entries
      <3>2. stack' \in Seq(Entries) /\ visited' = 0
        <4> DEFINE root == [value |-> text, depth |-> 0]
        <4>1. stack' = <<root>> /\ visited' = 0
          BY <2>5 DEF StartWalk
        <4> HIDE DEF root
        <4>2. QED
          BY <3>1, <4>1 DEF root
      <3>3. WalkOK'
        BY <2>1, <2>5, <3>2, LimitAssumption DEF WalkOK
      <3>4. OutcomeOK'
        BY <2>5 DEF OutcomeOK, ItemsAreApproved
      <3>5. QED
        BY <2>2, <2>5, <3>3, <3>4 DEF Pcs
    <2>6. QED
      BY <1>3, <2>3, <2>4, <2>5 DEF DecodeBlock
  <1>4. CASE BlocksDone
    BY <1>4 DEF BlocksDone, walkVars, ReadingOK, WalkOK, OutcomeOK, ItemsAreApproved, Pcs
  <1>5. CASE Visit
    <2> DEFINE top == Last(stack)
    <2>1. /\ pc = "walking" /\ stack # <<>> /\ visited' = visited + 1
          /\ UNCHANGED <<family, doc, found, next>>
      BY <1>5 DEF Visit
    <2>2. /\ stack \in Seq(Entries) /\ top \in Entries /\ Front(stack) \in Seq(Entries)
          /\ visited \in Nat /\ next \in 1..(Len(found.blocks) + 1)
          /\ candidates \in Seq(DOMAIN Article)
      <3>1. stack \in Seq(Entries) /\ visited \in Nat /\ next \in 1..(Len(found.blocks) + 1)
            /\ candidates \in Seq(DOMAIN Article)
        BY DEF WalkOK
      <3>2. top \in Entries
        BY <2>1, <3>1 DEF Last
      <3>3. Front(stack) \in Seq(Entries)
        <4>1. Front(stack) = SubSeq(stack, 1, Len(stack) - 1) /\ Len(stack) \in Nat
          BY <3>1 DEF Front
        <4>2. \A i \in 1..(Len(stack) - 1) : stack[i] \in Entries
          BY <3>1
        <4>3. QED
          BY <4>1, <4>2
      <3>4. QED
        BY <3>1, <3>2, <3>3
    <2>3. ReadingOK' /\ family' \in Families
      BY <1>0, <2>1 DEF ReadingOK
    <2>4. CASE Exceeds(visited + 1, top.depth)
      <3>1. End(Refused("limits")) /\ UNCHANGED <<stack, candidates>>
        BY <1>5, <2>4 DEF Visit
      <3>2. OutcomeOK' /\ pc' = "done"
        BY <3>1, RefusedFacts DEF End, OutcomeOK, ItemsAreApproved, Refusals
      <3>3. WalkOK'
        BY <2>1, <2>2, <3>1, <3>2 DEF WalkOK
      <3>4. QED
        BY <2>3, <3>2, <3>3 DEF Pcs
    <2>5. CASE ~Exceeds(visited + 1, top.depth)
      <3>1. /\ stack' = Front(stack) \o Pushed(top) /\ UNCHANGED <<pc, outcome>>
            /\ candidates' = IF top.value \in DOMAIN Article THEN Append(candidates, top.value)
                             ELSE candidates
        BY <1>5, <2>5 DEF Visit
      <3>2. visited + 1 <= MaxJsonNodes /\ top.depth <= MaxJsonDepth
        <4>1. top.depth \in Nat
          BY <2>2, LimitAssumption DEF Entries
        <4> HIDE DEF top
        <4>2. QED
          BY <2>2, <2>5, <4>1, LimitAssumption DEF Exceeds
      <3>3. Pushed(top) \in Seq(Entries)
        BY <2>2, <3>2, PushedFacts
      <3>4. stack' \in Seq(Entries)
        <4> HIDE DEF top
        <4>1. QED
          BY <2>2, <3>1, <3>3
      <3>5. candidates' \in Seq(DOMAIN Article)
        <4>1. candidates \in Seq(DOMAIN Article)
          BY DEF WalkOK
        <4> HIDE DEF top
        <4>2. CASE top.value \in DOMAIN Article
          BY <3>1, <4>1, <4>2
        <4>3. QED
          BY <3>1, <4>1, <4>2
      <3>6. WalkOK'
        BY <2>1, <2>2, <3>2, <3>4, <3>5 DEF WalkOK
      <3>7. OutcomeOK'
        BY <3>1 DEF OutcomeOK, ItemsAreApproved
      <3>8. QED
        BY <1>0, <2>3, <3>1, <3>6, <3>7 DEF OutcomeOK
    <2>6. QED
      BY <2>4, <2>5
  <1>6. CASE WalkDone
    <2>1. family' \in Families /\ pc' \in Pcs /\ ReadingOK' /\ OutcomeOK'
      BY <1>6 DEF WalkDone, ReadingOK, OutcomeOK, ItemsAreApproved, Pcs
    <2>2. WalkOK'
      BY <1>6 DEF WalkDone, WalkOK
    <2>3. QED
      BY <2>1, <2>2
  <1>7. CASE Choose
    <2>1. /\ pc = "choosing" /\ UNCHANGED <<family, doc, found, walkVars>>
      BY <1>7 DEF Choose
    <2>2. PICK o : End(o) /\ o \in Outcomes /\ (o.result = "item" => o.url \in Approved)
      <3>1. CASE End(Refused("no candidate"))
        BY <3>1, RefusedFacts DEF Refusals
      <3>2. CASE End(Refused("boundary"))
        BY <3>2, RefusedFacts DEF Refusals
      <3>3. CASE End(Refused("no choice"))
        BY <3>3, RefusedFacts DEF Refusals
      <3>4. ASSUME NEW i \in Chosen, NEW u, End(ItemOf(Article[candidates[i]], i, u))
            PROVE  \E o : End(o) /\ o \in Outcomes /\ (o.result = "item" => o.url \in Approved)
        <4>1. candidates \in Seq(DOMAIN Article)
          BY DEF WalkOK
        <4>2. i \in 1..Len(candidates) /\ i \in Nat
          BY <4>1 DEF Chosen, Matches, Eligible
        <4>3. candidates[i] \in DOMAIN Article
          BY <4>1, <4>2
        <4>4. Article[candidates[i]] \in Articles
          BY <4>3, ValueAssumption
        <4>5. QED
          BY <1>0, <3>4, <4>2, <4>4, ItemOfFacts
      <3>5. QED
        BY <1>7, <3>1, <3>2, <3>3, <3>4 DEF Choose
    <2>3. QED
      BY <1>0, <2>1, <2>2 DEF End, walkVars, ReadingOK, WalkOK, OutcomeOK, ItemsAreApproved, Pcs
  <1>8. CASE Convert
    <2> DEFINE text == found.blocks[1]
    <2>1. /\ pc = "converting" /\ UNCHANGED <<family, doc, found, next, stack, visited>>
      BY <1>8 DEF Convert
    <2>2. candidates' \in Seq(DOMAIN Article)
      <3>1. candidates \in Seq(DOMAIN Article)
        BY DEF WalkOK
      <3>2. candidates' = candidates \/ (text \in DOMAIN Article /\ candidates' = <<text>>)
        BY <1>8 DEF Convert
      <3>3. ASSUME NEW v \in DOMAIN Article PROVE <<v>> \in Seq(DOMAIN Article)
        OBVIOUS
      <3> HIDE DEF text
      <3>4. QED
        BY <3>1, <3>2, <3>3, Zenon
    <2>3. PICK o : End(o) /\ o \in Outcomes /\ (o.result = "item" => o.url \in Approved)
      <3>1. CASE End(Refused("unreadable"))
        BY <3>1, RefusedFacts DEF Refusals
      <3>2. CASE End(Refused("execution"))
        BY <3>2, RefusedFacts DEF Refusals
      <3>3. CASE End(Refused("boundary"))
        BY <3>3, RefusedFacts DEF Refusals
      <3>5. CASE End(Refused("no object"))
        BY <3>5, RefusedFacts DEF Refusals
      <3>4. CASE text \in DOMAIN Article /\ End(ItemOf(Article[text], 1, Article[text].url))
        <4>1. Article[text] \in Articles
          BY <3>4, ValueAssumption
        <4>2. /\ ItemOf(Article[text], 1, Article[text].url) \in Outcomes
              /\ ItemOf(Article[text], 1, Article[text].url).result = "item" =>
                    ItemOf(Article[text], 1, Article[text].url).url \in Approved
          BY <1>0, <4>1, ItemOfFacts, 1 \in Nat
        <4>3. QED
          BY <3>4, <4>2, Zenon
      <3>6. QED
        BY <1>8, <3>1, <3>2, <3>3, <3>4, <3>5 DEF Convert
    <2>4. QED
      BY <1>0, <2>1, <2>2, <2>3 DEF End, ReadingOK, WalkOK, OutcomeOK, ItemsAreApproved, Pcs
  <1>9. CASE UNCHANGED vars
    BY <1>9 DEF vars, walkVars, ReadingOK, WalkOK, OutcomeOK, ItemsAreApproved
  <1>10. QED
    BY <1>1, <1>2, <1>3, <1>4, <1>5, <1>6, <1>7, <1>8, <1>9 DEF Next

LEMMA PageInvariant == Spec => []PageInv
  BY InitInv, StepInv, PTL DEF Spec

(***************************************************************************)
(* For documents of any length and blocks of any shape, the parser keeps   *)
(* its types; a walk that goes on has visited no more than the limit and   *)
(* nothing on its stack is deeper than one level below the other limit.    *)
(***************************************************************************)
THEOREM TypeCorrect == Spec => []TypeOK
  BY PageInvariant, PageInvIsTypeOK, PTL

\* No family, page or article lets an item out with a URL that was not approved.
THEOREM ItemsAlwaysApproved == Spec => []ItemsAreApproved
  <1>1. PageInv => ItemsAreApproved
    BY DEF PageInv, OutcomeOK
  <1>2. QED
    BY <1>1, PageInvariant, PTL

-------------------------------------------------------------------------------
(* Numbers. *)

\* A set of natural numbers that is not empty has a least element.
LEMMA MinFacts ==
    ASSUME NEW I, I \subseteq Nat, I # {}
    PROVE  Min(I) \in I /\ \A y \in I : Min(I) <= y
  <1> DEFINE less == {ss \in Nat \X Nat : ss[1] < ss[2]}
  <1>1. less = OpToRel(<, Nat)
    BY Zenon DEF OpToRel
  <1>2. IsWellFoundedOn(less, Nat)
    BY <1>1, NatLessThanWellFounded, Zenon
  <1>3. PICK x \in I : \A y \in I : <<y, x>> \notin less
    <2> HIDE DEF less
    <2>1. QED
      BY <1>2, WFMin
  <1>4. ASSUME NEW y \in I PROVE x <= y
    <2>1. <<y, x>> \in Nat \X Nat /\ <<y, x>>[1] = y /\ <<y, x>>[2] = x
      BY <1>3
    <2>2. ~(y < x)
      BY <1>3, <2>1, Zenon
    <2>3. QED
      BY <1>3, <2>2
  <1>5. \E i \in I : \A y \in I : i <= y
    BY <1>3, <1>4
  <1>6. QED
    BY <1>5, Zenon DEF Min

\* A bounded set of natural numbers that is not empty has a greatest element.
LEMMA MaxFacts ==
    ASSUME NEW n \in Nat, NEW I, I \subseteq 0..n, I # {}
    PROVE  Max(I) \in I /\ \A y \in I : y <= Max(I)
  <1> DEFINE J == {n - i : i \in I}
  <1>1. J \subseteq Nat /\ J # {}
    <2>1. \A i \in I : n - i \in Nat /\ n - i \in J
      OBVIOUS
    <2>2. QED
      BY <2>1
  <1>2. PICK j \in J : \A k \in J : j <= k
    <2> HIDE DEF J
    <2>1. Min(J) \in J /\ \A k \in J : Min(J) <= k
      BY <1>1, MinFacts
    <2>2. QED
      BY <2>1
  <1>3. PICK i \in I : j = n - i
    BY <1>2
  <1>4. ASSUME NEW k \in I PROVE i >= k
    <2>1. j <= n - k
      BY <1>2
    <2>2. QED
      BY <1>3, <2>1
  <1>5. \E x \in I : \A y \in I : x >= y
    BY <1>3, <1>4
  <1>6. Max(I) \in I /\ \A y \in I : Max(I) >= y
    BY <1>5, Zenon DEF Max
  <1>7. QED
    BY <1>6

\* A property of numbers has a least counterexample: there is none if every
\* number has the property that all smaller ones make it have.
LEMMA NoLeast ==
    ASSUME NEW n \in Nat, NEW Bad, Bad \subseteq 0..n,
           \A m \in 0..n : (\A l \in 0..n : l < m => l \notin Bad) => m \notin Bad
    PROVE  Bad = {}
  <1> SUFFICES ASSUME Bad # {} PROVE FALSE
    OBVIOUS
  <1>1. Bad \subseteq Nat
    OBVIOUS
  <1>2. PICK m \in Bad : \A y \in Bad : m <= y
    BY <1>1, MinFacts
  <1>3. \A l \in 0..n : l < m => l \notin Bad
    BY <1>1, <1>2
  <1>4. QED
    BY <1>2, <1>3

-------------------------------------------------------------------------------
(* Sequences of sequences. *)

\* One step of FlattenSeq, and the function that does i steps for every i.
FlatStep(f, ss, i) == IF i = 1 THEN ss[i] ELSE f[i - 1] \o ss[i]

IsFlat(f, ss, m) == f = [i \in 1..m |-> FlatStep(f, ss, i)]

LEMMA FlatExists ==
    ASSUME NEW ss, NEW n \in Nat
    PROVE  \E f : IsFlat(f, ss, n)
  <1> DEFINE Bad == {m \in 0..n : ~ \E f : IsFlat(f, ss, m)}
  <1>1. ASSUME NEW m \in 0..n, \A l \in 0..n : l < m => l \notin Bad
        PROVE  m \notin Bad
    <2>1. CASE m = 0
      <3> DEFINE f == [i \in 1..m |-> <<>>]
      <3>1. \A i \in 1..m : FALSE
        BY <2>1
      <3>2. IsFlat(f, ss, m)
        BY <3>1 DEF IsFlat
      <3>3. QED
        BY <3>2
    <2>2. CASE m # 0
      <3>1. m - 1 \in 0..n /\ m - 1 < m /\ m \in Nat
        BY <2>2
      <3>2. PICK f : IsFlat(f, ss, m - 1)
        BY <1>1, <3>1
      <3> DEFINE h == [i \in 1..m |-> IF i = m THEN FlatStep(f, ss, m) ELSE f[i]]
      <3>3. ASSUME NEW i \in 1..m
            PROVE  h[i] = FlatStep(h, ss, i)
        <4>1. i # 1 => i - 1 \in 1..m /\ i - 1 # m
          BY <3>1
        <4>2. FlatStep(h, ss, i) = FlatStep(f, ss, i)
          BY <4>1 DEF FlatStep
        <4>3. CASE i = m
          BY <4>2, <4>3
        <4>4. CASE i # m
          <5>1. i \in 1..(m - 1)
            BY <3>1, <4>4
          <5>2. f[i] = FlatStep(f, ss, i)
            BY <3>2, <5>1 DEF IsFlat
          <5>3. QED
            BY <4>2, <4>4, <5>2
        <4>5. QED
          BY <4>3, <4>4
      <3>4. IsFlat(h, ss, m)
        <4>1. h = [i \in 1..m |-> h[i]]
          OBVIOUS
        <4> HIDE DEF h
        <4>2. QED
          BY <3>3, <4>1 DEF IsFlat
      <3>5. QED
        BY <3>4
    <2>3. QED
      BY <2>1, <2>2
  <1>2. Bad \subseteq 0..n
    OBVIOUS
  <1>3. n \notin Bad
    <2> HIDE DEF Bad
    <2>1. Bad = {}
      BY <1>1, <1>2, NoLeast
    <2>2. QED
      BY <2>1
  <1>4. QED
    BY <1>3

\* The function in the definition of FlattenSeq is one of these.
LEMMA FlatDef ==
    ASSUME NEW ss, Len(ss) \in Nat, Len(ss) # 0
    PROVE  \E f : IsFlat(f, ss, Len(ss)) /\ FlattenSeq(ss) = f[Len(ss)]
  <1> DEFINE n == Len(ss)
             flatten == CHOOSE f : f = [i \in 1..n |-> IF i = 1 THEN ss[i] ELSE f[i - 1] \o ss[i]]
  <1>1. FlattenSeq(ss) = flatten[n]
    BY DEF FlattenSeq
  <1>2. \E f : f = [i \in 1..n |-> IF i = 1 THEN ss[i] ELSE f[i - 1] \o ss[i]]
    <2>1. n \in Nat
      OBVIOUS
    <2> HIDE DEF n
    <2>2. PICK f : IsFlat(f, ss, n)
      BY <2>1, FlatExists, Zenon
    <2>3. QED
      BY <2>2, Zenon DEF IsFlat, FlatStep
  <1>3. IsFlat(flatten, ss, n)
    BY <1>2, Zenon DEF IsFlat, FlatStep
  <1>4. QED
    BY <1>1, <1>3

\* Sequences that agree up to m give the same m-th step.
LEMMA FlatSame ==
    ASSUME NEW ss, NEW tt, NEW n \in Nat, NEW k \in Nat, NEW m \in Nat, m <= n, m <= k,
           NEW f, IsFlat(f, ss, n), NEW h, IsFlat(h, tt, k), \A i \in 1..m : ss[i] = tt[i], m # 0
    PROVE  f[m] = h[m]
  <1> DEFINE Bad == {l \in 0..m : l # 0 /\ f[l] # h[l]}
  <1>1. \A i \in 1..m : f[i] = FlatStep(f, ss, i) /\ h[i] = FlatStep(h, tt, i)
    <2>1. \A i \in 1..m : i \in 1..n /\ i \in 1..k
      OBVIOUS
    <2>2. QED
      BY <2>1 DEF IsFlat
  <1>2. ASSUME NEW i \in 0..m, \A l \in 0..m : l < i => l \notin Bad
        PROVE  i \notin Bad
    <2>1. CASE i = 0
      BY <2>1
    <2>2. CASE i = 1
      BY <1>1, <2>2 DEF FlatStep
    <2>3. CASE i \notin {0, 1}
      <3>1. i \in 1..m /\ i - 1 \in 0..m /\ i - 1 # 0 /\ i - 1 < i /\ i # 1
        BY <2>3
      <3>2. f[i - 1] = h[i - 1]
        BY <1>2, <3>1
      <3>3. QED
        BY <1>1, <3>1, <3>2 DEF FlatStep
    <2>4. QED
      BY <2>1, <2>2, <2>3
  <1>3. Bad \subseteq 0..m
    OBVIOUS
  <1>4. m \notin Bad
    <2> HIDE DEF Bad
    <2>1. Bad = {}
      BY <1>2, <1>3, NoLeast
    <2>2. QED
      BY <2>1
  <1>5. QED
    BY <1>4

LEMMA FlattenNone == FlattenSeq(<<>>) = <<>>
  BY DEF FlattenSeq

\* What FlattenSeq makes of one sequence more.
LEMMA FlattenAppend ==
    ASSUME NEW U, NEW ss \in Seq(Seq(U)), NEW s \in Seq(U)
    PROVE  FlattenSeq(Append(ss, s)) = FlattenSeq(ss) \o s
  <1> DEFINE n == Len(ss)
             more == Append(ss, s)
  <1>1. /\ n \in Nat /\ Len(more) = n + 1 /\ more[n + 1] = s /\ \A i \in 1..n : more[i] = ss[i]
        /\ n + 1 # 0 /\ n + 1 \in Nat
    OBVIOUS
  <1>2. PICK h : IsFlat(h, more, n + 1) /\ FlattenSeq(more) = h[n + 1]
    <2> HIDE DEF n, more
    <2>1. PICK h : IsFlat(h, more, Len(more)) /\ FlattenSeq(more) = h[Len(more)]
      BY <1>1, FlatDef
    <2>2. QED
      BY <1>1, <2>1
  <1>3. n + 1 \in 1..(n + 1) /\ (n + 1) - 1 = n
    BY <1>1
  <1>4. h[n + 1] = FlatStep(h, more, n + 1)
    <2> HIDE DEF n, more
    <2>1. QED
      BY <1>2, <1>3 DEF IsFlat
  <1>5. CASE n = 0
    <2>1. ss = <<>> /\ h[n + 1] = s
      BY <1>1, <1>4, <1>5 DEF FlatStep
    <2>2. <<>> \o s = s
      OBVIOUS
    <2>3. QED
      BY <1>2, <2>1, <2>2, FlattenNone
  <1>6. CASE n # 0
    <2>1. PICK f : IsFlat(f, ss, n) /\ FlattenSeq(ss) = f[n]
      BY <1>1, <1>6, FlatDef
    <2> HIDE DEF n, more
    <2>2. f[n] = h[n]
      <3>1. n <= n /\ n <= n + 1 /\ \A i \in 1..n : ss[i] = more[i]
        BY <1>1
      <3>2. QED
        BY <1>1, <1>2, <1>6, <2>1, <3>1, FlatSame
    <2>3. n + 1 # 1
      BY <1>1, <1>6
    <2>4. h[n + 1] = h[n] \o s
      BY <1>1, <1>3, <1>4, <2>3 DEF FlatStep
    <2>5. QED
      BY <1>2, <2>1, <2>2, <2>4 DEF more
  <1>7. QED
    BY <1>5, <1>6

\* A sequence up to its k-th entry.
LEMMA Prefix ==
    ASSUME NEW U, NEW c \in Seq(U), NEW k \in 1..Len(c)
    PROVE  SubSeq(c, 1, k) = Append(SubSeq(c, 1, k - 1), c[k])
  <1> DEFINE a == SubSeq(c, 1, k)
             b == SubSeq(c, 1, k - 1)
             d == Append(b, c[k])
  <1>1. /\ k \in Nat /\ k - 1 \in Nat /\ c[k] \in U
        /\ \A i \in 1..k : c[i] \in U
        /\ \A i \in 1..(k - 1) : c[i] \in U
    OBVIOUS
  <1>2. a \in Seq(U) /\ Len(a) = k /\ \A i \in 1..k : a[i] = c[i]
    BY <1>1
  <1>3. b \in Seq(U) /\ Len(b) = k - 1 /\ \A i \in 1..(k - 1) : b[i] = c[i]
    BY <1>1
  <1> HIDE DEF a, b
  <1>4. d \in Seq(U) /\ Len(d) = k /\ d[k] = c[k] /\ \A i \in 1..(k - 1) : d[i] = b[i]
    BY <1>1, <1>3
  <1> HIDE DEF d
  <1>5. \A i \in 1..k : i \in 1..(k - 1) \/ i = k
    BY <1>1
  <1>6. \A i \in 1..k : a[i] = d[i]
    BY <1>2, <1>3, <1>4, <1>5
  <1>7. a = d
    <2>1. a = [i \in 1..k |-> a[i]] /\ d = [i \in 1..k |-> d[i]]
      BY <1>2, <1>4
    <2>2. QED
      BY <1>6, <2>1
  <1>8. QED
    BY <1>7 DEF a, b, d

LEMMA FlattenType ==
    ASSUME NEW U, NEW ss \in Seq(Seq(U))
    PROVE  FlattenSeq(ss) \in Seq(U)
  <1> DEFINE n == Len(ss)
             Bad == {k \in 0..n : FlattenSeq(SubSeq(ss, 1, k)) \notin Seq(U)}
  <1>1. n \in Nat /\ SubSeq(ss, 1, 0) = <<>> /\ SubSeq(ss, 1, n) = ss
    OBVIOUS
  <1>2. ASSUME NEW k \in 0..n, \A l \in 0..n : l < k => l \notin Bad
        PROVE  k \notin Bad
    <2>1. CASE k = 0
      <3>1. SubSeq(ss, 1, k) = <<>> /\ <<>> \in Seq(U)
        BY <1>1, <2>1
      <3>2. QED
        BY <3>1, FlattenNone, Zenon
    <2>2. CASE k # 0
      <3> DEFINE before == SubSeq(ss, 1, k - 1)
      <3>1. k \in 1..n /\ k - 1 \in 0..n /\ k - 1 < k /\ ss[k] \in Seq(U)
        BY <2>2
      <3>2. FlattenSeq(before) \in Seq(U)
        BY <1>2, <3>1
      <3>3. SubSeq(ss, 1, k) = Append(before, ss[k])
        BY <3>1, Prefix
      <3>4. before \in Seq(Seq(U))
        <4>1. \A i \in 1..(k - 1) : ss[i] \in Seq(U)
          BY <3>1
        <4>2. k - 1 \in Nat
          BY <3>1
        <4>3. QED
          BY <4>1, <4>2
      <3> HIDE DEF before
      <3>5. FlattenSeq(Append(before, ss[k])) = FlattenSeq(before) \o ss[k]
        BY <3>1, <3>4, FlattenAppend
      <3>6. FlattenSeq(SubSeq(ss, 1, k)) \in Seq(U)
        <4>1. ASSUME NEW a \in Seq(U), NEW b \in Seq(U) PROVE a \o b \in Seq(U)
          OBVIOUS
        <4>2. FlattenSeq(SubSeq(ss, 1, k)) = FlattenSeq(before) \o ss[k]
          BY <3>3, <3>5, Zenon
        <4>3. QED
          BY <3>1, <3>2, <4>1, <4>2, Zenon
      <3>7. QED
        BY <3>6
    <2>3. QED
      BY <2>1, <2>2
  <1>3. Bad \subseteq 0..n
    OBVIOUS
  <1>4. n \notin Bad
    <2> HIDE DEF Bad
    <2>1. Bad = {}
      BY <1>1, <1>2, <1>3, NoLeast
    <2>2. QED
      BY <2>1
  <1>5. n \in 0..n
    BY <1>1
  <1>6. QED
    BY <1>1, <1>4, <1>5, Zenon

\* The parts of a sequence one after the other.
LEMMA FlattenConcat ==
    ASSUME NEW U, NEW ss \in Seq(Seq(U)), NEW tt \in Seq(Seq(U))
    PROVE  FlattenSeq(ss \o tt) = FlattenSeq(ss) \o FlattenSeq(tt)
  <1> DEFINE n == Len(tt)
             Flat(k) == FlattenSeq(ss \o SubSeq(tt, 1, k)) = FlattenSeq(ss) \o FlattenSeq(SubSeq(tt, 1, k))
             Bad == {k \in 0..n : ~Flat(k)}
  <1>1. n \in Nat /\ SubSeq(tt, 1, 0) = <<>> /\ SubSeq(tt, 1, n) = tt /\ n \in 0..n
    OBVIOUS
  <1>2. ASSUME NEW k \in 0..n, \A l \in 0..n : l < k => l \notin Bad
        PROVE  Flat(k)
    <2>1. CASE k = 0
      <3>1. ss \o <<>> = ss
        OBVIOUS
      <3>2. FlattenSeq(ss) \o <<>> = FlattenSeq(ss)
        <4>1. FlattenSeq(ss) \in Seq(U)
          BY FlattenType
        <4>2. ASSUME NEW a \in Seq(U) PROVE a \o <<>> = a
          OBVIOUS
        <4>3. QED
          BY <4>1, <4>2, Zenon
      <3>3. QED
        BY <1>1, <2>1, <3>1, <3>2, FlattenNone, Zenon
    <2>2. CASE k # 0
      <3> DEFINE before == SubSeq(tt, 1, k - 1)
                 x == tt[k]
      <3>1. k \in 1..n /\ k - 1 \in 0..n /\ k - 1 < k /\ x \in Seq(U)
        BY <2>2
      <3>2. Flat(k - 1)
        BY <1>2, <3>1
      <3>3. SubSeq(tt, 1, k) = Append(before, x)
        BY <3>1, Prefix
      <3>4. before \in Seq(Seq(U))
        <4>1. \A i \in 1..(k - 1) : tt[i] \in Seq(U)
          BY <3>1
        <4>2. k - 1 \in Nat
          BY <3>1
        <4>3. QED
          BY <4>1, <4>2
      <3>5. FlattenSeq(ss \o before) = FlattenSeq(ss) \o FlattenSeq(before)
        BY <3>2
      <3> HIDE DEF before, x
      <3>6. ss \o Append(before, x) = Append(ss \o before, x) /\ ss \o before \in Seq(Seq(U))
        <4> DEFINE V == Seq(U)
        <4>1. ASSUME NEW a \in Seq(V), NEW b \in Seq(V), NEW y \in V
              PROVE  a \o Append(b, y) = Append(a \o b, y) /\ a \o b \in Seq(V)
          <5> HIDE DEF V
          <5>1. QED
            OBVIOUS
        <4>2. QED
          BY <3>1, <3>4, <4>1, Zenon
      <3>7. FlattenSeq(ss \o Append(before, x)) = FlattenSeq(ss \o before) \o x
        BY <3>1, <3>6, FlattenAppend
      <3>8. FlattenSeq(Append(before, x)) = FlattenSeq(before) \o x
        BY <3>1, <3>4, FlattenAppend
      <3>9. (FlattenSeq(ss) \o FlattenSeq(before)) \o x = FlattenSeq(ss) \o (FlattenSeq(before) \o x)
        <4>1. FlattenSeq(ss) \in Seq(U) /\ FlattenSeq(before) \in Seq(U)
          BY <3>4, FlattenType
        <4>2. ASSUME NEW a \in Seq(U), NEW b \in Seq(U), NEW c \in Seq(U)
              PROVE  (a \o b) \o c = a \o (b \o c)
          OBVIOUS
        <4>3. QED
          BY <3>1, <4>1, <4>2, Zenon
      <3>10. QED
        BY <3>3, <3>5, <3>7, <3>8, <3>9, Zenon
    <2>3. QED
      BY <2>1, <2>2, Zenon
  <1>3. Bad \subseteq 0..n
    OBVIOUS
  <1>4. \A k \in 0..n : (\A l \in 0..n : l < k => l \notin Bad) => k \notin Bad
    BY <1>2, Zenon
  <1>5. Bad = {}
    <2> HIDE DEF Bad
    <2>1. QED
      BY <1>1, <1>3, <1>4, NoLeast
  <1>6. Flat(n)
    <2> HIDE DEF Flat
    <2>1. QED
      BY <1>1, <1>5, Zenon
  <1>7. QED
    BY <1>1, <1>6, Zenon

LEMMA FlattenOne ==
    ASSUME NEW U, NEW s \in Seq(U)
    PROVE  FlattenSeq(<<s>>) = s
  <1>1. <<>> \in Seq(Seq(U)) /\ Append(<<>>, s) = <<s>> /\ <<>> \o s = s
    OBVIOUS
  <1>2. FlattenSeq(Append(<<>>, s)) = FlattenSeq(<<>>) \o s
    BY <1>1, FlattenAppend
  <1>3. QED
    BY <1>1, <1>2, FlattenNone

\* What is made of the entries of a sequence one by one.
MapOf(f, s) == [i \in 1..Len(s) |-> f[s[i]]]

LEMMA MapConcat ==
    ASSUME NEW U, NEW a \in Seq(U), NEW b \in Seq(U), NEW f
    PROVE  MapOf(f, a \o b) = MapOf(f, a) \o MapOf(f, b)
  BY DEF MapOf

-------------------------------------------------------------------------------
(* Functions defined by recursion over JSON values. *)

\* What g gives for the children of v, in order.
Below(g, v) == [i \in 1..Len(Children[v]) |-> g[Children[v][i]]]

Closed(D) == D \subseteq Values /\ \A v \in D : ToSet(Children[v]) \subseteq D

\* g is made by step from what it gives for the children, on D.
IsMade(g, D, T, step) ==
    /\ Closed(D)
    /\ g \in [D -> T]
    /\ \A v \in D : g[v] = step[<<v, Below(g, v)>>]

LEMMA ChildrenFacts ==
    ASSUME NEW v \in Values
    PROVE  /\ Children[v] \in Seq(Values)
           /\ Len(Children[v]) \in Nat
           /\ \A i \in 1..Len(Children[v]) : Children[v][i] \in ToSet(Children[v])
           /\ \A c \in ToSet(Children[v]) : \E i \in 1..Len(Children[v]) : c = Children[v][i]
           /\ ToSet(Children[v]) \subseteq Values
  <1>1. Children[v] \in Seq(Values)
    BY ValueAssumption
  <1>2. QED
    BY <1>1 DEF ToSet

LEMMA MadeOnce ==
    ASSUME NEW T, NEW step, NEW D, NEW g, IsMade(g, D, T, step), NEW E, NEW h, IsMade(h, E, T, step)
    PROVE  \A v \in D \cap E : g[v] = h[v]
  <1> DEFINE S == {v \in D \cap E : g[v] # h[v]}
  <1>1. Closed(D) /\ Closed(E) /\ S \in SUBSET Values
    BY DEF IsMade, Closed
  <1>2. SUFFICES ASSUME S # {} PROVE FALSE
    OBVIOUS
  <1>3. PICK v \in S : ToSet(Children[v]) \cap S = {}
    BY <1>1, <1>2, TreeAssumption
  <1>4. v \in Values /\ v \in D /\ v \in E
    BY <1>1
  <1>5. \A i \in 1..Len(Children[v]) : g[Children[v][i]] = h[Children[v][i]]
    <2> SUFFICES ASSUME NEW i \in 1..Len(Children[v])
                 PROVE  g[Children[v][i]] = h[Children[v][i]]
      OBVIOUS
    <2>1. Children[v][i] \in ToSet(Children[v])
      BY <1>4, ChildrenFacts
    <2>2. Children[v][i] \in D /\ Children[v][i] \in E
      BY <1>1, <1>4, <2>1 DEF Closed
    <2>3. QED
      BY <1>3, <2>1, <2>2
  <1>6. Below(g, v) = Below(h, v)
    BY <1>5 DEF Below
  <1>7. g[v] = h[v]
    BY <1>4, <1>6 DEF IsMade
  <1>8. QED
    BY <1>7

\* Every step makes a function of all values.
\* All of Values can be given a value in T, each from those of its children.
CanBeMade(T, step) ==
    \E g \in [Values -> T] : \A v \in Values : g[v] = step[<<v, Below(g, v)>>]

LEMMA MadeFromBelow ==
    ASSUME NEW T, NEW step \in [Values \X Seq(T) -> T]
    PROVE  CanBeMade(T, step)
  <1> DEFINE Good == {D \in SUBSET Values : \E g : IsMade(g, D, T, step)}
             A == UNION Good
             G == [v \in A |-> CHOOSE x : \E D \in Good : \E g : IsMade(g, D, T, step) /\ v \in D /\ x = g[v]]
  <1>1. ASSUME NEW D, NEW g, IsMade(g, D, T, step), NEW v \in D
        PROVE  v \in A /\ G[v] = g[v]
    <2>1. D \in Good
      BY <1>1 DEF IsMade, Closed
    <2>2. v \in A
      BY <1>1, <2>1
    <2>3. \A x, E, h : E \in Good /\ IsMade(h, E, T, step) /\ v \in E /\ x = h[v] => x = g[v]
      BY <1>1, MadeOnce
    <2>4. \E x : \E E \in Good : \E h : IsMade(h, E, T, step) /\ v \in E /\ x = h[v]
      BY <1>1, <2>1
    <2> DEFINE Is(x) == \E E \in Good : \E h : IsMade(h, E, T, step) /\ v \in E /\ x = h[v]
    <2>5. Is(CHOOSE x : Is(x))
      BY <2>4, Zenon
    <2>6. G[v] = CHOOSE x : Is(x)
      BY <2>2, Zenon
    <2> HIDE DEF G, Good, A
    <2>7. QED
      BY <2>2, <2>3, <2>5, <2>6
  <1>2. ASSUME NEW v \in A
        PROVE  \E D, g : IsMade(g, D, T, step) /\ v \in D
    BY <1>2
  <1>3. Closed(A)
    <2>1. A \subseteq Values
      OBVIOUS
    <2>2. ASSUME NEW v \in A, NEW c \in ToSet(Children[v]) PROVE c \in A
      <3>1. PICK D, g : IsMade(g, D, T, step) /\ v \in D
        BY <1>2
      <3>2. c \in D
        BY <2>2, <3>1 DEF IsMade, Closed
      <3> HIDE DEF A, G
      <3>3. QED
        BY <1>1, <3>1, <3>2
    <2> HIDE DEF A
    <2>3. QED
      BY <2>1, <2>2 DEF Closed
  <1>4. ASSUME NEW v \in A
        PROVE  G[v] \in T /\ G[v] = step[<<v, Below(G, v)>>]
    <2>1. PICK D, g : IsMade(g, D, T, step) /\ v \in D
      BY <1>2
    <2>2. v \in Values /\ \A i \in 1..Len(Children[v]) : Children[v][i] \in D
      <3>1. v \in Values
        BY <1>3 DEF Closed
      <3>2. QED
        BY <2>1, <3>1, ChildrenFacts DEF IsMade, Closed
    <2> HIDE DEF A, G
    <2>3. \A i \in 1..Len(Children[v]) : G[Children[v][i]] = g[Children[v][i]]
      BY <1>1, <2>1, <2>2
    <2>4. Below(G, v) = Below(g, v)
      BY <2>3 DEF Below
    <2>5. G[v] = g[v]
      BY <1>1, <2>1
    <2>6. QED
      BY <2>1, <2>4, <2>5 DEF IsMade
  <1>5. G \in [A -> T]
    <2>1. G = [v \in A |-> G[v]]
      OBVIOUS
    <2> HIDE DEF A, G
    <2>2. QED
      BY <1>4, <2>1
  <1> HIDE DEF G
  <1>6. IsMade(G, A, T, step)
    <2> HIDE DEF A
    <2>1. QED
      BY <1>3, <1>4, <1>5 DEF IsMade
  <1>7. A = Values
    <2> SUFFICES ASSUME Values \ A # {} PROVE FALSE
      BY <1>3 DEF Closed
    <2>1. PICK v \in Values \ A : ToSet(Children[v]) \cap (Values \ A) = {}
      BY TreeAssumption
    <2> HIDE DEF A
    <2>2. v \in Values /\ v \notin A /\ ToSet(Children[v]) \subseteq A
      BY <2>1, ChildrenFacts
    <2> DEFINE E == A \cup {v}
               x == step[<<v, Below(G, v)>>]
               H == [u \in E |-> IF u = v THEN x ELSE G[u]]
    <2>3. Closed(E)
      BY <1>3, <2>2 DEF Closed
    <2>4. \A u \in E : Below(H, u) = Below(G, u)
      <3> SUFFICES ASSUME NEW u \in E PROVE Below(H, u) = Below(G, u)
        OBVIOUS
      <3>1. u \in Values /\ ToSet(Children[u]) \subseteq A
        BY <1>3, <2>2 DEF Closed
      <3>2. \A i \in 1..Len(Children[u]) : Children[u][i] \in A /\ Children[u][i] # v
        BY <2>2, <3>1, ChildrenFacts
      <3>3. \A i \in 1..Len(Children[u]) : H[Children[u][i]] = G[Children[u][i]]
        BY <3>2
      <3> HIDE DEF H, E
      <3>4. QED
        BY <3>3 DEF Below
    <2>5. x \in T
      <3>1. \A i \in 1..Len(Children[v]) : G[Children[v][i]] \in T
        BY <1>4, <2>2, ChildrenFacts
      <3>2. Below(G, v) \in Seq(T)
        BY <2>2, <3>1, ChildrenFacts DEF Below
      <3>3. <<v, Below(G, v)>> \in Values \X Seq(T)
        BY <2>2, <3>2
      <3>4. QED
        BY <3>3
    <2> HIDE DEF x
    <2>6. H \in [E -> T]
      BY <1>4, <2>5
    <2>7. \A u \in E : H[u] = step[<<u, Below(G, u)>>]
      <3> SUFFICES ASSUME NEW u \in E PROVE H[u] = step[<<u, Below(G, u)>>]
        OBVIOUS
      <3>1. CASE u = v
        BY <3>1 DEF x
      <3>2. CASE u # v
        BY <1>4, <3>2
      <3>3. QED
        BY <3>1, <3>2
    <2> HIDE DEF H, E
    <2>8. IsMade(H, E, T, step)
      BY <2>3, <2>4, <2>6, <2>7 DEF IsMade
    <2>9. v \in E
      BY DEF E
    <2>10. v \in A
      BY <1>1, <2>8, <2>9
    <2>11. QED
      BY <2>2, <2>10
  <1> HIDE DEF A
  <1>8. QED
    <2>1. G \in [Values -> T] /\ \A v \in Values : G[v] = step[<<v, Below(G, v)>>]
      BY <1>4, <1>5, <1>7
    <2>2. QED
      BY <2>1, Zenon DEF CanBeMade

\* A value comes before everything in it.
LEMMA PreorderFacts ==
    ASSUME NEW v \in Values
    PROVE  /\ Preorder[v] = <<v>> \o FlattenSeq(Below(Preorder, v))
           /\ Preorder[v] \in Seq(Values)
           /\ Below(Preorder, v) \in Seq(Seq(Values))
  <1> DEFINE T == Seq(Values)
             step == [x \in Values \X Seq(T) |-> <<x[1]>> \o FlattenSeq(x[2])]
             Is(f) == f = [u \in Values |->
                        <<u>> \o FlattenSeq([i \in 1..Len(Children[u]) |-> f[Children[u][i]]])]
  <1>1. ASSUME NEW u \in Values, NEW s \in Seq(Seq(Values))
        PROVE  <<u>> \o FlattenSeq(s) \in Seq(Values)
    <2>1. FlattenSeq(s) \in Seq(Values)
      BY FlattenType
    <2>2. ASSUME NEW a \in Seq(Values), NEW b \in Seq(Values) PROVE a \o b \in Seq(Values)
      OBVIOUS
    <2>3. <<u>> \in Seq(Values)
      OBVIOUS
    <2>4. QED
      BY <2>1, <2>2, <2>3, Zenon
  <1>2. step \in [Values \X Seq(T) -> T]
    BY <1>1
  <1>3. PICK g \in [Values -> T] : \A u \in Values : g[u] = step[<<u, Below(g, u)>>]
    <2> HIDE DEF step, T, Is
    <2>1. CanBeMade(T, step)
      BY <1>2, MadeFromBelow
    <2>2. QED
      BY <2>1, Zenon DEF CanBeMade
  <1>4. ASSUME NEW u \in Values, NEW f \in [Values -> T]
        PROVE  Below(f, u) \in Seq(T)
    BY ChildrenFacts DEF Below
  <1>5. \A u \in Values : g[u] = <<u>> \o FlattenSeq(Below(g, u))
    <2> SUFFICES ASSUME NEW u \in Values PROVE g[u] = <<u>> \o FlattenSeq(Below(g, u))
      OBVIOUS
    <2>1. <<u, Below(g, u)>> \in Values \X Seq(T)
      BY <1>4
    <2> DEFINE b == Below(g, u)
    <2> HIDE DEF b, T
    <2>2. step[<<u, b>>] = <<u>> \o FlattenSeq(b)
      BY <2>1 DEF b
    <2>3. QED
      BY <1>3, <2>2 DEF b
  <1>6. Is(g)
    <2>1. g = [u \in Values |-> g[u]]
      OBVIOUS
    <2>2. g = [u \in Values |-> <<u>> \o FlattenSeq(Below(g, u))]
      BY <1>5, <2>1, Zenon
    <2>3. QED
      BY <2>2, Zenon DEF Below
  <1>7. Preorder = CHOOSE f : Is(f)
    BY DEF Preorder
  <1>8. Is(Preorder)
    BY <1>6, <1>7, Zenon
  <1>9. \A u \in Values : Preorder[u] = <<u>> \o FlattenSeq(Below(Preorder, u))
    BY <1>8, Zenon DEF Below
  <1>10. Preorder = [u \in Values |-> Preorder[u]]
    BY <1>8
  <1>11. \A u \in Values : Preorder[u] \in T
    <2> DEFINE S == {u \in Values : Preorder[u] \notin T}
    <2>1. SUFFICES ASSUME S # {} PROVE FALSE
      OBVIOUS
    <2>2. PICK u \in S : ToSet(Children[u]) \cap S = {}
      <3>1. S \in SUBSET Values
        OBVIOUS
      <3> HIDE DEF S
      <3>2. QED
        BY <2>1, <3>1, TreeAssumption
    <2>3. u \in Values
      OBVIOUS
    <2>4. \A i \in 1..Len(Children[u]) : Preorder[Children[u][i]] \in T
      BY <2>2, <2>3, ChildrenFacts
    <2>5. Below(Preorder, u) \in Seq(T)
      BY <2>3, <2>4, ChildrenFacts DEF Below
    <2>6. Preorder[u] \in T
      BY <1>1, <1>9, <2>3, <2>5
    <2>7. QED
      BY <2>6
  <1>12. Preorder \in [Values -> T]
    <2> HIDE DEF T
    <2>1. QED
      BY <1>10, <1>11
  <1>13. QED
    BY <1>4, <1>9, <1>11, <1>12

\* The greatest of some numbers and 0.
LEMMA GreatestFacts ==
    ASSUME NEW c \in Seq(Nat)
    PROVE  LET I == {0} \cup {1 + c[i] : i \in 1..Len(c)} IN
           Max(I) \in Nat /\ Max(I) \in I /\ \A y \in I : y <= Max(I)
  <1> DEFINE n == Len(c)
             I == {0} \cup {1 + c[i] : i \in 1..n}
             Bounded(k) == \E m \in Nat : \A i \in 1..k : 1 + c[i] <= m
             Bad == {k \in 0..n : ~Bounded(k)}
  <1>1. n \in Nat /\ n \in 0..n /\ \A i \in 1..n : c[i] \in Nat
    OBVIOUS
  <1>2. ASSUME NEW k \in 0..n, \A l \in 0..n : l < k => l \notin Bad
        PROVE  Bounded(k)
    <2>1. CASE k = 0
      <3>1. \A i \in 1..k : FALSE
        BY <2>1
      <3>2. 0 \in Nat /\ \A i \in 1..k : 1 + c[i] <= 0
        BY <3>1
      <3>3. QED
        BY <3>2
    <2>2. CASE k # 0
      <3>1. k \in 1..n /\ k - 1 \in 0..n /\ k - 1 < k
        BY <2>2
      <3>2. PICK m \in Nat : \A i \in 1..(k - 1) : 1 + c[i] <= m
        BY <1>2, <3>1
      <3> DEFINE m2 == m + 1 + c[k]
      <3>3. m2 \in Nat /\ m <= m2 /\ 1 + c[k] <= m2
        BY <1>1, <3>1
      <3>4. \A i \in 1..k : i \in 1..n /\ (i \in 1..(k - 1) \/ i = k)
        BY <3>1
      <3> HIDE DEF m2
      <3>5. \A i \in 1..k : 1 + c[i] <= m2
        BY <1>1, <3>1, <3>2, <3>3, <3>4
      <3>6. QED
        BY <3>3, <3>5
    <2>3. QED
      BY <2>1, <2>2, Zenon
  <1>3. Bounded(n)
    <2>1. Bad \subseteq 0..n
      OBVIOUS
    <2>2. \A k \in 0..n : (\A l \in 0..n : l < k => l \notin Bad) => k \notin Bad
      BY <1>2, Zenon
    <2>3. Bad = {}
      <3> HIDE DEF Bad
      <3>1. QED
        BY <1>1, <2>1, <2>2, NoLeast
    <2> HIDE DEF Bounded
    <2>4. QED
      BY <1>1, <2>3, Zenon
  <1>4. PICK m \in Nat : \A i \in 1..n : 1 + c[i] <= m
    BY <1>3
  <1>5. I \subseteq 0..m /\ I # {} /\ I \subseteq Nat
    BY <1>1, <1>4
  <1> HIDE DEF I
  <1>6. Max(I) \in I /\ \A y \in I : y <= Max(I)
    BY <1>5, MaxFacts
  <1>7. Max(I) \in Nat
    BY <1>5, <1>6
  <1>8. QED
    BY <1>6, <1>7 DEF I

\* A value is as high as its children and one more.
LEMMA HeightFacts ==
    ASSUME NEW v \in Values
    PROVE  /\ Height[v] \in Nat
           /\ \A m \in Nat : Height[v] <= m <=> \A c \in ToSet(Children[v]) : 1 + Height[c] <= m
  <1> DEFINE Top(s) == Max({0} \cup {1 + s[i] : i \in 1..Len(s)})
             step == [x \in Values \X Seq(Nat) |-> Top(x[2])]
             Is(f) == f = [u \in Values |-> Max({0} \cup {1 + f[c] : c \in ToSet(Children[u])})]
  <1>1. step \in [Values \X Seq(Nat) -> Nat]
    BY GreatestFacts
  <1>2. PICK g \in [Values -> Nat] : \A u \in Values : g[u] = step[<<u, Below(g, u)>>]
    <2> HIDE DEF step, Top, Is
    <2>1. CanBeMade(Nat, step)
      BY <1>1, MadeFromBelow
    <2>2. QED
      BY <2>1, Zenon DEF CanBeMade
  <1>3. ASSUME NEW u \in Values, NEW f
        PROVE  /\ Len(Below(f, u)) = Len(Children[u])
               /\ {1 + f[c] : c \in ToSet(Children[u])}
                     = {1 + Below(f, u)[i] : i \in 1..Len(Below(f, u))}
    <2>1. Len(Below(f, u)) = Len(Children[u])
      BY ChildrenFacts DEF Below
    <2>2. \A i \in 1..Len(Children[u]) : Below(f, u)[i] = f[Children[u][i]]
      BY DEF Below
    <2>3. ToSet(Children[u]) = {Children[u][i] : i \in 1..Len(Children[u])}
      BY ChildrenFacts
    <2>4. QED
      BY <2>1, <2>2, <2>3
  <1>4. ASSUME NEW u \in Values, NEW f \in [Values -> Nat]
        PROVE  Below(f, u) \in Seq(Nat)
    BY ChildrenFacts DEF Below
  <1>5. \A u \in Values : g[u] = Max({0} \cup {1 + g[c] : c \in ToSet(Children[u])})
    <2> SUFFICES ASSUME NEW u \in Values
                 PROVE  g[u] = Max({0} \cup {1 + g[c] : c \in ToSet(Children[u])})
      OBVIOUS
    <2> DEFINE b == Below(g, u)
    <2>1. <<u, b>> \in Values \X Seq(Nat)
      BY <1>4
    <2> HIDE DEF b, Top
    <2>2. step[<<u, b>>] = Top(b)
      BY <2>1
    <2>3. g[u] = Top(b)
      BY <1>2, <2>2 DEF b
    <2>4. {1 + g[c] : c \in ToSet(Children[u])} = {1 + b[i] : i \in 1..Len(b)}
      BY <1>3 DEF b
    <2>5. QED
      BY <2>3, <2>4, Zenon DEF Top
  <1>6. Is(g)
    <2>1. g = [u \in Values |-> g[u]]
      OBVIOUS
    <2>2. QED
      BY <1>5, <2>1, Zenon
  <1>7. Height = CHOOSE f : Is(f)
    BY DEF Height
  <1>8. Is(Height)
    <2> HIDE DEF Is
    <2>1. QED
      BY <1>6, <1>7, Zenon
  <1>9. \A u \in Values : Height[u] = Max({0} \cup {1 + Height[c] : c \in ToSet(Children[u])})
    BY <1>8, Zenon
  <1>10. ASSUME NEW u \in Values, \A c \in ToSet(Children[u]) : Height[c] \in Nat
         PROVE  /\ Height[u] \in Nat
                /\ Height[u] \in {0} \cup {1 + Height[c] : c \in ToSet(Children[u])}
                /\ \A c \in ToSet(Children[u]) : 1 + Height[c] <= Height[u]
    <2> DEFINE b == Below(Height, u)
               I == {0} \cup {1 + b[i] : i \in 1..Len(b)}
               J == {0} \cup {1 + Height[c] : c \in ToSet(Children[u])}
    <2>1. b \in Seq(Nat)
      BY <1>10, ChildrenFacts DEF Below
    <2>2. I = J
      BY <1>3
    <2> HIDE DEF b
    <2>3. Max(I) \in Nat /\ Max(I) \in I /\ \A y \in I : y <= Max(I)
      BY <2>1, GreatestFacts
    <2>4. Height[u] = Max(J)
      BY <1>9
    <2> HIDE DEF I
    <2>5. Height[u] \in Nat /\ Height[u] \in J /\ \A y \in J : y <= Height[u]
      BY <2>2, <2>3, <2>4, Zenon
    <2>6. QED
      BY <2>5
  <1>11. \A u \in Values : Height[u] \in Nat
    <2> DEFINE S == {u \in Values : Height[u] \notin Nat}
    <2>1. SUFFICES ASSUME S # {} PROVE FALSE
      OBVIOUS
    <2>2. PICK u \in S : ToSet(Children[u]) \cap S = {}
      <3>1. S \in SUBSET Values
        OBVIOUS
      <3> HIDE DEF S
      <3>2. QED
        BY <2>1, <3>1, TreeAssumption
    <2>3. u \in Values /\ \A c \in ToSet(Children[u]) : Height[c] \in Nat
      BY <2>2, ChildrenFacts
    <2>4. QED
      BY <1>10, <2>3
  <1>12. \A c \in ToSet(Children[v]) : Height[c] \in Nat
    BY <1>11, ChildrenFacts
  <1>13. /\ Height[v] \in Nat
         /\ Height[v] = 0 \/ \E c \in ToSet(Children[v]) : Height[v] = 1 + Height[c]
         /\ \A c \in ToSet(Children[v]) : 1 + Height[c] <= Height[v]
    BY <1>10, <1>12
  <1>14. QED
    BY <1>12, <1>13

-------------------------------------------------------------------------------
(* What a function gives for the elements of a sequence, one after another. *)

Mapped(f, s) == FlattenSeq(MapOf(f, s))

Maps(f, U, V) == f \in [U -> Seq(V)]

LEMMA MappedFacts ==
    ASSUME NEW U, NEW V, NEW f, Maps(f, U, V), NEW s \in Seq(U)
    PROVE  MapOf(f, s) \in Seq(Seq(V)) /\ Mapped(f, s) \in Seq(V)
  <1> DEFINE T == Seq(V)
  <1>1. MapOf(f, s) \in Seq(T)
    <2>1. f \in [U -> T]
      BY DEF Maps
    <2> HIDE DEF T
    <2>2. QED
      BY <2>1 DEF MapOf
  <1>2. FlattenSeq(MapOf(f, s)) \in Seq(V)
    BY <1>1, FlattenType
  <1>3. QED
    BY <1>1, <1>2 DEF Mapped

LEMMA MappedConcat ==
    ASSUME NEW U, NEW V, NEW f, Maps(f, U, V), NEW a \in Seq(U), NEW b \in Seq(U)
    PROVE  Mapped(f, a \o b) = Mapped(f, a) \o Mapped(f, b)
  <1>1. MapOf(f, a) \in Seq(Seq(V)) /\ MapOf(f, b) \in Seq(Seq(V))
    BY MappedFacts
  <1>2. MapOf(f, a \o b) = MapOf(f, a) \o MapOf(f, b)
    BY MapConcat
  <1>3. FlattenSeq(MapOf(f, a) \o MapOf(f, b)) = FlattenSeq(MapOf(f, a)) \o FlattenSeq(MapOf(f, b))
    BY <1>1, FlattenConcat
  <1>4. QED
    BY <1>2, <1>3, Zenon DEF Mapped

LEMMA MappedOne ==
    ASSUME NEW U, NEW V, NEW f, Maps(f, U, V), NEW x \in U
    PROVE  Mapped(f, <<x>>) = f[x]
  <1>1. f[x] \in Seq(V)
    BY DEF Maps
  <1>2. MapOf(f, <<x>>) = <<f[x]>>
    BY DEF MapOf
  <1>3. FlattenSeq(<<f[x]>>) = f[x]
    BY <1>1, FlattenOne
  <1>4. QED
    BY <1>2, <1>3, Zenon DEF Mapped

LEMMA MappedNone ==
    ASSUME NEW f
    PROVE  Mapped(f, <<>>) = <<>>
  <1>1. MapOf(f, <<>>) = <<>>
    BY DEF MapOf
  <1>2. QED
    BY <1>1, FlattenNone, Zenon DEF Mapped

LEMMA MappedAppend ==
    ASSUME NEW U, NEW V, NEW f, Maps(f, U, V), NEW a \in Seq(U), NEW x \in U
    PROVE  Mapped(f, Append(a, x)) = Mapped(f, a) \o f[x]
  <1>1. MapOf(f, a) \in Seq(Seq(V)) /\ f[x] \in Seq(V)
    BY MappedFacts DEF Maps
  <1>2. MapOf(f, Append(a, x)) = Append(MapOf(f, a), f[x])
    BY DEF MapOf
  <1>3. FlattenSeq(Append(MapOf(f, a), f[x])) = FlattenSeq(MapOf(f, a)) \o f[x]
    BY <1>1, FlattenAppend
  <1>4. QED
    BY <1>2, <1>3, Zenon DEF Mapped

LEMMA Joins ==
    ASSUME NEW U, NEW a \in Seq(U), NEW b \in Seq(U), NEW c \in Seq(U)
    PROVE  /\ (a \o b) \o c = a \o (b \o c)
           /\ a \o <<>> = a /\ <<>> \o a = a
           /\ a \o b \in Seq(U)
           /\ Len(a \o b) = Len(a) + Len(b)
  OBVIOUS

-------------------------------------------------------------------------------
(* The articles among values, and the values a walk has still to visit. *)

ArticleOf == [v \in Values |-> IF v \in DOMAIN Article THEN <<v>> ELSE <<>>]

LEMMA ArticleOfType == Maps(ArticleOf, Values, DOMAIN Article)
  <1> DEFINE D == DOMAIN Article
  <1> HIDE DEF D
  <1>1. ArticleOf = [v \in Values |-> IF v \in D THEN <<v>> ELSE <<>>]
    BY DEF ArticleOf, D
  <1>2. ASSUME NEW v \in Values
        PROVE  ArticleOf[v] \in Seq(D)
    <2>1. CASE v \in D
      <3>1. ArticleOf[v] = <<v>>
        BY <1>1, <2>1, Zenon
      <3>2. QED
        BY <2>1, <3>1
    <2>2. CASE v \notin D
      <3>1. ArticleOf[v] = <<>>
        BY <1>1, <2>2, Zenon
      <3>2. QED
        BY <3>1
    <2>3. QED
      BY <2>1, <2>2
  <1>3. ArticleOf = [v \in Values |-> ArticleOf[v]]
    BY <1>1
  <1>4. QED
    BY <1>2, <1>3, Zenon DEF D, Maps

LEMMA ArticlesInIsMapped ==
    ASSUME NEW s \in Seq(Values)
    PROVE  ArticlesIn(s) = Mapped(ArticleOf, s)
  <1>1. \A i \in 1..Len(s) : s[i] \in Values
    OBVIOUS
  <1>2. [i \in 1..Len(s) |-> IF s[i] \in DOMAIN Article THEN <<s[i]>> ELSE <<>>]
           = MapOf(ArticleOf, s)
    BY <1>1, Zenon DEF ArticleOf, MapOf
  <1>3. QED
    BY <1>2, Zenon DEF ArticlesIn, Mapped

LEMMA ArticlesInFacts ==
    ASSUME NEW a \in Seq(Values), NEW b \in Seq(Values), NEW v \in Values
    PROVE  /\ ArticlesIn(a) \in Seq(DOMAIN Article)
           /\ ArticlesIn(a \o b) = ArticlesIn(a) \o ArticlesIn(b)
           /\ ArticlesIn(<<v>>) = ArticleOf[v]
           /\ ArticlesIn(<<>>) = <<>>
  <1>1. a \o b \in Seq(Values) /\ <<v>> \in Seq(Values) /\ <<>> \in Seq(Values)
    OBVIOUS
  <1>2. /\ ArticlesIn(a) = Mapped(ArticleOf, a)
        /\ ArticlesIn(b) = Mapped(ArticleOf, b)
        /\ ArticlesIn(a \o b) = Mapped(ArticleOf, a \o b)
        /\ ArticlesIn(<<v>>) = Mapped(ArticleOf, <<v>>)
        /\ ArticlesIn(<<>>) = Mapped(ArticleOf, <<>>)
    BY <1>1, ArticlesInIsMapped
  <1>3. Mapped(ArticleOf, a) \in Seq(DOMAIN Article)
    BY ArticleOfType, MappedFacts
  <1>4. Mapped(ArticleOf, a \o b) = Mapped(ArticleOf, a) \o Mapped(ArticleOf, b)
    BY ArticleOfType, MappedConcat
  <1>5. Mapped(ArticleOf, <<v>>) = ArticleOf[v]
    BY ArticleOfType, MappedOne
  <1>6. Mapped(ArticleOf, <<>>) = <<>>
    BY MappedNone
  <1>7. QED
    BY <1>2, <1>3, <1>4, <1>5, <1>6, Zenon

\* The values in the trees on a stack, in the order of the walk.
RestOf(s) == FlattenSeq([k \in 1..Len(s) |-> Preorder[Reverse(s)[k].value]])

ValuesOf == [e \in Entries |-> Preorder[e.value]]

LEMMA ValuesOfType == Maps(ValuesOf, Entries, Values)
  <1>1. \A e \in Entries : Preorder[e.value] \in Seq(Values)
    BY PreorderFacts DEF Entries
  <1> DEFINE T == Seq(Values)
  <1> HIDE DEF T
  <1>2. \A e \in Entries : Preorder[e.value] \in T
    BY <1>1 DEF T
  <1>3. ValuesOf \in [Entries -> T]
    BY <1>2 DEF ValuesOf
  <1>4. QED
    BY <1>3 DEF T, Maps

LEMMA ReverseFacts ==
    ASSUME NEW U, NEW s \in Seq(U)
    PROVE  /\ Reverse(s) \in Seq(U)
           /\ Len(Reverse(s)) = Len(s)
           /\ \A k \in 1..Len(s) : Reverse(s)[k] = s[Len(s) - k + 1]
  BY DEF Reverse

LEMMA RestIsMapped ==
    ASSUME NEW s \in Seq(Entries)
    PROVE  RestOf(s) = Mapped(ValuesOf, Reverse(s)) /\ RestOf(s) \in Seq(Values)
  <1> DEFINE r == Reverse(s)
  <1>1. r \in Seq(Entries) /\ Len(r) = Len(s)
    BY ReverseFacts
  <1>2. [k \in 1..Len(s) |-> Preorder[r[k].value]] = MapOf(ValuesOf, r)
    <2> HIDE DEF r
    <2>1. \A k \in 1..Len(s) : r[k] \in Entries
      BY <1>1
    <2>2. QED
      BY <1>1, <2>1, Zenon DEF ValuesOf, MapOf
  <1>3. RestOf(s) = Mapped(ValuesOf, r)
    BY <1>2, Zenon DEF RestOf, Mapped
  <1> HIDE DEF r
  <1>4. Mapped(ValuesOf, r) \in Seq(Values)
    BY <1>1, ValuesOfType, MappedFacts
  <1>5. QED
    BY <1>3, <1>4 DEF r

\* A turn of the loop takes the first of the values still to visit.
LEMMA RestStep ==
    ASSUME NEW s \in Seq(Entries), s # <<>>, Last(s).depth <= MaxJsonDepth
    PROVE  RestOf(s) = <<Last(s).value>> \o RestOf(Front(s) \o Pushed(Last(s)))
  <1> DEFINE top == Last(s)
             pushed == Pushed(top)
             front == Front(s)
             rf == Reverse(front)
             rp == Reverse(pushed)
  <1>1. /\ top \in Entries /\ top.value \in Values
        /\ front \in Seq(Entries) /\ s = Append(front, top)
    <2>1. Len(s) \in 1..Len(s) /\ SubSeq(s, 1, Len(s)) = s
      OBVIOUS
    <2>2. SubSeq(s, 1, Len(s)) = Append(SubSeq(s, 1, Len(s) - 1), s[Len(s)])
      BY <2>1, Prefix
    <2>3. top = s[Len(s)] /\ top \in Entries
      BY <2>1 DEF Last
    <2>4. front = SubSeq(s, 1, Len(s) - 1) /\ front \in Seq(Entries)
      BY <2>1 DEF Front
    <2> HIDE DEF top, front
    <2>5. top.value \in Values
      BY <2>3 DEF Entries
    <2>6. QED
      BY <2>1, <2>2, <2>3, <2>4, <2>5
  <1>2. pushed \in Seq(Entries)
    BY <1>1, PushedFacts
  <1>3. rf \in Seq(Entries) /\ Len(rf) = Len(front) /\ rp \in Seq(Entries) /\ Len(rp) = Len(pushed)
    BY <1>1, <1>2, ReverseFacts
  <1>4. Reverse(s) = <<top>> \o rf
    <2> HIDE DEF front, top
    <2>1. QED
      BY <1>1 DEF Reverse
  <1>5. Reverse(front \o pushed) = rp \o rf
    <2> HIDE DEF front, pushed
    <2>1. QED
      BY <1>1, <1>2 DEF Reverse
  <1>6. MapOf(ValuesOf, rp) = Below(Preorder, top.value)
    <2> DEFINE c == Children[top.value]
    <2>1. c \in Seq(Values) /\ Len(c) \in Nat
      BY <1>1, ChildrenFacts
    <2>2. Len(pushed) = Len(c) /\ \A k \in 1..Len(c) : pushed[k].value = Reverse(c)[k]
      <3>1. pushed = [i \in 1..Len(c) |-> [value |-> Reverse(c)[i], depth |-> top.depth + 1]]
        BY DEF Pushed
      <3> HIDE DEF pushed, c, top
      <3>2. QED
        BY <2>1, <3>1
    <2>3. \A k \in 1..Len(c) : Len(c) - k + 1 \in 1..Len(c) /\ Len(c) - (Len(c) - k + 1) + 1 = k
      <3> HIDE DEF c
      <3>1. QED
        BY <2>1
    <2>4. \A k \in 1..Len(c) : Reverse(c)[k] = c[Len(c) - k + 1]
      BY <2>1, ReverseFacts
    <2>5. \A k \in 1..Len(c) : rp[k] = pushed[Len(c) - k + 1]
      BY <1>2, <2>2, ReverseFacts
    <2> HIDE DEF c, rp, pushed
    <2>6. \A k \in 1..Len(c) : rp[k].value = c[k]
      BY <2>2, <2>3, <2>4, <2>5
    <2>7. \A k \in 1..Len(c) : rp[k] \in Entries
      BY <1>3, <2>2
    <2>8. \A k \in 1..Len(c) : ValuesOf[rp[k]] = Preorder[c[k]]
      BY <2>6, <2>7, Zenon DEF ValuesOf
    <2>9. QED
      BY <1>3, <2>2, <2>8, Zenon DEF MapOf, Below, c
  <1> HIDE DEF rf, rp, front, pushed, top
  <1> DEFINE X == Mapped(ValuesOf, rf)
             Y == FlattenSeq(Below(Preorder, top.value))
  <1>7. X \in Seq(Values) /\ Y \in Seq(Values) /\ <<top.value>> \in Seq(Values)
    <2>1. X \in Seq(Values)
      BY <1>3, ValuesOfType, MappedFacts
    <2>2. Y \in Seq(Values)
      BY <1>1, PreorderFacts, FlattenType
    <2>3. QED
      BY <1>1, <2>1, <2>2
  <1>8. Mapped(ValuesOf, Reverse(s)) = (<<top.value>> \o Y) \o X
    <2>1. Mapped(ValuesOf, <<top>> \o rf) = Mapped(ValuesOf, <<top>>) \o X
      <3> DEFINE one == <<top>>
      <3>1. one \in Seq(Entries)
        BY <1>1
      <3> HIDE DEF one
      <3>2. Mapped(ValuesOf, one \o rf) = Mapped(ValuesOf, one) \o Mapped(ValuesOf, rf)
        BY <1>3, <3>1, ValuesOfType, MappedConcat
      <3>3. QED
        BY <3>2 DEF one
    <2>2. Mapped(ValuesOf, <<top>>) = ValuesOf[top]
      BY <1>1, ValuesOfType, MappedOne
    <2>3. ValuesOf[top] = Preorder[top.value]
      BY <1>1, Zenon DEF ValuesOf
    <2>4. Preorder[top.value] = <<top.value>> \o Y
      BY <1>1, PreorderFacts
    <2>5. QED
      BY <1>4, <2>1, <2>2, <2>3, <2>4, Zenon
  <1>9. Mapped(ValuesOf, Reverse(front \o pushed)) = Y \o X
    <2>1. Mapped(ValuesOf, rp \o rf) = Mapped(ValuesOf, rp) \o X
      BY <1>3, ValuesOfType, MappedConcat
    <2>2. Mapped(ValuesOf, rp) = Y
      BY <1>6, Zenon DEF Mapped
    <2>3. QED
      BY <1>5, <2>1, <2>2, Zenon
  <1>10. front \o pushed \in Seq(Entries)
    BY <1>1, <1>2
  <1>11. RestOf(s) = Mapped(ValuesOf, Reverse(s))
         /\ RestOf(front \o pushed) = Mapped(ValuesOf, Reverse(front \o pushed))
    BY <1>10, RestIsMapped
  <1>12. RestOf(s) = (<<top.value>> \o Y) \o X /\ RestOf(front \o pushed) = Y \o X
    BY <1>8, <1>9, <1>11, Zenon
  <1> HIDE DEF X, Y
  <1>13. (<<top.value>> \o Y) \o X = <<top.value>> \o (Y \o X)
    BY <1>7, Joins
  <1>14. QED
    BY <1>12, <1>13, Zenon DEF front, pushed, top

\* A tree on the stack reaches below the limit of the depth.
DeepEntry(e) == e.depth + Height[e.value] > MaxJsonDepth
Deep(s) == \E k \in 1..Len(s) : DeepEntry(s[k])

LEMMA DeepConcat ==
    ASSUME NEW a \in Seq(Entries), NEW b \in Seq(Entries)
    PROVE  Deep(a \o b) <=> Deep(a) \/ Deep(b)
  <1>1. ASSUME NEW k \in 1..Len(a \o b)
        PROVE  \/ k \in 1..Len(a) /\ (a \o b)[k] = a[k]
               \/ k - Len(a) \in 1..Len(b) /\ (a \o b)[k] = b[k - Len(a)]
    OBVIOUS
  <1>2. \A k \in 1..Len(a) : k \in 1..Len(a \o b) /\ (a \o b)[k] = a[k]
    OBVIOUS
  <1>3. \A k \in 1..Len(b) : Len(a) + k \in 1..Len(a \o b) /\ (a \o b)[Len(a) + k] = b[k]
    OBVIOUS
  <1>4. Deep(a) => Deep(a \o b)
    BY <1>2, Zenon DEF Deep
  <1>5. Deep(b) => Deep(a \o b)
    BY <1>3, Zenon DEF Deep
  <1>6. Deep(a \o b) => Deep(a) \/ Deep(b)
    BY <1>1, Zenon DEF Deep
  <1>7. QED
    BY <1>4, <1>5, <1>6, Zenon

\* Going into a value says no more of its height.
LEMMA DeepPushed ==
    ASSUME NEW top \in Entries, top.depth <= MaxJsonDepth
    PROVE  Deep(Pushed(top)) <=> DeepEntry(top)
  <1> DEFINE c == Children[top.value]
             p == Pushed(top)
             d == top.depth
             m == MaxJsonDepth - d
  <1>1. top.value \in Values /\ d \in Nat /\ m \in Nat /\ MaxJsonDepth = d + m
    BY LimitAssumption DEF Entries
  <1>2. c \in Seq(Values) /\ Len(c) \in Nat
    BY <1>1, ChildrenFacts
  <1>3. p = [i \in 1..Len(c) |-> [value |-> Reverse(c)[i], depth |-> d + 1]]
    BY DEF Pushed
  <1>4. \A y \in ToSet(c) : \E i \in 1..Len(c) : y = c[i]
    BY <1>1, ChildrenFacts
  <1>5. \A i \in 1..Len(c) : c[i] \in ToSet(c)
    BY <1>1, ChildrenFacts
  <1>6. Height[top.value] <= m <=> \A y \in ToSet(c) : 1 + Height[y] <= m
    BY <1>1, HeightFacts
  <1>7. Height[top.value] \in Nat /\ \A i \in 1..Len(c) : Height[c[i]] \in Nat
    BY <1>1, <1>2, HeightFacts
  <1> HIDE DEF c, p, d, m
  <1>8. Len(p) = Len(c) /\ \A i \in 1..Len(c) : p[i].value = Reverse(c)[i] /\ p[i].depth = d + 1
    BY <1>2, <1>3
  <1>9. \A i \in 1..Len(c) : Len(c) - i + 1 \in 1..Len(c) /\ Len(c) - (Len(c) - i + 1) + 1 = i
    BY <1>2
  <1>10. \A i \in 1..Len(c) : Reverse(c)[i] = c[Len(c) - i + 1]
    BY <1>2, ReverseFacts
  <1>11. DeepEntry(top) <=> ~(Height[top.value] <= m)
    BY <1>1, <1>7 DEF DeepEntry, d
  <1>12. ASSUME NEW i \in 1..Len(c)
         PROVE  DeepEntry(p[i]) <=> ~(1 + Height[c[Len(c) - i + 1]] <= m)
    <2> DEFINE h == Height[c[Len(c) - i + 1]]
    <2>1. DeepEntry(p[i]) <=> d + 1 + h > MaxJsonDepth
      BY <1>8, <1>10 DEF DeepEntry
    <2>2. h \in Nat
      BY <1>7, <1>9
    <2> HIDE DEF h
    <2>3. QED
      BY <1>1, <2>1, <2>2 DEF h
  <1>13. Deep(p) <=> \E i \in 1..Len(c) : DeepEntry(p[i])
    BY <1>8, Zenon DEF Deep
  <1>14. Deep(p) <=> \E i \in 1..Len(c) : ~(1 + Height[c[i]] <= m)
    BY <1>9, <1>12, <1>13
  <1>15. (\E i \in 1..Len(c) : ~(1 + Height[c[i]] <= m)) <=> \E y \in ToSet(c) : ~(1 + Height[y] <= m)
    BY <1>4, <1>5, Zenon
  <1>16. QED
    BY <1>6, <1>11, <1>14, <1>15, Zenon DEF p

LEMMA DeepStep ==
    ASSUME NEW s \in Seq(Entries), s # <<>>
    PROVE  /\ Last(s).depth <= MaxJsonDepth => (Deep(s) <=> Deep(Front(s) \o Pushed(Last(s))))
           /\ Last(s).depth > MaxJsonDepth => Deep(s)
  <1>1. Len(s) \in 1..Len(s) /\ Last(s) = s[Len(s)] /\ Last(s) \in Entries
    BY DEF Last
  <1>2. Front(s) \in Seq(Entries) /\ <<Last(s)>> \in Seq(Entries)
    BY <1>1 DEF Front
  <1>3. s = Front(s) \o <<Last(s)>>
    <2>1. SubSeq(s, 1, Len(s)) = s
      OBVIOUS
    <2>2. SubSeq(s, 1, Len(s)) = Append(SubSeq(s, 1, Len(s) - 1), s[Len(s)])
      BY <1>1, Prefix
    <2>3. s = Append(Front(s), Last(s))
      BY <1>1, <2>1, <2>2 DEF Front
    <2>4. QED
      BY <1>2, <2>3
  <1>4. Deep(<<Last(s)>>) <=> DeepEntry(Last(s))
    BY DEF Deep
  <1>5. Deep(s) <=> Deep(Front(s)) \/ DeepEntry(Last(s))
    <2>1. Deep(Front(s) \o <<Last(s)>>) <=> Deep(Front(s)) \/ Deep(<<Last(s)>>)
      BY <1>2, DeepConcat, Zenon
    <2>2. QED
      BY <1>3, <1>4, <2>1, Zenon
  <1>6. ASSUME Last(s).depth <= MaxJsonDepth
        PROVE  Deep(s) <=> Deep(Front(s) \o Pushed(Last(s)))
    <2>1. Pushed(Last(s)) \in Seq(Entries)
      BY <1>1, <1>6, PushedFacts
    <2>2. Deep(Pushed(Last(s))) <=> DeepEntry(Last(s))
      BY <1>1, <1>6, DeepPushed
    <2>3. Deep(Front(s) \o Pushed(Last(s))) <=> Deep(Front(s)) \/ Deep(Pushed(Last(s)))
      BY <1>2, <2>1, DeepConcat, Zenon
    <2>4. QED
      BY <1>5, <2>2, <2>3, Zenon
  <1>7. ASSUME Last(s).depth > MaxJsonDepth
        PROVE  DeepEntry(Last(s))
    <2>1. Last(s).depth \in Nat /\ Last(s).value \in Values
      BY <1>1, LimitAssumption DEF Entries
    <2>2. Height[Last(s).value] \in Nat
      BY <2>1, HeightFacts
    <2>3. QED
      BY <1>7, <2>1, <2>2, LimitAssumption DEF DeepEntry
  <1>8. QED
    BY <1>5, <1>6, <1>7, Zenon

-------------------------------------------------------------------------------
(* What the collectors keep of a document. *)

\* The values in the text of a block, and the articles among them.
ReadOf == [t \in Texts |-> IF t \in Values THEN Preorder[t] ELSE <<>>]
SaidOf == [t \in Texts |-> IF t \in Values THEN ArticlesIn(Preorder[t]) ELSE <<>>]

LEMMA ReadOfType == Maps(ReadOf, Texts, Values)
  <1> DEFINE T == Seq(Values)
  <1>1. ASSUME NEW t \in Texts
        PROVE  (IF t \in Values THEN Preorder[t] ELSE <<>>) \in T
    <2>1. t \in Values => Preorder[t] \in Seq(Values)
      BY PreorderFacts
    <2>2. <<>> \in Seq(Values)
      OBVIOUS
    <2>3. QED
      BY <2>1, <2>2, Zenon
  <1> HIDE DEF T
  <1>2. ReadOf \in [Texts -> T]
    BY <1>1 DEF ReadOf
  <1>3. QED
    BY <1>2 DEF Maps, T

LEMMA SaidOfType == Maps(SaidOf, Texts, DOMAIN Article)
  <1> DEFINE T == Seq(DOMAIN Article)
  <1>1. ASSUME NEW t \in Texts
        PROVE  (IF t \in Values THEN ArticlesIn(Preorder[t]) ELSE <<>>) \in T
    <2>1. t \in Values => ArticlesIn(Preorder[t]) \in Seq(DOMAIN Article)
      BY PreorderFacts, ArticlesInFacts
    <2>2. <<>> \in Seq(DOMAIN Article)
      OBVIOUS
    <2>3. QED
      BY <2>1, <2>2, Zenon
  <1> HIDE DEF T
  <1>2. SaidOf \in [Texts -> T]
    BY <1>1 DEF SaidOf
  <1>3. QED
    BY <1>2 DEF Maps, T

\* Of the texts, those that end the parsing, and of these the values too large.
StopTexts == {t \in Texts : t = "overlong" \/ (t \in Values /\ TooLarge(t))}
LargeTexts == {t \in StopTexts : t # "overlong"}

StopElements(f) == {e \in ElementsOf(f) : Stops(e)}
LargeElements(f) == {e \in StopElements(f) : e.of # "overlong"}

None(c, S) == \A j \in 1..Len(c) : c[j] \notin S

\* The first in S is in L.
FirstIn(c, S, L) == \E j \in 1..Len(c) : c[j] \in L /\ \A i \in 1..(j - 1) : c[i] \notin S

LEMMA NoneAppend ==
    ASSUME NEW U, NEW c \in Seq(U), NEW x \in U, NEW S, NEW L
    PROVE  /\ None(Append(c, x), S) <=> None(c, S) /\ x \notin S
           /\ FirstIn(Append(c, x), S, L) <=> FirstIn(c, S, L) \/ (None(c, S) /\ x \in L)
  <1> DEFINE a == Append(c, x)
             n == Len(c)
  <1>1. Len(a) = n + 1 /\ a[n + 1] = x /\ \A j \in 1..n : a[j] = c[j]
    OBVIOUS
  <1>2. n \in Nat
    OBVIOUS
  <1> HIDE DEF a, n
  <1>3. /\ \A j \in 1..(n + 1) : j \in 1..n \/ j = n + 1
        /\ n + 1 \in 1..(n + 1) /\ (n + 1) - 1 = n
        /\ \A j \in 1..n : j \in 1..(n + 1) /\ \A i \in 1..(j - 1) : i \in 1..n
    BY <1>2
  <1>4. None(a, S) <=> None(c, S) /\ x \notin S
    BY <1>1, <1>3, Zenon DEF None, n
  <1>5. ASSUME NEW j \in 1..(n + 1)
        PROVE  (a[j] \in L /\ \A i \in 1..(j - 1) : a[i] \notin S)
                  <=> \/ j \in 1..n /\ c[j] \in L /\ \A i \in 1..(j - 1) : c[i] \notin S
                      \/ j = n + 1 /\ x \in L /\ \A i \in 1..n : c[i] \notin S
    <2>1. CASE j \in 1..n
      <3>1. j # n + 1
        BY <1>2, <2>1
      <3>2. QED
        BY <1>1, <1>3, <2>1, <3>1, Zenon
    <2>2. CASE j = n + 1
      <3>1. j \notin 1..n /\ j - 1 = n
        BY <1>2, <2>2
      <3>2. QED
        BY <1>1, <2>2, <3>1, Zenon
    <2>3. QED
      BY <1>3, <2>1, <2>2
  <1>6. FirstIn(a, S, L) <=> FirstIn(c, S, L) \/ (None(c, S) /\ x \in L)
    <2>1. FirstIn(a, S, L) => FirstIn(c, S, L) \/ (None(c, S) /\ x \in L)
      BY <1>1, <1>5, Zenon DEF FirstIn, None, n
    <2>2. FirstIn(c, S, L) => FirstIn(a, S, L)
      BY <1>1, <1>3, <1>5, Zenon DEF FirstIn, n
    <2>3. None(c, S) /\ x \in L => FirstIn(a, S, L)
      BY <1>1, <1>3, <1>5, Zenon DEF FirstIn, None, n
    <2>4. QED
      BY <2>1, <2>2, <2>3
  <1>7. QED
    BY <1>4, <1>6 DEF a

\* What the first element in P says.
PlacesOf(c, P) == {j \in 1..Len(c) : c[j] \in P}
First(c, P, none) == IF PlacesOf(c, P) # {} THEN c[Min(PlacesOf(c, P))].of ELSE none

LEMMA FirstFacts ==
    ASSUME NEW U, NEW c \in Seq(U), NEW x \in U, NEW P, NEW none
    PROVE  /\ PlacesOf(c, P) # {} => /\ First(Append(c, x), P, none) = First(c, P, none)
                                     /\ \E y \in P : First(c, P, none) = y.of
           /\ PlacesOf(c, P) = {} => /\ First(Append(c, x), P, none) = IF x \in P THEN x.of ELSE none
                                     /\ First(c, P, none) = none
  <1> DEFINE a == Append(c, x)
             n == Len(c)
             I == PlacesOf(c, P)
             J == PlacesOf(a, P)
  <1>1. Len(a) = n + 1 /\ a[n + 1] = x /\ \A j \in 1..n : a[j] = c[j]
    OBVIOUS
  <1>2. n \in Nat
    OBVIOUS
  <1>3. I \subseteq 1..n /\ I \subseteq Nat /\ J \subseteq Nat /\ n \in Nat
    BY <1>1, <1>2 DEF PlacesOf
  <1>4. \A j : j \in J <=> j \in I \/ (j = n + 1 /\ x \in P)
    <2> HIDE DEF a, n
    <2>1. \A j : j \in 1..(n + 1) <=> j \in 1..n \/ j = n + 1
      BY <1>2
    <2>2. QED
      BY <1>1, <2>1, Zenon DEF PlacesOf, n
  <1> HIDE DEF I, J, a, n
  <1>5. ASSUME I # {}
        PROVE  /\ First(a, P, none) = First(c, P, none)
               /\ \E y \in P : First(c, P, none) = y.of
    <2>1. Min(I) \in I /\ \A y \in I : Min(I) <= y
      BY <1>3, <1>5, MinFacts
    <2>2. J # {}
      BY <1>4, <2>1
    <2>3. Min(J) \in J /\ \A y \in J : Min(J) <= y
      BY <1>3, <2>2, MinFacts
    <2>4. Min(J) = Min(I)
      <3> DEFINE y == Min(I)
                 z == Min(J)
      <3>1. /\ y \in I /\ y \in J /\ z \in J
            /\ \A j \in I : y <= j
            /\ \A j \in J : z <= j
        BY <1>4, <2>1, <2>3, Zenon
      <3>2. y \in 1..n /\ z \in Nat
        BY <1>3, <3>1
      <3>3. z \in I \/ z = n + 1
        BY <1>4, <3>1, Zenon
      <3> HIDE DEF y, z
      <3>4. z <= y /\ (z \in I => y <= z)
        BY <3>1
      <3>5. z = y
        BY <1>3, <3>2, <3>3, <3>4
      <3>6. QED
        BY <3>5 DEF y, z
    <2>5. a[Min(I)] = c[Min(I)] /\ c[Min(I)] \in P
      BY <1>1, <1>3, <2>1 DEF I, PlacesOf
    <2>6. First(a, P, none) = a[Min(J)].of /\ First(c, P, none) = c[Min(I)].of
      BY <1>5, <2>2, Zenon DEF First, I, J
    <2>7. QED
      BY <2>4, <2>5, <2>6, Zenon
  <1>6. ASSUME I = {}
        PROVE  First(a, P, none) = (IF x \in P THEN x.of ELSE none) /\ First(c, P, none) = none
    <2>1. First(c, P, none) = none
      BY <1>6, Zenon DEF First, I
    <2>2. CASE x \in P
      <3>1. J # {} /\ \A j \in J : j = n + 1
        BY <1>4, <1>6, <2>2
      <3>2. Min(J) = n + 1
        BY <1>3, <3>1, MinFacts
      <3>3. First(a, P, none) = a[Min(J)].of
        BY <3>1, Zenon DEF First, J
      <3>4. QED
        BY <1>1, <2>1, <2>2, <3>2, <3>3, Zenon
    <2>3. CASE x \notin P
      <3>1. J = {}
        BY <1>4, <1>6, <2>3
      <3>2. First(a, P, none) = none
        BY <3>1, Zenon DEF First, J
      <3>3. QED
        BY <2>1, <2>3, <3>2, Zenon
    <2>4. QED
      BY <2>2, <2>3
  <1>7. QED
    BY <1>5, <1>6, Zenon DEF I, a

LEMMA CollectParts ==
    ASSUME NEW c \in Founds, NEW f \in Families, NEW e \in ElementsOf(f)
    PROVE  LET d == Collect(c, e) IN
           /\ d.canonical = IF e.what = "canonical" /\ c.canonical = NoUrl THEN e.of ELSE c.canonical
           /\ d.og_url = IF e.what = "og_url" /\ c.og_url = NoUrl THEN e.of ELSE c.og_url
           /\ d.blocks = IF e.what = "block" THEN Append(c.blocks, e.of) ELSE c.blocks
           /\ d.items = IF e.what = "item" THEN Append(c.items, e.of) ELSE c.items
           /\ \A k \in Metadata :
                 d.meta[k] = IF e.what = k /\ c.meta[k] = "none" THEN e.of ELSE c.meta[k]
  <1>0. c = [canonical |-> c.canonical, og_url |-> c.og_url, meta |-> c.meta,
             blocks |-> c.blocks, items |-> c.items]
    BY DEF Founds
  <1>a. /\ "canonical" \notin Metadata /\ "og_url" \notin Metadata
        /\ "block" \notin Metadata /\ "item" \notin Metadata
    BY DEF Metadata, Times
  <1>1. CASE e.what = "canonical"
    BY <1>0, <1>a, <1>1 DEF Collect
  <1>2. CASE e.what = "og_url"
    BY <1>0, <1>a, <1>2 DEF Collect
  <1>3. CASE e.what \in Metadata
    <2> DEFINE m == [c.meta EXCEPT ![e.what] = IF @ = "none" THEN e.of ELSE @]
    <2>1. Collect(c, e) = [c EXCEPT !.meta = m]
      BY <1>a, <1>3 DEF Collect
    <2>2. DOMAIN c.meta = Metadata
      BY DEF Founds, Metas
    <2>3. \A k \in Metadata : m[k] = IF e.what = k /\ c.meta[k] = "none" THEN e.of ELSE c.meta[k]
      BY <1>3, <2>2
    <2> HIDE DEF m
    <2>4. /\ [c EXCEPT !.meta = m].meta = m
          /\ [c EXCEPT !.meta = m].canonical = c.canonical /\ [c EXCEPT !.meta = m].og_url = c.og_url
          /\ [c EXCEPT !.meta = m].blocks = c.blocks /\ [c EXCEPT !.meta = m].items = c.items
      BY <1>0
    <2>5. QED
      BY <1>a, <1>3, <2>1, <2>3, <2>4
  <1>5. CASE e.what = "block"
    BY <1>0, <1>a, <1>5 DEF Collect
  <1>6. CASE e.what = "item"
    BY <1>0, <1>a, <1>6 DEF Collect
  <1>7. QED
    BY <1>1, <1>2, <1>3, <1>5, <1>6, ElementFacts, Zenon

SaidByOf(f) == [e \in ElementsOf(f) |-> SaidBy(e)]

LEMMA SaidByFacts ==
    ASSUME NEW f \in Families, NEW e \in ElementsOf(f)
    PROVE  /\ SaidBy(e) \in Seq(DOMAIN Article)
           /\ e.what = "item" => SaidBy(e) = <<e.of>>
           /\ e.what = "block" => SaidBy(e) = SaidOf[e.of]
           /\ e.what \notin {"item", "block"} => SaidBy(e) = <<>>
  <1> DEFINE D == DOMAIN Article
  <1>1. CASE e.what = "item"
    <2>1. SaidBy(e) = <<e.of>>
      BY <1>1 DEF SaidBy
    <2>2. e.of \in D
      BY <1>1, ElementOf
    <2> HIDE DEF D
    <2>3. SaidBy(e) \in Seq(D)
      BY <2>1, <2>2
    <2>4. QED
      BY <1>1, <2>1, <2>3 DEF D
  <1>2. CASE e.what = "block"
    <2>1. e.of \in Texts
      BY <1>2, ElementOf
    <2>2. SaidOf[e.of] = IF e.of \in Values THEN ArticlesIn(Preorder[e.of]) ELSE <<>>
      BY <2>1, Zenon DEF SaidOf
    <2>3. SaidBy(e) = IF e.of \in Values THEN ArticlesIn(Preorder[e.of]) ELSE <<>>
      BY <1>2 DEF SaidBy
    <2>4. SaidOf[e.of] \in Seq(D)
      BY <2>1, SaidOfType, Zenon DEF Maps
    <2>5. QED
      BY <1>2, <2>2, <2>3, <2>4
  <1>3. CASE e.what \notin {"item", "block"}
    <2>1. SaidBy(e) = <<>>
      BY <1>3 DEF SaidBy
    <2>2. <<>> \in Seq(D)
      OBVIOUS
    <2>3. QED
      BY <1>3, <2>1, <2>2
  <1>4. QED
    BY <1>1, <1>2, <1>3

LEMMA SaidByType ==
    ASSUME NEW f \in Families
    PROVE  Maps(SaidByOf(f), ElementsOf(f), DOMAIN Article)
  <1> DEFINE T == Seq(DOMAIN Article)
  <1>1. \A e \in ElementsOf(f) : SaidBy(e) \in T
    BY SaidByFacts
  <1> HIDE DEF T
  <1>2. SaidByOf(f) \in [ElementsOf(f) -> T]
    BY <1>1 DEF SaidByOf
  <1>3. QED
    BY <1>2 DEF Maps, T

LEMMA ArticlesSaidIsMapped ==
    ASSUME doc \in Seq(ElementsOf(family))
    PROVE  ArticlesSaid = Mapped(SaidByOf(family), doc)
  <1>1. \A j \in 1..Len(doc) : doc[j] \in ElementsOf(family)
    OBVIOUS
  <1>2. [j \in 1..Len(doc) |-> SaidBy(doc[j])] = MapOf(SaidByOf(family), doc)
    BY <1>1, Zenon DEF SaidByOf, MapOf
  <1>3. QED
    BY <1>2, Zenon DEF ArticlesSaid, Mapped

(***************************************************************************)
(* What the collector keeps is enough: the articles of the document, the   *)
(* page it says it is, and whether and how a block ends the parsing.       *)
(***************************************************************************)
Canonicals(f) == {e \in ElementsOf(f) : e.what = "canonical" /\ e.of # NoUrl}
OgUrls(f) == {e \in ElementsOf(f) : e.what = "og_url"}
Kind(f, k) == {e \in ElementsOf(f) : e.what = k}

KeepsArticles ==
    ArticlesSaid = IF family = "microdata_article" THEN found.items ELSE Mapped(SaidOf, found.blocks)

KeepsLinks ==
    /\ found.canonical = First(doc, Canonicals(family), NoUrl)
    /\ found.og_url = First(doc, OgUrls(family), NoUrl)

KeepsMetadata == \A k \in Metadata : found.meta[k] = First(doc, Kind(family, k), "none")

KeepsStops ==
    /\ None(doc, StopElements(family)) <=> None(found.blocks, StopTexts)
    /\ FirstIn(doc, StopElements(family), LargeElements(family))
          <=> FirstIn(found.blocks, StopTexts, LargeTexts)

DocInv == KeepsArticles /\ KeepsLinks /\ KeepsMetadata /\ KeepsStops

LEMMA DocInit == Init => DocInv
  <1> SUFFICES ASSUME Init PROVE DocInv
    OBVIOUS
  <1>1. /\ doc = <<>> /\ found.blocks = <<>> /\ found.items = <<>>
        /\ found.canonical = NoUrl /\ found.og_url = NoUrl
    BY DEF Init
  <1>2. KeepsArticles
    <2>1. ArticlesSaid = <<>>
      <3>1. [j \in 1..Len(doc) |-> SaidBy(doc[j])] = <<>>
        BY <1>1
      <3>2. QED
        BY <3>1, FlattenNone, Zenon DEF ArticlesSaid
    <2>2. Mapped(SaidOf, <<>>) = <<>>
      BY MappedNone
    <2>3. QED
      BY <1>1, <2>1, <2>2, Zenon DEF KeepsArticles
  <1>3. KeepsLinks
    <2>1. \A P : PlacesOf(doc, P) = {}
      BY <1>1 DEF PlacesOf
    <2>2. QED
      BY <1>1, <2>1, Zenon DEF KeepsLinks, First
  <1>a. KeepsMetadata
    <2>1. \A P : PlacesOf(doc, P) = {}
      BY <1>1 DEF PlacesOf
    <2>2. \A k \in Metadata : found.meta[k] = "none"
      BY DEF Init
    <2>3. QED
      BY <2>1, <2>2, Zenon DEF KeepsMetadata, First
  <1>4. KeepsStops
    <2>1. \A S : None(<<>>, S)
      BY DEF None
    <2>2. \A S, L : ~FirstIn(<<>>, S, L)
      BY DEF FirstIn
    <2>3. QED
      BY <1>1, <2>1, <2>2, Zenon DEF KeepsStops
  <1>5. QED
    BY <1>2, <1>3, <1>a, <1>4 DEF DocInv

LEMMA BlockFacts ==
    ASSUME NEW f \in Families, NEW e \in ElementsOf(f)
    PROVE  /\ e \in StopElements(f) <=> e.what = "block" /\ e.of \in StopTexts
           /\ e \in LargeElements(f) <=> e.what = "block" /\ e.of \in LargeTexts
  <1>1. e.what = "block" => e.of \in Texts
    BY ElementOf
  <1>2. e \in StopElements(f) <=> e.what = "block" /\ e.of \in StopTexts
    BY <1>1, Zenon DEF StopElements, Stops, StopTexts
  <1>3. QED
    BY <1>2, Zenon DEF LargeElements, LargeTexts

LEMMA DocRead ==
    ASSUME PageInv, DocInv, NEW e \in ElementsOf(family),
           doc' = Append(doc, e), found' = Collect(found, e), family' = family
    PROVE  DocInv'
  <1> DEFINE E == ElementsOf(family)
             canonicals == Canonicals(family)
             ogs == OgUrls(family)
             stops == StopElements(family)
             large == LargeElements(family)
  <1>0. /\ family \in Families /\ found \in Founds
        /\ doc \in Seq(E) /\ doc' \in Seq(E) /\ e \in E
        /\ found.blocks \in Seq(Texts) /\ found.items \in Seq(DOMAIN Article)
    <2>1. family \in Families /\ found \in Founds /\ doc \in Seq(E)
      BY DEF PageInv, ReadingOK
    <2> HIDE DEF E
    <2>2. doc' \in Seq(E)
      BY <2>1 DEF E
    <2>3. QED
      BY <2>1, <2>2 DEF Founds, E
  <1>1. /\ found'.canonical = IF e.what = "canonical" /\ found.canonical = NoUrl
                              THEN e.of ELSE found.canonical
        /\ found'.og_url = IF e.what = "og_url" /\ found.og_url = NoUrl THEN e.of ELSE found.og_url
        /\ found'.blocks = IF e.what = "block" THEN Append(found.blocks, e.of) ELSE found.blocks
        /\ found'.items = IF e.what = "item" THEN Append(found.items, e.of) ELSE found.items
        /\ \A k \in Metadata :
              found'.meta[k] = IF e.what = k /\ found.meta[k] = "none" THEN e.of ELSE found.meta[k]
    BY <1>0, CollectParts
  <1>2. /\ e.what = "block" => e.of \in Texts
        /\ e.what = "item" => e.of \in DOMAIN Article
        /\ family = "microdata_article" => e.what # "block"
        /\ family # "microdata_article" => e.what # "item"
    BY <1>0, ElementOf
  <1>3. KeepsArticles'
    <2> DEFINE S == ArticlesSaid
               m == Mapped(SaidOf, found.blocks)
    <2>1. ArticlesSaid' = S \o SaidBy(e)
      <3>1. S = Mapped(SaidByOf(family), doc)
        BY <1>0, ArticlesSaidIsMapped
      <3>2. ArticlesSaid' = Mapped(SaidByOf(family), doc')
        <4>1. \A j \in 1..Len(doc') : doc'[j] \in E
          BY <1>0
        <4> DEFINE d == doc'
                   g == SaidByOf(family)
        <4>2. [j \in 1..Len(d) |-> SaidBy(d[j])] = MapOf(g, d)
          BY <4>1, Zenon DEF SaidByOf, MapOf
        <4>3. ArticlesSaid' = FlattenSeq([j \in 1..Len(d) |-> SaidBy(d[j])])
          BY DEF ArticlesSaid, SaidBy
        <4>4. QED
          BY <4>2, <4>3, Zenon DEF Mapped
      <3>3. Mapped(SaidByOf(family), Append(doc, e)) = Mapped(SaidByOf(family), doc) \o SaidByOf(family)[e]
        BY <1>0, SaidByType, MappedAppend
      <3>4. SaidByOf(family)[e] = SaidBy(e)
        BY <1>0, Zenon DEF SaidByOf
      <3>5. QED
        BY <3>1, <3>2, <3>3, <3>4, Zenon
    <2>2. S \in Seq(DOMAIN Article)
      BY <1>0, SaidByType, MappedFacts, ArticlesSaidIsMapped
    <2>3. /\ e.what = "item" => SaidBy(e) = <<e.of>>
          /\ e.what = "block" => SaidBy(e) = SaidOf[e.of]
          /\ e.what \notin {"item", "block"} => SaidBy(e) = <<>>
      BY <1>0, SaidByFacts
    <2>4. KeepsArticles' <=> ArticlesSaid' = IF family = "microdata_article" THEN found'.items
                                             ELSE Mapped(SaidOf, found'.blocks)
      BY DEF KeepsArticles, SaidOf, ArticlesIn, Texts, Mapped, MapOf
    <2>5. S \o <<>> = S
      BY <2>2
    <2>6. ASSUME family = "microdata_article" PROVE KeepsArticles'
      <3>1. S = found.items
        BY <2>6 DEF DocInv, KeepsArticles
      <3>2. CASE e.what = "item"
        <4>1. Append(found.items, e.of) = found.items \o <<e.of>>
          BY <1>0, <1>2, <3>2
        <4>2. QED
          BY <1>1, <2>1, <2>3, <2>4, <2>6, <3>1, <3>2, <4>1, Zenon
      <3>3. CASE e.what # "item"
        <4>1. e.what \notin {"item", "block"}
          BY <1>2, <2>6, <3>3
        <4>2. QED
          BY <1>1, <2>1, <2>3, <2>4, <2>5, <2>6, <3>1, <3>3, <4>1, Zenon
      <3>4. QED
        BY <3>2, <3>3
    <2>7. ASSUME family # "microdata_article" PROVE KeepsArticles'
      <3>1. S = m
        BY <2>7 DEF DocInv, KeepsArticles
      <3>2. CASE e.what = "block"
        <4>1. Mapped(SaidOf, Append(found.blocks, e.of)) = m \o SaidOf[e.of]
          <5> DEFINE b == found.blocks
                     t == e.of
          <5>1. b \in Seq(Texts) /\ t \in Texts
            BY <1>0, <1>2, <3>2
          <5> HIDE DEF b, t
          <5>2. Mapped(SaidOf, Append(b, t)) = Mapped(SaidOf, b) \o SaidOf[t]
            BY <5>1, SaidOfType, MappedAppend
          <5>3. QED
            BY <5>2 DEF b, t
        <4>2. QED
          BY <1>1, <2>1, <2>3, <2>4, <2>7, <3>1, <3>2, <4>1, Zenon
      <3>3. CASE e.what # "block"
        <4>1. e.what \notin {"item", "block"}
          BY <1>2, <2>7, <3>3
        <4>2. QED
          BY <1>1, <2>1, <2>3, <2>4, <2>5, <2>7, <3>1, <3>3, <4>1, Zenon
      <3>4. QED
        BY <3>2, <3>3
    <2>8. QED
      BY <2>6, <2>7
  <1>4. KeepsLinks'
    <2>1. /\ found.canonical = First(doc, canonicals, NoUrl)
          /\ found.og_url = First(doc, ogs, NoUrl)
      BY DEF DocInv, KeepsLinks
    <2>2. (e \in canonicals <=> e.what = "canonical" /\ e.of # NoUrl) /\ (e \in ogs <=> e.what = "og_url")
      BY <1>0 DEF Canonicals, OgUrls
    <2>3. \A y \in canonicals : y.of # NoUrl
      BY DEF Canonicals
    <2>4. \A y \in ogs : y.of # NoUrl
      <3>1. \A y \in ogs : y.of \in Urls \cup {EmptyUrl}
        BY <1>0, ElementOf DEF OgUrls
      <3>2. QED
        BY <3>1, UrlAssumption
    <2> HIDE DEF canonicals, ogs
    <2>5. found'.canonical = First(doc', canonicals, NoUrl)
      <3>1. CASE PlacesOf(doc, canonicals) # {}
        <4>1. /\ First(doc', canonicals, NoUrl) = First(doc, canonicals, NoUrl)
              /\ \E y \in canonicals : First(doc, canonicals, NoUrl) = y.of
          BY <1>0, <3>1, FirstFacts
        <4>2. QED
          BY <1>1, <2>1, <2>3, <4>1, Zenon
      <3>2. CASE PlacesOf(doc, canonicals) = {}
        <4>1. /\ First(doc', canonicals, NoUrl) = IF e \in canonicals THEN e.of ELSE NoUrl
              /\ First(doc, canonicals, NoUrl) = NoUrl
          BY <1>0, <3>2, FirstFacts
        <4>2. QED
          BY <1>1, <2>1, <2>2, <4>1
      <3>3. QED
        BY <3>1, <3>2
    <2>6. found'.og_url = First(doc', ogs, NoUrl)
      <3>1. CASE PlacesOf(doc, ogs) # {}
        <4>1. /\ First(doc', ogs, NoUrl) = First(doc, ogs, NoUrl)
              /\ \E y \in ogs : First(doc, ogs, NoUrl) = y.of
          BY <1>0, <3>1, FirstFacts
        <4>2. QED
          BY <1>1, <2>1, <2>4, <4>1, Zenon
      <3>2. CASE PlacesOf(doc, ogs) = {}
        <4>1. /\ First(doc', ogs, NoUrl) = IF e \in ogs THEN e.of ELSE NoUrl
              /\ First(doc, ogs, NoUrl) = NoUrl
          BY <1>0, <3>2, FirstFacts
        <4>2. QED
          BY <1>1, <2>1, <2>2, <4>1
      <3>3. QED
        BY <3>1, <3>2
    <2>7. KeepsLinks' <=> /\ found'.canonical = First(doc', canonicals, NoUrl)
                          /\ found'.og_url = First(doc', ogs, NoUrl)
      BY DEF KeepsLinks, First, PlacesOf, Canonicals, OgUrls, ElementsOf, canonicals, ogs
    <2>8. QED
      BY <2>5, <2>6, <2>7
  <1>a. KeepsMetadata'
    <2>1. ASSUME NEW k \in Metadata
          PROVE  found'.meta[k] = First(doc', Kind(family, k), "none")
      <3> DEFINE P == Kind(family, k)
      <3>1. found.meta[k] = First(doc, P, "none")
        BY DEF DocInv, KeepsMetadata
      <3>2. e \in P <=> e.what = k
        BY <1>0 DEF Kind
      <3>3. \A y \in P : y.of # "none"
        <4>1. \A y \in P : y \in E /\ y.what = k
          BY DEF Kind
        <4>2. \A y \in P : y.of \in Sayable(k)
          BY <1>0, <4>1, ElementOf DEF Metadata, Times
        <4>3. "none" \notin Sayable(k)
          BY DEF Sayable, Metadata, Times
        <4>4. QED
          BY <4>2, <4>3
      <3> HIDE DEF P
      <3>4. CASE PlacesOf(doc, P) # {}
        <4>1. /\ First(doc', P, "none") = First(doc, P, "none")
              /\ \E y \in P : First(doc, P, "none") = y.of
          BY <1>0, <3>4, FirstFacts
        <4>2. QED
          BY <1>1, <3>1, <3>3, <4>1, Zenon DEF P
      <3>5. CASE PlacesOf(doc, P) = {}
        <4>1. /\ First(doc', P, "none") = IF e \in P THEN e.of ELSE "none"
              /\ First(doc, P, "none") = "none"
          BY <1>0, <3>5, FirstFacts
        <4>2. found'.meta[k] = IF e.what = k THEN e.of ELSE "none"
          BY <1>1, <3>1, <4>1
        <4>3. QED
          BY <3>2, <4>1, <4>2, Zenon DEF P
      <3>6. QED
        BY <3>4, <3>5
    <2>2. KeepsMetadata' <=> \A k \in Metadata : found'.meta[k] = First(doc', Kind(family, k), "none")
      BY DEF KeepsMetadata, First, PlacesOf, Kind, ElementsOf
    <2>3. QED
      BY <2>1, <2>2
  <1>5. KeepsStops'
    <2>1. /\ None(doc', stops) <=> None(doc, stops) /\ e \notin stops
          /\ FirstIn(doc', stops, large)
                <=> FirstIn(doc, stops, large) \/ (None(doc, stops) /\ e \in large)
      BY <1>0, NoneAppend
    <2>2. /\ None(doc, stops) <=> None(found.blocks, StopTexts)
          /\ FirstIn(doc, stops, large) <=> FirstIn(found.blocks, StopTexts, LargeTexts)
      BY DEF DocInv, KeepsStops
    <2>3. /\ e \in stops <=> e.what = "block" /\ e.of \in StopTexts
          /\ e \in large <=> e.what = "block" /\ e.of \in LargeTexts
      BY <1>0, BlockFacts
    <2>4. CASE e.what = "block"
      <3>1. LET bs == Append(found.blocks, e.of) IN
            /\ None(bs, StopTexts) <=> None(found.blocks, StopTexts) /\ e.of \notin StopTexts
            /\ FirstIn(bs, StopTexts, LargeTexts)
                  <=> \/ FirstIn(found.blocks, StopTexts, LargeTexts)
                      \/ None(found.blocks, StopTexts) /\ e.of \in LargeTexts
        BY <1>0, <1>2, <2>4, NoneAppend
      <3>2. found'.blocks = Append(found.blocks, e.of)
        BY <1>1, <2>4, Zenon
      <3>3. /\ None(doc', stops) <=> None(found'.blocks, StopTexts)
            /\ FirstIn(doc', stops, large) <=> FirstIn(found'.blocks, StopTexts, LargeTexts)
        BY <2>1, <2>2, <2>3, <2>4, <3>1, <3>2, Zenon
      <3>4. QED
        BY <3>3, Zenon DEF KeepsStops, None, FirstIn, StopElements, LargeElements, ElementsOf, StopTexts, LargeTexts
    <2>5. CASE e.what # "block"
      <3>1. found'.blocks = found.blocks
        BY <1>1, <2>5, Zenon
      <3>2. /\ None(doc', stops) <=> None(found'.blocks, StopTexts)
            /\ FirstIn(doc', stops, large) <=> FirstIn(found'.blocks, StopTexts, LargeTexts)
        BY <2>1, <2>2, <2>3, <2>5, <3>1, Zenon
      <3>3. QED
        BY <3>2, Zenon DEF KeepsStops, None, FirstIn, StopElements, LargeElements, ElementsOf, StopTexts, LargeTexts
    <2>6. QED
      BY <2>4, <2>5
  <1>6. QED
    BY <1>3, <1>4, <1>a, <1>5 DEF DocInv

LEMMA DocStep ==
    ASSUME PageInv, DocInv, [Next]_vars
    PROVE  DocInv'
  <1>1. (\E e \in ElementsOf(family) : Read(e)) \/ UNCHANGED <<family, doc, found>>
    BY DEF Next, vars, EndOfPage, DecodeBlock, BlocksDone, Visit, WalkDone, Choose, Convert
  <1>2. CASE \E e \in ElementsOf(family) : Read(e)
    <2>1. PICK e \in ElementsOf(family) : Read(e)
      BY <1>2
    <2>2. doc' = Append(doc, e) /\ found' = Collect(found, e) /\ family' = family
      BY <2>1 DEF Read
    <2>3. QED
      BY <2>2, DocRead
  <1>3. CASE UNCHANGED <<family, doc, found>>
    <2>1. KeepsArticles'
      BY <1>3 DEF DocInv, KeepsArticles, ArticlesSaid, SaidBy
    <2>2. KeepsLinks'
      BY <1>3 DEF DocInv, KeepsLinks, First, PlacesOf
    <2>a. KeepsMetadata'
      BY <1>3 DEF DocInv, KeepsMetadata, First, PlacesOf
    <2>3. KeepsStops'
      BY <1>3 DEF DocInv, KeepsStops, None, FirstIn
    <2>4. QED
      BY <2>1, <2>2, <2>a, <2>3 DEF DocInv
  <1>4. QED
    BY <1>1, <1>2, <1>3

-------------------------------------------------------------------------------
(* The walk through the JSON-LD blocks. *)

ReadUpTo(n) == Mapped(ReadOf, SubSeq(found.blocks, 1, n))
SaidUpTo(n) == Mapped(SaidOf, SubSeq(found.blocks, 1, n))
GoesOn(n) == \A j \in 1..n : found.blocks[j] \notin StopTexts

DecodingInv ==
    /\ family = "jsonld_article"
    /\ GoesOn(next - 1)
    /\ candidates = SaidUpTo(next - 1)
    /\ candidates = ArticlesIn(ReadUpTo(next - 1))

WalkingInv ==
    /\ family = "jsonld_article"
    /\ GoesOn(next - 1)
    /\ found.blocks[next] \in Values
    /\ candidates \o ArticlesIn(RestOf(stack)) = SaidUpTo(next)
    /\ candidates \o ArticlesIn(RestOf(stack)) = ArticlesIn(ReadUpTo(next))
    /\ visited + Len(RestOf(stack)) = Len(Preorder[found.blocks[next]])
    /\ Height[found.blocks[next]] > MaxJsonDepth <=> Deep(stack)

ChoosingInv ==
    /\ family # "generic_json_article"
    /\ None(found.blocks, StopTexts)
    /\ candidates = ArticlesSaid

\* What parse_document makes of the i-th candidate, and of all.
ItemFrom(i) ==
    ItemOf(Article[candidates[i]], i, IF PageIdentity = NoUrl THEN Identity(i) ELSE PageIdentity)

Settled(o) ==
    \/ candidates = <<>> /\ o = Refused("no candidate")
    \/ candidates # <<>> /\ PageIdentity \notin Approved \cup {NoUrl} /\ o = Refused("boundary")
    \/ /\ candidates # <<>>
       /\ PageIdentity \in Approved \cup {NoUrl}
       /\ \/ Chosen = {} /\ o = Refused("no choice")
          \/ \E i \in Chosen : o = ItemFrom(i)

DoneInv ==
    \/ family = "generic_json_article"
    \/ ChoosingInv /\ Settled(outcome)
    \/ FirstIn(found.blocks, StopTexts, LargeTexts) /\ outcome = Refused("limits")
    \/ /\ ~None(found.blocks, StopTexts)
       /\ ~FirstIn(found.blocks, StopTexts, LargeTexts)
       /\ outcome = Refused("execution")

CourseInv ==
    /\ pc # "done" => outcome = NoOutcome
    /\ pc = "reading" => next = 1 /\ candidates = <<>>
    /\ pc = "decoding" => DecodingInv
    /\ pc = "walking" => WalkingInv
    /\ pc = "choosing" => ChoosingInv
    /\ pc = "converting" => family = "generic_json_article"
    /\ pc = "done" => DoneInv

\* One block more.
LEMMA UpToNext ==
    ASSUME found.blocks \in Seq(Texts), NEW n \in 1..Len(found.blocks)
    PROVE  /\ SaidUpTo(n) = SaidUpTo(n - 1) \o SaidOf[found.blocks[n]]
           /\ ReadUpTo(n) = ReadUpTo(n - 1) \o ReadOf[found.blocks[n]]
           /\ ReadUpTo(n - 1) \in Seq(Values)
           /\ ReadOf[found.blocks[n]] \in Seq(Values)
           /\ ArticlesIn(ReadUpTo(n)) = ArticlesIn(ReadUpTo(n - 1)) \o ArticlesIn(ReadOf[found.blocks[n]])
           /\ GoesOn(n) <=> GoesOn(n - 1) /\ found.blocks[n] \notin StopTexts
  <1> DEFINE b == found.blocks
             c == SubSeq(b, 1, n - 1)
             t == b[n]
  <1>1. b \in Seq(Texts) /\ t \in Texts /\ n - 1 \in 0..Len(b) /\ n \in Nat
    OBVIOUS
  <1>2. c \in Seq(Texts)
    <2> HIDE DEF b
    <2>1. QED
      BY <1>1
  <1>3. SubSeq(b, 1, n) = Append(c, t)
    BY <1>1, Prefix
  <1> HIDE DEF b, c, t
  <1>4. /\ Mapped(SaidOf, Append(c, t)) = Mapped(SaidOf, c) \o SaidOf[t]
        /\ Mapped(ReadOf, Append(c, t)) = Mapped(ReadOf, c) \o ReadOf[t]
    BY <1>1, <1>2, SaidOfType, ReadOfType, MappedAppend
  <1>5. Mapped(ReadOf, c) \in Seq(Values)
    BY <1>2, ReadOfType, MappedFacts
  <1>6. ReadOf[t] \in Seq(Values)
    BY <1>1, ReadOfType, Zenon DEF Maps
  <1>7. ArticlesIn(Mapped(ReadOf, c) \o ReadOf[t]) = ArticlesIn(Mapped(ReadOf, c)) \o ArticlesIn(ReadOf[t])
    <2> DEFINE x == Mapped(ReadOf, c)
               y == ReadOf[t]
    <2>1. x \in Seq(Values) /\ y \in Seq(Values)
      BY <1>5, <1>6
    <2> HIDE DEF x, y
    <2>2. /\ ArticlesIn(x) = Mapped(ArticleOf, x)
          /\ ArticlesIn(y) = Mapped(ArticleOf, y)
          /\ ArticlesIn(x \o y) = Mapped(ArticleOf, x \o y)
      <3>1. x \o y \in Seq(Values)
        BY <2>1
      <3>2. QED
        BY <2>1, <3>1, ArticlesInIsMapped
    <2>3. Mapped(ArticleOf, x \o y) = Mapped(ArticleOf, x) \o Mapped(ArticleOf, y)
      BY <2>1, ArticleOfType, MappedConcat
    <2>4. QED
      BY <2>2, <2>3, Zenon DEF x, y
  <1>8. /\ SaidUpTo(n) = Mapped(SaidOf, Append(c, t)) /\ SaidUpTo(n - 1) = Mapped(SaidOf, c)
        /\ ReadUpTo(n) = Mapped(ReadOf, Append(c, t)) /\ ReadUpTo(n - 1) = Mapped(ReadOf, c)
    BY <1>3, Zenon DEF SaidUpTo, ReadUpTo, b, c
  <1>9. GoesOn(n) <=> GoesOn(n - 1) /\ t \notin StopTexts
    <2>1. \A j : j \in 1..n <=> j \in 1..(n - 1) \/ j = n
      BY <1>1
    <2>2. QED
      BY <2>1, Zenon DEF GoesOn, t, b
  <1>10. QED
    BY <1>4, <1>5, <1>6, <1>7, <1>8, <1>9, Zenon DEF t, b

LEMMA UpToNone ==
    ASSUME found.blocks \in Seq(Texts)
    PROVE  SaidUpTo(0) = <<>> /\ ReadUpTo(0) = <<>> /\ GoesOn(0)
  <1>1. SubSeq(found.blocks, 1, 0) = <<>>
    OBVIOUS
  <1>2. Mapped(SaidOf, <<>>) = <<>> /\ Mapped(ReadOf, <<>>) = <<>>
    BY MappedNone
  <1>3. GoesOn(0)
    BY DEF GoesOn
  <1>4. QED
    BY <1>1, <1>2, <1>3, Zenon DEF SaidUpTo, ReadUpTo

LEMMA UpToAll ==
    ASSUME found.blocks \in Seq(Texts)
    PROVE  /\ SaidUpTo(Len(found.blocks)) = Mapped(SaidOf, found.blocks)
           /\ GoesOn(Len(found.blocks)) <=> None(found.blocks, StopTexts)
  <1>1. SubSeq(found.blocks, 1, Len(found.blocks)) = found.blocks
    OBVIOUS
  <1>2. QED
    BY <1>1, Zenon DEF SaidUpTo, GoesOn, None

\* The first block that ends the parsing decides how it ends.
LEMMA StopsAt ==
    ASSUME NEW n \in 1..Len(found.blocks), GoesOn(n - 1), found.blocks[n] \in StopTexts,
           Len(found.blocks) \in Nat
    PROVE  /\ ~None(found.blocks, StopTexts)
           /\ FirstIn(found.blocks, StopTexts, LargeTexts) <=> found.blocks[n] \in LargeTexts
  <1>1. ~None(found.blocks, StopTexts)
    BY Zenon DEF None
  <1>2. ASSUME NEW j \in 1..Len(found.blocks), found.blocks[j] \in LargeTexts,
               \A i \in 1..(j - 1) : found.blocks[i] \notin StopTexts
        PROVE  j = n
    <2>1. found.blocks[j] \in StopTexts
      BY <1>2 DEF LargeTexts
    <2>2. j \notin 1..(n - 1)
      BY <2>1 DEF GoesOn
    <2>3. n \notin 1..(j - 1)
      BY <1>2
    <2>4. QED
      BY <2>2, <2>3
  <1>3. QED
    BY <1>1, <1>2, Zenon DEF FirstIn, GoesOn

\* The values of a block.
LEMMA BlockOf ==
    ASSUME NEW t \in Texts
    PROVE  /\ t \in Values => /\ ReadOf[t] = Preorder[t]
                              /\ SaidOf[t] = ArticlesIn(Preorder[t])
                              /\ t \in StopTexts <=> TooLarge(t)
                              /\ t \in LargeTexts <=> TooLarge(t)
           /\ t \in Unreadable => /\ ReadOf[t] = <<>> /\ SaidOf[t] = <<>>
                                  /\ t \in StopTexts <=> t = "overlong"
                                  /\ t \notin LargeTexts
  <1>1. t \in Values => t \notin Unreadable /\ t # "overlong"
    BY TextAssumption DEF Unreadable
  <1>2. QED
    BY <1>1, Zenon DEF ReadOf, SaidOf, StopTexts, LargeTexts, Unreadable

-------------------------------------------------------------------------------
(* The steps of the walk. *)

\* The blocks do not change after the reading.
LEMMA SameUpTo ==
    ASSUME found' = found
    PROVE  /\ \A n : SaidUpTo(n)' = SaidUpTo(n) /\ ReadUpTo(n)' = ReadUpTo(n)
           /\ \A n : GoesOn(n)' <=> GoesOn(n)
           /\ None(found.blocks, StopTexts)' <=> None(found.blocks, StopTexts)
           /\ FirstIn(found.blocks, StopTexts, LargeTexts)' <=> FirstIn(found.blocks, StopTexts, LargeTexts)
  BY DEF SaidUpTo, ReadUpTo, GoesOn, None, FirstIn

LEMMA NoArticles == ArticlesIn(<<>>) = <<>>
  <1>1. [i \in 1..Len(<<>>) |-> IF <<>>[i] \in DOMAIN Article THEN << <<>>[i] >> ELSE <<>>] = <<>>
    OBVIOUS
  <1>2. QED
    BY <1>1, FlattenNone, Zenon DEF ArticlesIn

LEMMA CourseInit == Init => CourseInv
  BY DEF Init, CourseInv

LEMMA CourseRead ==
    ASSUME CourseInv, NEW e \in ElementsOf(family), Read(e)
    PROVE  CourseInv'
  BY DEF CourseInv, Read, walkVars

LEMMA CourseEndOfPage ==
    ASSUME PageInv, DocInv, CourseInv, EndOfPage
    PROVE  CourseInv'
  <1>0. /\ pc = "reading" /\ outcome = NoOutcome /\ next = 1 /\ candidates = <<>>
        /\ family' = family /\ found' = found /\ doc' = doc /\ next' = next /\ outcome' = outcome
    BY DEF EndOfPage, CourseInv
  <1>1. family \in Families /\ found.blocks \in Seq(Texts) /\ doc \in Seq(ElementsOf(family))
    BY DEF PageInv, ReadingOK, Founds
  <1>2. CASE family = "jsonld_article" /\ pc' = "decoding" /\ candidates' = candidates
    <2>1. next' - 1 = 0
      BY <1>0
    <2>2. SaidUpTo(0)' = <<>> /\ ReadUpTo(0)' = <<>> /\ GoesOn(0)'
      BY <1>0, <1>1, UpToNone, SameUpTo
    <2>3. ArticlesIn(<<>>) = <<>>
      BY NoArticles
    <2>4. DecodingInv'
      BY <1>0, <1>2, <2>1, <2>2, <2>3 DEF DecodingInv
    <2>5. QED
      BY <1>0, <1>2, <2>4 DEF CourseInv
  <1>3. CASE family = "microdata_article" /\ pc' = "choosing" /\ candidates' = found.items
    <2>1. StopElements(family) = {}
      BY <1>1, <1>3, BlockFacts, ElementOf DEF StopElements
    <2>2. None(doc, StopElements(family))
      BY <2>1 DEF None
    <2>3. None(found.blocks, StopTexts)
      BY <2>2 DEF DocInv, KeepsStops
    <2>4. candidates' = ArticlesSaid
      BY <1>3 DEF DocInv, KeepsArticles
    <2>5. ArticlesSaid' = ArticlesSaid
      BY <1>0 DEF ArticlesSaid, SaidBy
    <2>6. ChoosingInv'
      <3>1. None(found.blocks, StopTexts)'
        BY <1>0, <2>3, SameUpTo
      <3>2. QED
        BY <1>0, <1>3, <2>4, <2>5, <3>1 DEF ChoosingInv
    <2>7. QED
      BY <1>0, <1>3, <2>6 DEF CourseInv
  <1>4. CASE family = "generic_json_article" /\ pc' = "converting"
    BY <1>0, <1>4 DEF CourseInv
  <1>5. QED
    BY <1>2, <1>3, <1>4 DEF EndOfPage

LEMMA CourseDecodeBlock ==
    ASSUME PageInv, CourseInv, DecodeBlock
    PROVE  CourseInv'
  <1> DEFINE t == found.blocks[next]
  <1>0. /\ pc = "decoding" /\ outcome = NoOutcome /\ DecodingInv
        /\ next <= Len(found.blocks) /\ family' = family /\ found' = found /\ doc' = doc
        /\ candidates' = candidates
    BY DEF DecodeBlock, CourseInv
  <1>1. /\ found.blocks \in Seq(Texts) /\ next \in 1..Len(found.blocks) /\ Len(found.blocks) \in Nat
        /\ candidates \in Seq(DOMAIN Article)
    <2>1. found.blocks \in Seq(Texts) /\ next \in 1..(Len(found.blocks) + 1)
      BY DEF PageInv, ReadingOK, WalkOK, Founds
    <2>2. candidates \in Seq(DOMAIN Article)
      BY DEF PageInv, WalkOK
    <2> HIDE DEF t
    <2>3. QED
      BY <1>0, <2>1, <2>2
  <1>2. t \in Texts
    BY <1>1
  <1>3. /\ SaidUpTo(next) = SaidUpTo(next - 1) \o SaidOf[t]
        /\ ArticlesIn(ReadUpTo(next)) = ArticlesIn(ReadUpTo(next - 1)) \o ArticlesIn(ReadOf[t])
        /\ GoesOn(next) <=> GoesOn(next - 1) /\ t \notin StopTexts
    BY <1>1, UpToNext
  <1>4. /\ GoesOn(next - 1)
        /\ candidates = SaidUpTo(next - 1) /\ candidates = ArticlesIn(ReadUpTo(next - 1))
        /\ family = "jsonld_article"
    BY <1>0 DEF DecodingInv
  <1>5. candidates \o <<>> = candidates
    <2> DEFINE D == DOMAIN Article
    <2>1. candidates \in Seq(D)
      BY <1>1
    <2> HIDE DEF D
    <2>2. QED
      BY <2>1
  <1> HIDE DEF t
  <1>6. CASE t \in {"broken", "too_deep"} /\ next' = next + 1 /\ pc' = pc /\ outcome' = outcome
    <2>1. ReadOf[t] = <<>> /\ SaidOf[t] = <<>> /\ t \notin StopTexts
      BY <1>2, <1>6, BlockOf DEF Unreadable
    <2>2. ArticlesIn(<<>>) = <<>>
      BY NoArticles
    <2>3. next' - 1 = next
      BY <1>1, <1>6
    <2>4. GoesOn(next) /\ candidates = SaidUpTo(next) /\ candidates = ArticlesIn(ReadUpTo(next))
      BY <1>3, <1>4, <1>5, <2>1, <2>2, Zenon
    <2>5. DecodingInv'
      <3>1. /\ SaidUpTo(next - 1)' = SaidUpTo(next)
            /\ ReadUpTo(next - 1)' = ReadUpTo(next)
            /\ GoesOn(next - 1)' <=> GoesOn(next)
        BY <1>0, <2>3 DEF SaidUpTo, ReadUpTo, GoesOn
      <3>2. QED
        BY <1>0, <1>4, <2>4, <3>1 DEF DecodingInv
    <2>6. QED
      BY <1>0, <1>6, <2>5 DEF CourseInv
  <1>7. CASE t = "overlong" /\ pc' = "done" /\ outcome' = Refused("execution")
    <2>1. t \in StopTexts /\ t \notin LargeTexts
      BY <1>2, <1>7, BlockOf DEF Unreadable
    <2>2. /\ ~None(found.blocks, StopTexts)
          /\ ~FirstIn(found.blocks, StopTexts, LargeTexts)
      BY <1>1, <1>4, <2>1, StopsAt DEF t
    <2>3. /\ ~None(found.blocks, StopTexts)'
          /\ ~FirstIn(found.blocks, StopTexts, LargeTexts)'
      BY <1>0, <2>2, SameUpTo
    <2>4. DoneInv'
      BY <1>7, <2>3 DEF DoneInv
    <2>5. QED
      BY <1>7, <2>4 DEF CourseInv
  <1>8. CASE t \in Values /\ StartWalk(t) /\ pc' = "walking" /\ next' = next /\ outcome' = outcome
    <2> DEFINE e == [value |-> t, depth |-> 0]
               X == ArticlesIn(Preorder[t])
    <2>1. stack' = <<e>> /\ visited' = 0
      BY <1>8 DEF StartWalk
    <2>2. e \in Entries /\ e.value = t /\ e.depth = 0
      BY <1>8, LimitAssumption DEF Entries
    <2>3. ReadOf[t] = Preorder[t] /\ SaidOf[t] = X
      BY <1>2, <1>8, BlockOf
    <2> HIDE DEF e, X
    <2>4. RestOf(<<e>>) = Preorder[t]
      <3>1. <<e>> \in Seq(Entries) /\ Reverse(<<e>>) = <<e>>
        BY <2>2 DEF Reverse
      <3>2. RestOf(<<e>>) = Mapped(ValuesOf, <<e>>)
        BY <3>1, RestIsMapped
      <3>3. Mapped(ValuesOf, <<e>>) = ValuesOf[e]
        BY <2>2, ValuesOfType, MappedOne
      <3>4. ValuesOf[e] = Preorder[e.value]
        BY <2>2, Zenon DEF ValuesOf
      <3>5. QED
        BY <2>2, <3>2, <3>3, <3>4, Zenon
    <2>5. Height[t] > MaxJsonDepth <=> Deep(<<e>>)
      <3>1. Deep(<<e>>) <=> DeepEntry(e)
        BY DEF Deep
      <3>2. Height[t] \in Nat
        BY <1>8, HeightFacts
      <3>3. DeepEntry(e) <=> Height[t] > MaxJsonDepth
        BY <2>2, <3>2 DEF DeepEntry
      <3>4. QED
        BY <3>1, <3>3
    <2>6. 0 + Len(Preorder[t]) = Len(Preorder[t])
      <3>1. Preorder[t] \in Seq(Values)
        BY <1>8, PreorderFacts
      <3>2. QED
        BY <3>1
    <2>7. /\ candidates \o ArticlesIn(Preorder[t]) = SaidUpTo(next)
          /\ candidates \o ArticlesIn(Preorder[t]) = ArticlesIn(ReadUpTo(next))
      BY <1>3, <1>4, <2>3, Zenon DEF X
    <2>8. WalkingInv'
      <3>1. SaidUpTo(next)' = SaidUpTo(next) /\ ReadUpTo(next)' = ReadUpTo(next)
            /\ (GoesOn(next - 1)' <=> GoesOn(next - 1))
        BY <1>0, <1>8 DEF SaidUpTo, ReadUpTo, GoesOn
      <3>2. found'.blocks[next'] = t
        BY <1>0, <1>8 DEF t
      <3>3. QED
        BY <1>0, <1>4, <1>8, <2>1, <2>4, <2>5, <2>6, <2>7, <3>1, <3>2, Zenon DEF WalkingInv
    <2>9. QED
      BY <1>0, <1>8, <2>8 DEF CourseInv
  <1>9. QED
    BY <1>6, <1>7, <1>8 DEF DecodeBlock, End, t

LEMMA CourseBlocksDone ==
    ASSUME PageInv, DocInv, CourseInv, BlocksDone
    PROVE  CourseInv'
  <1>0. /\ pc = "decoding" /\ outcome = NoOutcome /\ DecodingInv /\ next > Len(found.blocks)
        /\ pc' = "choosing" /\ family' = family /\ found' = found /\ doc' = doc
        /\ candidates' = candidates /\ outcome' = outcome
    BY DEF BlocksDone, CourseInv, walkVars
  <1>1. found.blocks \in Seq(Texts) /\ next - 1 = Len(found.blocks)
    <2>1. found.blocks \in Seq(Texts) /\ next \in 1..(Len(found.blocks) + 1)
      BY DEF PageInv, ReadingOK, WalkOK, Founds
    <2>2. QED
      BY <1>0, <2>1
  <1>2. None(found.blocks, StopTexts) /\ candidates = Mapped(SaidOf, found.blocks)
    BY <1>0, <1>1, UpToAll DEF DecodingInv
  <1>3. candidates = ArticlesSaid /\ family = "jsonld_article"
    BY <1>0, <1>2 DEF DocInv, KeepsArticles, DecodingInv
  <1>4. ArticlesSaid' = ArticlesSaid
    BY <1>0 DEF ArticlesSaid, SaidBy
  <1>5. None(found.blocks, StopTexts)'
    BY <1>0, <1>2, SameUpTo
  <1>6. ChoosingInv'
    BY <1>0, <1>3, <1>4, <1>5 DEF ChoosingInv
  <1>7. QED
    BY <1>0, <1>6 DEF CourseInv

LEMMA CourseVisit ==
    ASSUME PageInv, CourseInv, Visit
    PROVE  CourseInv'
  <1> DEFINE t == found.blocks[next]
             top == Last(stack)
             after == Front(stack) \o Pushed(top)
             R == RestOf(after)
  <1>0. /\ pc = "walking" /\ outcome = NoOutcome /\ WalkingInv /\ stack # <<>>
        /\ visited' = visited + 1 /\ family' = family /\ doc' = doc /\ found' = found /\ next' = next
    BY DEF Visit, CourseInv
  <1>1. /\ found.blocks \in Seq(Texts) /\ next \in 1..Len(found.blocks) /\ Len(found.blocks) \in Nat
        /\ stack \in Seq(Entries) /\ visited \in Nat /\ candidates \in Seq(DOMAIN Article)
    <2>1. /\ found.blocks \in Seq(Texts) /\ next \in 1..(Len(found.blocks) + 1)
          /\ next <= Len(found.blocks)
      BY <1>0 DEF PageInv, ReadingOK, WalkOK, Founds
    <2>2. stack \in Seq(Entries) /\ visited \in Nat /\ candidates \in Seq(DOMAIN Article)
      BY DEF PageInv, WalkOK
    <2> HIDE DEF t, top, after, R
    <2>3. QED
      BY <2>1, <2>2
  <1>2. /\ t \in Texts /\ t \in Values
        /\ Height[t] \in Nat /\ Preorder[t] \in Seq(Values)
        /\ visited + Len(RestOf(stack)) = Len(Preorder[t])
        /\ Height[t] > MaxJsonDepth <=> Deep(stack)
        /\ GoesOn(next - 1) /\ family = "jsonld_article"
        /\ candidates \o ArticlesIn(RestOf(stack)) = SaidUpTo(next)
        /\ candidates \o ArticlesIn(RestOf(stack)) = ArticlesIn(ReadUpTo(next))
    <2>1. t \in Values
      BY <1>0 DEF WalkingInv
    <2> HIDE DEF t
    <2>2. Height[t] \in Nat /\ Preorder[t] \in Seq(Values) /\ t \in Texts
      BY <2>1, HeightFacts, PreorderFacts DEF Texts
    <2>3. QED
      BY <1>0, <2>1, <2>2, Zenon DEF WalkingInv, t
  <1>3. top \in Entries /\ top.depth \in Nat /\ top.value \in Values
    <2>1. top \in Entries
      BY <1>0, <1>1 DEF Last
    <2>2. QED
      BY <2>1, LimitAssumption DEF Entries
  <1>4. RestOf(stack) \in Seq(Values)
    BY <1>1, RestIsMapped
  <1>5. Len(RestOf(stack)) >= 1
    <2>1. stack = Append(Front(stack), top) /\ Front(stack) \in Seq(Entries)
      <3>1. Len(stack) \in 1..Len(stack) /\ SubSeq(stack, 1, Len(stack)) = stack
        BY <1>0, <1>1
      <3>2. SubSeq(stack, 1, Len(stack)) = Append(SubSeq(stack, 1, Len(stack) - 1), stack[Len(stack)])
        BY <1>1, <3>1, Prefix
      <3>3. Front(stack) \in Seq(Entries)
        BY <1>1, <3>1 DEF Front
      <3>4. QED
        BY <3>1, <3>2, <3>3 DEF Front, Last
    <2> DEFINE rf == Reverse(Front(stack))
    <2>2. rf \in Seq(Entries)
      BY <2>1, ReverseFacts
    <2>3. Reverse(stack) = <<top>> \o rf
      <3> DEFINE f == Front(stack)
      <3> HIDE DEF f, top
      <3>1. stack = Append(f, top) /\ f \in Seq(Entries)
        BY <2>1 DEF f
      <3>2. Reverse(Append(f, top)) = <<top>> \o Reverse(f)
        BY <1>3, <3>1 DEF Reverse
      <3>3. QED
        BY <3>1, <3>2 DEF f
    <2> DEFINE one == <<top>>
    <2>4. one \in Seq(Entries)
      BY <1>3
    <2> HIDE DEF rf, one
    <2>5. Mapped(ValuesOf, one \o rf) = Mapped(ValuesOf, one) \o Mapped(ValuesOf, rf)
      BY <2>2, <2>4, ValuesOfType, MappedConcat
    <2>6. Mapped(ValuesOf, one) = Preorder[top.value]
      <3>1. Mapped(ValuesOf, <<top>>) = ValuesOf[top]
        BY <1>3, ValuesOfType, MappedOne
      <3>2. ValuesOf[top] = Preorder[top.value]
        BY <1>3, Zenon DEF ValuesOf
      <3>3. QED
        BY <3>1, <3>2 DEF one
    <2>7. RestOf(stack) = Preorder[top.value] \o Mapped(ValuesOf, rf)
      BY <1>1, <2>3, <2>5, <2>6, RestIsMapped DEF one
    <2>8. /\ Preorder[top.value] \in Seq(Values) /\ Mapped(ValuesOf, rf) \in Seq(Values)
          /\ FlattenSeq(Below(Preorder, top.value)) \in Seq(Values)
          /\ Preorder[top.value] = <<top.value>> \o FlattenSeq(Below(Preorder, top.value))
      <3>1. Mapped(ValuesOf, rf) \in Seq(Values)
        BY <2>2, ValuesOfType, MappedFacts
      <3>2. FlattenSeq(Below(Preorder, top.value)) \in Seq(Values)
        BY <1>3, PreorderFacts, FlattenType
      <3>3. QED
        BY <1>3, <3>1, <3>2, PreorderFacts
    <2>9. QED
      BY <1>3, <2>7, <2>8
  <1>6. CASE Exceeds(visited', top.depth) /\ pc' = "done" /\ outcome' = Refused("limits")
    <2>1. TooLarge(t)
      <3>1. CASE visited' > MaxJsonNodes
        <4>1. Len(Preorder[t]) > MaxJsonNodes
          BY <1>0, <1>1, <1>2, <1>4, <1>5, <3>1, LimitAssumption
        <4>2. QED
          BY <4>1 DEF TooLarge
      <3>2. CASE top.depth > MaxJsonDepth
        <4>1. Deep(stack)
          BY <1>0, <1>1, <3>2, DeepStep
        <4>2. QED
          BY <1>2, <4>1 DEF TooLarge
      <3>3. QED
        BY <1>6, <3>1, <3>2 DEF Exceeds
    <2>2. t \in StopTexts /\ t \in LargeTexts
      BY <1>2, <2>1, BlockOf
    <2>3. FirstIn(found.blocks, StopTexts, LargeTexts)
      BY <1>1, <1>2, <2>2, StopsAt
    <2>4. FirstIn(found.blocks, StopTexts, LargeTexts)'
      BY <1>0, <2>3, SameUpTo
    <2>5. DoneInv'
      BY <1>6, <2>4 DEF DoneInv
    <2>6. QED
      BY <1>6, <2>5 DEF CourseInv
  <1>7. CASE /\ ~Exceeds(visited', top.depth)
             /\ stack' = after
             /\ candidates' = IF top.value \in DOMAIN Article THEN Append(candidates, top.value) ELSE candidates
             /\ pc' = pc /\ outcome' = outcome
    <2>1. top.depth <= MaxJsonDepth
      BY <1>3, <1>7, LimitAssumption DEF Exceeds
    <2>2. RestOf(stack) = <<top.value>> \o R
      BY <1>0, <1>1, <2>1, RestStep
    <2>3. Deep(stack) <=> Deep(after)
      BY <1>0, <1>1, <2>1, DeepStep
    <2>4. after \in Seq(Entries)
      <3>1. Pushed(top) \in Seq(Entries)
        BY <1>3, <2>1, PushedFacts
      <3>2. Front(stack) \in Seq(Entries)
        BY <1>0, <1>1 DEF Front
      <3> HIDE DEF top
      <3>3. QED
        BY <3>1, <3>2
    <2>5. R \in Seq(Values)
      BY <2>4, RestIsMapped
    <2> HIDE DEF R, after, t, top
    <2>6. visited' + Len(R) = visited + Len(RestOf(stack))
      <3>1. Len(RestOf(stack)) = 1 + Len(R)
        BY <1>3, <2>2, <2>5
      <3>2. Len(R) \in Nat
        BY <2>5
      <3>3. QED
        BY <1>0, <1>1, <3>1, <3>2
    <2>7. candidates' = candidates \o ArticleOf[top.value]
      <3> DEFINE D == DOMAIN Article
      <3>1. CASE top.value \in D
        <4>1. candidates' = Append(candidates, top.value) /\ ArticleOf[top.value] = <<top.value>>
          BY <1>3, <1>7, <3>1, Zenon DEF ArticleOf
        <4>2. candidates \in Seq(D)
          BY <1>1
        <4> HIDE DEF D
        <4>3. Append(candidates, top.value) = candidates \o <<top.value>>
          BY <3>1, <4>2
        <4>4. QED
          BY <4>1, <4>3
      <3>2. CASE top.value \notin D
        <4>1. candidates' = candidates /\ ArticleOf[top.value] = <<>>
          BY <1>3, <1>7, <3>2, Zenon DEF ArticleOf
        <4>2. candidates \in Seq(D)
          BY <1>1
        <4> HIDE DEF D
        <4>3. candidates \o <<>> = candidates
          BY <4>2
        <4>4. QED
          BY <4>1, <4>3
      <3>3. QED
        BY <3>1, <3>2
    <2>8. candidates' \o ArticlesIn(R) = candidates \o ArticlesIn(RestOf(stack))
      <3> DEFINE D == DOMAIN Article
                 x == ArticleOf[top.value]
                 y == ArticlesIn(R)
                 one == <<top.value>>
      <3>1. one \in Seq(Values)
        BY <1>3
      <3>2. x \in Seq(D)
        BY <1>3, ArticleOfType, Zenon DEF Maps
      <3>3. y \in Seq(D) /\ ArticlesIn(one) = x
        BY <1>3, <2>5, ArticlesInFacts
      <3>4. ArticlesIn(one \o R) = ArticlesIn(one) \o y
        <4> HIDE DEF one, x, D
        <4>1. one \o R \in Seq(Values)
          BY <2>5, <3>1
        <4>2. /\ ArticlesIn(one) = Mapped(ArticleOf, one)
              /\ ArticlesIn(R) = Mapped(ArticleOf, R)
              /\ ArticlesIn(one \o R) = Mapped(ArticleOf, one \o R)
          BY <2>5, <3>1, <4>1, ArticlesInIsMapped
        <4>3. Mapped(ArticleOf, one \o R) = Mapped(ArticleOf, one) \o Mapped(ArticleOf, R)
          BY <2>5, <3>1, ArticleOfType, MappedConcat
        <4>4. QED
          BY <4>2, <4>3, Zenon
      <3>5. candidates \in Seq(D)
        BY <1>1
      <3> HIDE DEF D, x, y
      <3>6. (candidates \o x) \o y = candidates \o (x \o y)
        BY <3>2, <3>3, <3>5, Joins
      <3>7. QED
        BY <2>2, <2>7, <3>3, <3>4, <3>6, Zenon DEF x, y
    <2>9. WalkingInv'
      <3>1. SaidUpTo(next)' = SaidUpTo(next) /\ ReadUpTo(next)' = ReadUpTo(next)
            /\ (GoesOn(next - 1)' <=> GoesOn(next - 1))
        BY <1>0 DEF SaidUpTo, ReadUpTo, GoesOn
      <3>2. found'.blocks[next'] = t
        BY <1>0 DEF t
      <3>3. RestOf(stack') = R
        BY <1>7 DEF R
      <3>4. QED
        BY <1>0, <1>2, <1>7, <2>3, <2>6, <2>8, <3>1, <3>2, <3>3, Zenon DEF WalkingInv
    <2>10. QED
      BY <1>0, <1>7, <2>9 DEF CourseInv
  <1>8. QED
    BY <1>0, <1>6, <1>7 DEF Visit, End

LEMMA CourseWalkDone ==
    ASSUME PageInv, CourseInv, WalkDone
    PROVE  CourseInv'
  <1> DEFINE t == found.blocks[next]
  <1>0. /\ pc = "walking" /\ outcome = NoOutcome /\ WalkingInv /\ stack = <<>>
        /\ next' = next + 1 /\ pc' = "decoding" /\ outcome' = outcome
        /\ family' = family /\ doc' = doc /\ found' = found /\ candidates' = candidates
    BY DEF WalkDone, CourseInv
  <1>1. /\ found.blocks \in Seq(Texts) /\ next \in 1..Len(found.blocks) /\ next \in Nat
        /\ visited \in Nat /\ visited <= MaxJsonNodes /\ candidates \in Seq(DOMAIN Article)
    <2>1. /\ found.blocks \in Seq(Texts) /\ next \in 1..(Len(found.blocks) + 1)
          /\ next <= Len(found.blocks)
      BY <1>0 DEF PageInv, ReadingOK, WalkOK, Founds
    <2>2. visited \in Nat /\ visited <= MaxJsonNodes /\ candidates \in Seq(DOMAIN Article)
      BY <1>0 DEF PageInv, WalkOK
    <2> HIDE DEF t
    <2>3. QED
      BY <2>1, <2>2
  <1>2. RestOf(stack) = <<>> /\ ArticlesIn(RestOf(stack)) = <<>> /\ ~Deep(stack)
    <2>1. [k \in 1..Len(stack) |-> Preorder[Reverse(stack)[k].value]] = <<>>
      BY <1>0
    <2>2. RestOf(stack) = <<>>
      BY <2>1, FlattenNone, Zenon DEF RestOf
    <2>3. ~Deep(stack)
      BY <1>0 DEF Deep
    <2>4. QED
      BY <2>2, <2>3, NoArticles
  <1>3. candidates \o <<>> = candidates
    <2> DEFINE D == DOMAIN Article
    <2>1. candidates \in Seq(D)
      BY <1>1
    <2> HIDE DEF D
    <2>2. QED
      BY <2>1
  <1>4. /\ t \in Values /\ GoesOn(next - 1) /\ family = "jsonld_article"
        /\ visited + Len(RestOf(stack)) = Len(Preorder[t])
        /\ Height[t] > MaxJsonDepth <=> Deep(stack)
        /\ candidates \o ArticlesIn(RestOf(stack)) = SaidUpTo(next)
        /\ candidates \o ArticlesIn(RestOf(stack)) = ArticlesIn(ReadUpTo(next))
    BY <1>0, Zenon DEF WalkingInv
  <1> HIDE DEF t
  <1>5. candidates = SaidUpTo(next) /\ candidates = ArticlesIn(ReadUpTo(next))
    BY <1>2, <1>3, <1>4, Zenon
  <1>6. t \notin StopTexts
    <2>1. Len(Preorder[t]) = visited
      BY <1>1, <1>2, <1>4
    <2>2. ~TooLarge(t)
      BY <1>1, <1>2, <1>4, <2>1, LimitAssumption DEF TooLarge
    <2>3. t \in Texts
      BY <1>4 DEF Texts
    <2>4. QED
      BY <1>4, <2>2, <2>3, BlockOf
  <1>7. GoesOn(next)
    BY <1>1, <1>4, <1>6, UpToNext DEF t
  <1>8. DecodingInv'
    <2>1. next' - 1 = next
      BY <1>0, <1>1
    <2>2. /\ SaidUpTo(next - 1)' = SaidUpTo(next)
          /\ ReadUpTo(next - 1)' = ReadUpTo(next)
          /\ GoesOn(next - 1)' <=> GoesOn(next)
      BY <1>0, <2>1 DEF SaidUpTo, ReadUpTo, GoesOn
    <2>3. QED
      BY <1>0, <1>4, <1>5, <1>7, <2>2 DEF DecodingInv
  <1>9. QED
    BY <1>0, <1>8 DEF CourseInv

LEMMA SettledStays ==
    ASSUME found' = found, family' = family, candidates' = candidates, Settled(outcome')
    PROVE  Settled(outcome)'
  <1>1. \A i : Identity(i)' = Identity(i)
    BY DEF Identity
  <1>2. PageIdentity' = PageIdentity
    BY DEF PageIdentity
  <1>3. Eligible' = Eligible
    BY DEF Eligible
  <1>4. \A i : IsSilent(i)' <=> IsSilent(i)
    BY DEF IsSilent, Identity
  <1>5. Matches' = Matches
    BY DEF Matches, Eligible, Identity, PageIdentity
  <1>6. Chosen' = Chosen
    <2>1. \A i : (PageIdentity = NoUrl \/ IsSilent(i))' <=> (PageIdentity = NoUrl \/ IsSilent(i))
      BY <1>2, <1>4
    <2>2. QED
      BY <1>2, <1>3, <1>5, <2>1 DEF Chosen
  <1>7. \A i : ItemFrom(i)' = ItemFrom(i)
    <2>1. \A a : /\ Headline(a)' = Headline(a) /\ Time(a)' = Time(a) /\ Image(a)' = Image(a)
                 /\ Description(a)' = Description(a) /\ Modified(a)' = Modified(a)
      BY DEF Headline, Time, Image, Description, Modified
    <2>a. \A a, w : Checked(a, w)' = Checked(a, w)
      BY <2>1 DEF Checked
    <2>2. \A a, i, w : ItemOf(a, i, w)' = ItemOf(a, i, w)
      BY <2>1, <2>a DEF ItemOf
    <2>3. QED
      BY <1>1, <1>2, <2>2 DEF ItemFrom
  <1>8. QED
    BY <1>2, <1>6, <1>7, Zenon DEF Settled

LEMMA CourseChoose ==
    ASSUME CourseInv, Choose
    PROVE  CourseInv'
  <1>0. /\ pc = "choosing" /\ ChoosingInv /\ pc' = "done"
        /\ family' = family /\ doc' = doc /\ found' = found /\ candidates' = candidates
    BY DEF Choose, CourseInv, End, walkVars
  <1>1. Settled(outcome')
    BY Zenon DEF Choose, End, Settled, ItemFrom
  <1>2. Settled(outcome)'
    BY <1>0, <1>1, SettledStays
  <1>3. ChoosingInv'
    BY <1>0 DEF ChoosingInv, None, ArticlesSaid, SaidBy
  <1>4. QED
    BY <1>0, <1>2, <1>3 DEF CourseInv, DoneInv

LEMMA CourseConvert ==
    ASSUME CourseInv, Convert
    PROVE  CourseInv'
  <1>1. pc = "converting" /\ family = "generic_json_article" /\ pc' = "done" /\ family' = family
    BY DEF Convert, CourseInv, End
  <1>2. QED
    BY <1>1 DEF CourseInv, DoneInv

LEMMA CourseStill ==
    ASSUME CourseInv, UNCHANGED vars
    PROVE  CourseInv'
  <1>0. /\ family' = family /\ doc' = doc /\ found' = found /\ pc' = pc /\ next' = next
        /\ stack' = stack /\ visited' = visited /\ candidates' = candidates /\ outcome' = outcome
    BY DEF vars, walkVars
  <1>1. DecodingInv => DecodingInv'
    BY <1>0 DEF DecodingInv, SaidUpTo, ReadUpTo, GoesOn
  <1>2. WalkingInv => WalkingInv'
    BY <1>0 DEF WalkingInv, SaidUpTo, ReadUpTo, GoesOn
  <1>3. ChoosingInv => ChoosingInv'
    BY <1>0 DEF ChoosingInv, None, ArticlesSaid, SaidBy
  <1>4. Settled(outcome) => Settled(outcome)'
    BY <1>0, SettledStays
  <1>5. DoneInv => DoneInv'
    BY <1>0, <1>3, <1>4 DEF DoneInv, None, FirstIn
  <1>6. QED
    BY <1>0, <1>1, <1>2, <1>3, <1>5 DEF CourseInv

LEMMA CourseStep ==
    ASSUME PageInv, DocInv, CourseInv, [Next]_vars
    PROVE  CourseInv'
  <1>1. CASE \E e \in ElementsOf(family) : Read(e)
    BY <1>1, CourseRead
  <1>2. CASE EndOfPage
    BY <1>2, CourseEndOfPage
  <1>3. CASE DecodeBlock
    BY <1>3, CourseDecodeBlock
  <1>4. CASE BlocksDone
    BY <1>4, CourseBlocksDone
  <1>5. CASE Visit
    BY <1>5, CourseVisit
  <1>6. CASE WalkDone
    BY <1>6, CourseWalkDone
  <1>7. CASE Choose
    BY <1>7, CourseChoose
  <1>8. CASE Convert
    BY <1>8, CourseConvert
  <1>9. CASE UNCHANGED vars
    BY <1>9, CourseStill
  <1>10. QED
    BY <1>1, <1>2, <1>3, <1>4, <1>5, <1>6, <1>7, <1>8, <1>9 DEF Next

LEMMA CourseInvariant == Spec => [](PageInv /\ DocInv /\ CourseInv)
  <1>1. Init => PageInv /\ DocInv /\ CourseInv
    BY InitInv, DocInit, CourseInit
  <1>2. PageInv /\ DocInv /\ CourseInv /\ [Next]_vars => (PageInv /\ DocInv /\ CourseInv)'
    BY StepInv, DocStep, CourseStep
  <1>3. QED
    BY <1>1, <1>2, PTL DEF Spec

(***************************************************************************)
(* For documents of any length and blocks of any shape and size: at every  *)
(* turn of the loop of _walk_json, what it has visited and the trees on    *)
(* its stack are the block in the order of the text, so it finds every     *)
(* article of the blocks, each as often as it is there and in order, and   *)
(* counts the values of this block only.                                   *)
(***************************************************************************)
THEOREM TheWalkIsInTextOrder == Spec => []WalkIsPreorder
  <1>1. PageInv /\ CourseInv => WalkIsPreorder
    <2> SUFFICES ASSUME PageInv, CourseInv, pc = "walking"
                 PROVE  WalkIsPreorder
      BY DEF WalkIsPreorder
    <2> DEFINE rest == FlattenSeq([k \in 1..Len(stack) |-> Preorder[Reverse(stack)[k].value]])
               map == [j \in 1..next |-> IF found.blocks[j] \in Values THEN Preorder[found.blocks[j]] ELSE <<>>]
               b == SubSeq(found.blocks, 1, next)
    <2>1. found.blocks \in Seq(Texts) /\ next \in 1..Len(found.blocks)
      <3>1. /\ found.blocks \in Seq(Texts) /\ next \in 1..(Len(found.blocks) + 1)
            /\ next <= Len(found.blocks)
        BY DEF PageInv, ReadingOK, WalkOK, Founds
      <3> HIDE DEF rest, map, b
      <3>2. QED
        BY <3>1
    <2>2. rest = RestOf(stack)
      BY Zenon DEF RestOf
    <2>3. FlattenSeq(map) = ReadUpTo(next)
      <3>1. Len(b) = next /\ \A j \in 1..next : b[j] = found.blocks[j] /\ b[j] \in Texts
        BY <2>1
      <3> HIDE DEF b
      <3>2. map = MapOf(ReadOf, b)
        BY <3>1, Zenon DEF MapOf, ReadOf
      <3>3. QED
        BY <3>2, Zenon DEF ReadUpTo, Mapped, b
    <2>4. WalkingInv
      BY DEF CourseInv
    <2> HIDE DEF rest, map
    <2>5. /\ candidates \o ArticlesIn(rest) = ArticlesIn(FlattenSeq(map))
          /\ visited + Len(rest) = Len(Preorder[found.blocks[next]])
      BY <2>2, <2>3, <2>4, Zenon DEF WalkingInv
    <2>6. QED
      BY <2>5, Zenon DEF WalkIsPreorder, rest, map
  <1>2. QED
    BY <1>1, CourseInvariant, PTL

-------------------------------------------------------------------------------
(* How the parsing of a page ends. *)

UrlOf(i) == IF PageIdentity = NoUrl THEN Identity(i) ELSE PageIdentity

\* What parser and ArticleItem ask of an article besides an approved URL.
Passes(a, u) ==
    /\ u \notin Padded /\ Headline(a) = "good" /\ Time(a) = "good"
    /\ {Image(a), Description(a), a.authors, Modified(a), a.section} \cap Wrong = {}

LEMMA CheckedFacts ==
    ASSUME NEW a, NEW u
    PROVE  (\A k \in 1..Len(Checked(a, u)) : Checked(a, u)[k] \notin Wrong) <=>
              /\ u \notin Padded /\ Headline(a) \notin Wrong /\ Time(a) \notin Wrong
              /\ {Image(a), Description(a), a.authors, Modified(a), a.section} \cap Wrong = {}
  <1> DEFINE first == IF u \in Padded THEN "refused" ELSE "good"
             c == Checked(a, u)
  <1>1. first \in Wrong <=> u \in Padded
    BY DEF Wrong
  <1>2. c = <<first, Image(a), Headline(a), Time(a), Description(a), a.authors, Modified(a), a.section>>
    BY DEF Checked
  <1> HIDE DEF first, c
  <1>3. /\ Len(c) = 8
        /\ c[1] = first /\ c[2] = Image(a) /\ c[3] = Headline(a) /\ c[4] = Time(a)
        /\ c[5] = Description(a) /\ c[6] = a.authors /\ c[7] = Modified(a) /\ c[8] = a.section
    BY <1>2
  <1>4. \A k : k \in 1..8 <=> k \in {1, 2, 3, 4, 5, 6, 7, 8}
    OBVIOUS
  <1>5. (\A k \in 1..Len(c) : c[k] \notin Wrong) <=>
           /\ c[1] \notin Wrong /\ c[2] \notin Wrong /\ c[3] \notin Wrong /\ c[4] \notin Wrong
           /\ c[5] \notin Wrong /\ c[6] \notin Wrong /\ c[7] \notin Wrong /\ c[8] \notin Wrong
    BY <1>3, <1>4
  <1>6. QED
    BY <1>1, <1>3, <1>5 DEF c

\* What becomes of a candidate.
LEMMA ItemFromFacts ==
    ASSUME found \in Founds, NEW i, candidates[i] \in DOMAIN Article
    PROVE  /\ \/ ItemFrom(i).result \in {"boundary", "no headline", "no time", "invalid", "execution"}
              \/ UrlOf(i) \in Approved /\ ItemFrom(i) = [result |-> "item", of |-> i, url |-> UrlOf(i)]
           /\ UrlOf(i) \in Approved =>
                 (ItemFrom(i) = [result |-> "item", of |-> i, url |-> UrlOf(i)]
                  <=> Passes(Article[candidates[i]], UrlOf(i)))
  <1> DEFINE a == Article[candidates[i]]
             u == UrlOf(i)
             o == ItemOf(a, i, u)
             item == [result |-> "item", of |-> i, url |-> u]
             h == Headline(a)
             t == Time(a)
  <1>0. a \in Articles
    BY ValueAssumption
  <1>1. h \in {"good", "none"} \cup Wrong
    <2> HIDE DEF a
    <2>1. a.headline \in {"good", "none", "refused"}
      BY <1>0 DEF Articles, Given
    <2>2. found.meta["og_title"] \in {"none", "good", "bad", "refused", "out_of_range"}
      BY DEF Founds, Metas, Metadata
    <2>3. QED
      BY <2>1, <2>2 DEF Headline, Else, Wrong
  <1>2. t \in {"good", "none"} \cup Wrong
    <2> HIDE DEF a
    <2>1. a.time \in {"good", "none", "out_of_range"}
      BY <1>0 DEF Articles, GivenTime
    <2>2. found.meta["published"] \in {"none", "good", "bad", "refused", "out_of_range"}
      BY DEF Founds, Metas, Metadata, Times
    <2>3. QED
      BY <2>1, <2>2 DEF Time, Else, Wrong
  <1>3. ItemFrom(i) = o
    BY Zenon DEF ItemFrom, UrlOf
  <1>4. /\ u \notin Approved => o = Refused("boundary")
        /\ u \in Approved /\ h = "none" => o = Refused("no headline")
        /\ u \in Approved /\ h # "none" /\ t = "none" => o = Refused("no time")
        /\ u \in Approved /\ h # "none" /\ t # "none" => o = ArticleItem(Checked(a, u), i, u)
    <2> HIDE DEF a, u
    <2>1. QED
      BY DEF ItemOf
  <1>5. Passes(a, u) <=> /\ h = "good" /\ t = "good"
                         /\ \A k \in 1..Len(Checked(a, u)) : Checked(a, u)[k] \notin Wrong
    <2>1. "good" \notin Wrong
      BY DEF Wrong
    <2> HIDE DEF a, u
    <2>2. QED
      BY <2>1, CheckedFacts, Zenon DEF Passes
  <1>6. /\ \A k \in 1..Len(Checked(a, u)) : Checked(a, u)[k] \notin Wrong
        => h \notin Wrong /\ t \notin Wrong
    <2> HIDE DEF a, u
    <2>1. QED
      BY CheckedFacts, Zenon
  <1>7. \A why : Refused(why).result = why
    BY DEF Refused
  <1>8. item.result = "item"
    OBVIOUS
  <1> HIDE DEF a, u, o, item, h, t
  <1>9. /\ \/ ArticleItem(Checked(a, u), i, u) = item
           \/ ArticleItem(Checked(a, u), i, u) = Refused("invalid")
           \/ ArticleItem(Checked(a, u), i, u) = Refused("execution")
        /\ ArticleItem(Checked(a, u), i, u) = item
              <=> \A k \in 1..Len(Checked(a, u)) : Checked(a, u)[k] \notin Wrong
    BY ArticleItemFacts, Zenon DEF item
  <1>10. \/ o.result \in {"boundary", "no headline", "no time", "invalid", "execution"}
         \/ u \in Approved /\ o = item
    <2>1. \/ o \in {Refused("boundary"), Refused("no headline"), Refused("no time"),
                    Refused("invalid"), Refused("execution")}
          \/ u \in Approved /\ o = item
      BY <1>4, <1>9
    <2>2. QED
      BY <1>7, <2>1
  <1>11. ASSUME u \in Approved PROVE o = item <=> Passes(a, u)
    <2>1. CASE h = "none" \/ t = "none"
      <3>1. o.result \in {"no headline", "no time"}
        BY <1>4, <1>7, <1>11, <2>1
      <3>2. o # item
        BY <1>8, <3>1
      <3>3. QED
        BY <1>5, <2>1, <3>2
    <2>2. CASE h # "none" /\ t # "none"
      BY <1>1, <1>2, <1>4, <1>5, <1>6, <1>9, <1>11, <2>2
    <2>3. QED
      BY <2>1, <2>2
  <1>12. QED
    BY <1>3, <1>10, <1>11, Zenon DEF a, u, item

\* Which candidate can be chosen.
LEMMA ChosenFacts ==
    ASSUME candidates \in Seq(DOMAIN Article), NEW i \in Chosen
    PROVE  i \in 1..Len(candidates) /\ i \in Nat /\ candidates[i] \in DOMAIN Article
  <1>1. Eligible \subseteq 1..Len(candidates)
    BY DEF Eligible
  <1>2. Matches \subseteq Eligible
    BY DEF Matches
  <1>3. Chosen \subseteq 1..Len(candidates)
    BY <1>1, <1>2, Zenon DEF Chosen
  <1>4. i \in 1..Len(candidates)
    BY <1>3
  <1> DEFINE D == DOMAIN Article
  <1>5. candidates \in Seq(D)
    OBVIOUS
  <1> HIDE DEF D
  <1>6. candidates[i] \in D /\ i \in Nat
    BY <1>4, <1>5
  <1>7. QED
    BY <1>4, <1>6 DEF D

\* What parse_document makes of the candidates is no refusal for the size of a block.
LEMMA SettledFacts ==
    ASSUME found \in Founds, candidates \in Seq(DOMAIN Article), Settled(outcome)
    PROVE  /\ outcome.result # "limits"
           /\ outcome.result = "no candidate" <=> candidates = <<>>
  <1> DEFINE r == outcome.result
             others == {"boundary", "no choice", "no headline", "no time", "invalid", "execution", "item"}
  <1>1. \A why : outcome = Refused(why) => r = why
    BY DEF Refused
  <1>2. ASSUME candidates # <<>>, NEW i \in Chosen, outcome = ItemFrom(i)
        PROVE  r \in others
    <2>1. candidates[i] \in DOMAIN Article
      BY ChosenFacts
    <2> HIDE DEF r, others
    <2>2. \/ outcome.result \in {"boundary", "no headline", "no time", "invalid", "execution"}
          \/ outcome = [result |-> "item", of |-> i, url |-> UrlOf(i)]
      BY <1>2, <2>1, ItemFromFacts
    <2>3. CASE outcome.result \in {"boundary", "no headline", "no time", "invalid", "execution"}
      BY <2>3 DEF r, others
    <2>4. CASE outcome = [result |-> "item", of |-> i, url |-> UrlOf(i)]
      <3> DEFINE u == UrlOf(i)
      <3> HIDE DEF u
      <3>1. [result |-> "item", of |-> i, url |-> u].result = "item"
        OBVIOUS
      <3>2. r = "item"
        BY <2>4, <3>1 DEF u, r
      <3>3. QED
        BY <3>2 DEF others
    <2>5. QED
      BY <2>2, <2>3, <2>4
  <1> HIDE DEF r
  <1>3. \/ candidates = <<>> /\ r = "no candidate"
        \/ candidates # <<>> /\ r \in others
    <2>1. "boundary" \in others /\ "no choice" \in others
      OBVIOUS
    <2> HIDE DEF others
    <2>2. QED
      BY <1>1, <1>2, <2>1, Zenon DEF Settled
  <1>4. QED
    BY <1>3 DEF r

\* The document's own account of what stops the parsing.
LEMMA StopsInWords ==
    ASSUME PageInv, DocInv
    PROVE  /\ (\A j \in 1..Len(doc) : ~Stops(doc[j])) <=> None(found.blocks, StopTexts)
           /\ (\E j \in 1..Len(doc) : /\ Stops(doc[j])
                                      /\ doc[j].of # "overlong"
                                      /\ \A i \in 1..(j - 1) : ~Stops(doc[i]))
                 <=> FirstIn(found.blocks, StopTexts, LargeTexts)
  <1>1. doc \in Seq(ElementsOf(family)) /\ Len(doc) \in Nat
    BY DEF PageInv, ReadingOK
  <1>2. \A j \in 1..Len(doc) : doc[j] \in ElementsOf(family)
    BY <1>1
  <1>3. \A j \in 1..Len(doc) :
           /\ doc[j] \in StopElements(family) <=> Stops(doc[j])
           /\ doc[j] \in LargeElements(family) <=> Stops(doc[j]) /\ doc[j].of # "overlong"
    BY <1>2, Zenon DEF StopElements, LargeElements
  <1>4. (\A j \in 1..Len(doc) : ~Stops(doc[j])) <=> None(doc, StopElements(family))
    BY <1>3, Zenon DEF None
  <1>5. \A j \in 1..Len(doc) : \A i \in 1..(j - 1) : i \in 1..Len(doc)
    BY <1>1
  <1>6. (\E j \in 1..Len(doc) : /\ Stops(doc[j])
                                /\ doc[j].of # "overlong"
                                /\ \A i \in 1..(j - 1) : ~Stops(doc[i]))
           <=> FirstIn(doc, StopElements(family), LargeElements(family))
    BY <1>3, <1>5, Zenon DEF FirstIn
  <1>7. QED
    BY <1>4, <1>6 DEF DocInv, KeepsStops

(***************************************************************************)
(* For documents of any length, blocks of any shape and both limits of any *)
(* size: a page is refused for its size exactly if the first block that    *)
(* ends the parsing is a JSON value too large, and for the lack of an      *)
(* article exactly if no block ends it and no block or item has one.       *)
(***************************************************************************)
THEOREM RefusalsAlwaysTellTheCause == Spec => []RefusalsTellTheCause
  <1>1. PageInv /\ DocInv /\ CourseInv => RefusalsTellTheCause
    <2> SUFFICES ASSUME PageInv, DocInv, CourseInv, pc = "done", family # "generic_json_article"
                 PROVE  RefusalsTellTheCause
      BY DEF RefusalsTellTheCause
    <2> DEFINE large == FirstIn(found.blocks, StopTexts, LargeTexts)
               none == None(found.blocks, StopTexts)
    <2>1. DoneInv
      BY DEF CourseInv
    <2>2. found \in Founds /\ candidates \in Seq(DOMAIN Article)
      BY DEF PageInv, ReadingOK, WalkOK
    <2>3. large => ~none
      BY Zenon DEF FirstIn, None, LargeTexts
    <2>4. \A why : Refused(why).result = why
      BY DEF Refused
    <2>5. /\ outcome.result = "limits" <=> large
          /\ outcome.result = "no candidate" <=> ArticlesSaid = <<>> /\ none
      <3>1. CASE ChoosingInv /\ Settled(outcome)
        BY <2>2, <2>3, <3>1, SettledFacts DEF ChoosingInv
      <3>2. CASE large /\ outcome = Refused("limits")
        BY <2>3, <2>4, <3>2
      <3>3. CASE ~none /\ ~large /\ outcome = Refused("execution")
        BY <2>4, <3>3
      <3>4. QED
        BY <2>1, <3>1, <3>2, <3>3 DEF DoneInv
    <2>6. QED
      BY <2>5, StopsInWords DEF RefusalsTellTheCause
  <1>2. QED
    BY <1>1, CourseInvariant, PTL

\* The page the collector's links name is the one the document says it is.
LEMMA PageIdentityIsSaid ==
    ASSUME PageInv, DocInv
    PROVE  PageSays = PageIdentity
  <1> DEFINE links == {j \in 1..Len(doc) : doc[j].what = "canonical" /\ doc[j].of # NoUrl}
             ogs == {j \in 1..Len(doc) : doc[j].what = "og_url"}
  <1>1. \A j \in 1..Len(doc) : doc[j] \in ElementsOf(family)
    BY DEF PageInv, ReadingOK
  <1>2. links = PlacesOf(doc, Canonicals(family)) /\ ogs = PlacesOf(doc, OgUrls(family))
    BY <1>1, Zenon DEF PlacesOf, Canonicals, OgUrls
  <1>3. /\ found.canonical = IF links # {} THEN doc[Min(links)].of ELSE NoUrl
        /\ found.og_url = IF ogs # {} THEN doc[Min(ogs)].of ELSE NoUrl
    BY <1>2, Zenon DEF DocInv, KeepsLinks, First
  <1>4. links # {} => doc[Min(links)].of # NoUrl
    <2>1. ASSUME links # {} PROVE Min(links) \in links
      <3>1. links \subseteq Nat
        BY DEF PageInv, ReadingOK
      <3> HIDE DEF links
      <3>2. QED
        BY <2>1, <3>1, MinFacts
    <2>2. QED
      BY <2>1
  <1>5. PageSays = IF links # {} /\ doc[Min(links)].of # EmptyUrl THEN doc[Min(links)].of
                   ELSE IF ogs # {} THEN doc[Min(ogs)].of ELSE NoUrl
    BY Zenon DEF PageSays
  <1> HIDE DEF links, ogs
  <1>6. QED
    BY <1>3, <1>4, <1>5 DEF PageIdentity, Or

\* What the collector keeps of the metadata is what the document says first.
LEMMA MetadataIsSaid ==
    ASSUME PageInv, DocInv, NEW k \in Metadata
    PROVE  FirstSaid(k) = found.meta[k] /\ found.meta[k] \in Sayable(k) \cup {"none"}
  <1> DEFINE places == {j \in 1..Len(doc) : doc[j].what = k}
  <1>1. \A j \in 1..Len(doc) : doc[j] \in ElementsOf(family)
    BY DEF PageInv, ReadingOK
  <1>2. places = PlacesOf(doc, Kind(family, k))
    BY <1>1, Zenon DEF PlacesOf, Kind
  <1>3. found.meta[k] = IF places # {} THEN doc[Min(places)].of ELSE "none"
    BY <1>2, Zenon DEF DocInv, KeepsMetadata, First
  <1>4. FirstSaid(k) = IF places = {} THEN "none" ELSE doc[Min(places)].of
    BY Zenon DEF FirstSaid
  <1>5. found.meta[k] \in Sayable(k) \cup {"none"}
    BY DEF PageInv, ReadingOK, Founds, Metas
  <1> HIDE DEF places
  <1>6. QED
    BY <1>3, <1>4, <1>5

\* An article passes exactly if article and page say what it needs and nothing wrong.
LEMMA PassesInWords ==
    ASSUME PageInv, DocInv, NEW v \in DOMAIN Article, NEW u
    PROVE  Passes(Article[v], u) <=>
              Complete(v) /\ GoodTexts(v) /\ GoodCredits(v) /\ u \notin Padded
  <1> DEFINE a == Article[v]
             m == found.meta
  <1>1. a \in Articles
    BY ValueAssumption
  <1>2. /\ FirstSaid("og_title") = m["og_title"] /\ m["og_title"] \in {"good", "refused", "none"}
        /\ FirstSaid("description") = m["description"] /\ m["description"] \in {"good", "refused", "none"}
        /\ FirstSaid("og_description") = m["og_description"]
        /\ m["og_description"] \in {"good", "bad", "refused", "none"}
        /\ FirstSaid("og_image") = m["og_image"] /\ m["og_image"] \in {"good", "bad", "refused", "none"}
        /\ FirstSaid("published") = m["published"]
        /\ m["published"] \in {"good", "bad", "out_of_range", "none"}
        /\ FirstSaid("modified") = m["modified"]
        /\ m["modified"] \in {"good", "bad", "out_of_range", "none"}
    <2>1. {"og_title", "description", "og_description", "og_image", "published", "modified"} = Metadata
      BY DEF Metadata, Times
    <2>2. /\ Sayable("og_title") = {"good", "refused"} /\ Sayable("description") = {"good", "refused"}
          /\ Sayable("og_description") = {"good", "bad", "refused"}
          /\ Sayable("og_image") = {"good", "bad", "refused"}
          /\ Sayable("published") = {"good", "bad", "out_of_range"}
          /\ Sayable("modified") = {"good", "bad", "out_of_range"}
      BY DEF Sayable, Times
    <2>3. \A k \in Metadata : FirstSaid(k) = m[k] /\ m[k] \in Sayable(k) \cup {"none"}
      BY MetadataIsSaid
    <2>4. QED
      BY <2>1, <2>2, <2>3
  <1> HIDE DEF m
  <1>3. /\ a.headline \in {"good", "none", "refused"} /\ a.time \in {"good", "none", "out_of_range"}
        /\ a.description \in {"good", "none", "refused"} /\ a.authors \in {"good", "none", "refused"}
        /\ a.modified \in {"good", "none", "out_of_range"} /\ a.section \in {"good", "none", "refused"}
        /\ a.image \in {"good", "none", "refused"}
    <2> HIDE DEF a
    <2>1. QED
      BY <1>1 DEF Articles, Given, GivenTime
  <1>4. Headline(a) = "good" /\ Time(a) = "good" <=> Complete(v)
    <2>1. Headline(a) = Else(a.headline, m["og_title"]) /\ Time(a) = Else(a.time, m["published"])
      BY Zenon DEF Headline, Time, m
    <2>2. Complete(v) <=> /\ Has(a.headline, "og_title") = "good" /\ Has(a.time, "published") = "good"
      BY Zenon DEF Complete
    <2> HIDE DEF a
    <2>3. QED
      BY <1>2, <1>3, <2>1, <2>2 DEF Has, Else
  <1>5. {Image(a), a.authors} \cap Wrong = {} <=> GoodCredits(v)
    <2>1. Image(a) = Else(a.image, m["og_image"])
      BY Zenon DEF Image, m
    <2>2. GoodCredits(v) <=> Has(a.image, "og_image") # "refused" /\ a.authors # "refused"
      BY Zenon DEF GoodCredits
    <2> HIDE DEF a
    <2>3. QED
      BY <1>2, <1>3, <2>1, <2>2 DEF Has, Else, Wrong
  <1>6. {Description(a), Modified(a), a.section} \cap Wrong = {} <=> GoodTexts(v)
    <2> DEFINE first == Has(a.description, "og_description")
    <2>1. /\ Description(a) = Else(Else(a.description, m["og_description"]), m["description"])
          /\ Modified(a) = Else(a.modified, m["modified"])
      BY Zenon DEF Description, Modified, m
    <2>2. GoodTexts(v) <=> /\ first # "refused"
                           /\ first \in {"none", "bad"} => FirstSaid("description") # "refused"
                           /\ a.section # "refused"
                           /\ Has(a.modified, "modified") # "out_of_range"
      BY Zenon DEF GoodTexts
    <2> HIDE DEF a
    <2>3. Description(a) \notin Wrong <=>
             /\ first # "refused"
             /\ first \in {"none", "bad"} => FirstSaid("description") # "refused"
      BY <1>2, <1>3, <2>1 DEF Has, Else, Wrong
    <2>4. Modified(a) \notin Wrong <=> Has(a.modified, "modified") # "out_of_range"
      BY <1>2, <1>3, <2>1 DEF Has, Else, Wrong
    <2>5. a.section \notin Wrong <=> a.section # "refused"
      BY <1>3 DEF Wrong
    <2> HIDE DEF first
    <2>6. QED
      BY <2>2, <2>3, <2>4, <2>5
  <1> HIDE DEF a
  <1>7. QED
    BY <1>4, <1>5, <1>6 DEF Passes, a

\* The candidates that can be chosen, and what they say, in words of the document.
LEMMA EligibleFacts ==
    ASSUME candidates \in Seq(DOMAIN Article), NEW i \in 1..Len(candidates)
    PROVE  /\ i \in Eligible <=> MayBeChosen(candidates, i)
           /\ Rivals(candidates, i) = Eligible \ {i}
           /\ Identity(i) = Says(candidates[i])
  <1> DEFINE n == Len(candidates)
             news == {j \in 1..n : Article[candidates[j]].kind = "news"}
  <1>1. Eligible = IF news # {} THEN news ELSE 1..n
    BY Zenon DEF Eligible
  <1>2. \A j \in 1..n : j \in news <=> IsNews(candidates[j])
    BY Zenon DEF IsNews
  <1>3. news = {} <=> \A j \in 1..n : ~IsNews(candidates[j])
    BY <1>2
  <1>4. news \subseteq 1..n
    OBVIOUS
  <1> HIDE DEF news
  <1>5. \A j \in 1..n : j \in Eligible <=> MayBeChosen(candidates, j)
    BY <1>1, <1>2, <1>3, Zenon DEF MayBeChosen
  <1>6. Eligible \subseteq 1..n
    BY <1>1, <1>4
  <1>7. \A j : j \in Rivals(candidates, i) <=> j \in 1..n /\ j # i /\ MayBeChosen(candidates, j)
    BY Zenon DEF Rivals
  <1>8. Rivals(candidates, i) = Eligible \ {i}
    <2> HIDE DEF n
    <2>1. \A j : j \in Rivals(candidates, i) <=> j \in Eligible /\ j # i
      BY <1>5, <1>6, <1>7
    <2>2. QED
      BY <2>1
  <1>9. Identity(i) = Says(candidates[i])
    <2> DEFINE a == Article[candidates[i]]
    <2>1. candidates[i] \in DOMAIN Article
      <3> DEFINE D == DOMAIN Article
      <3>1. candidates \in Seq(D)
        OBVIOUS
      <3> HIDE DEF D
      <3>2. candidates[i] \in D
        BY <3>1
      <3>3. QED
        BY <3>2 DEF D
    <2>2. a \in Articles
      BY <2>1, ValueAssumption
    <2>3. Identity(i) = Or(a.main, a.url) /\ Says(candidates[i]) = IF a.main \in Urls THEN a.main ELSE a.url
      BY Zenon DEF Identity, Says
    <2> HIDE DEF a
    <2>4. a.main \in Links
      BY <2>2 DEF Articles
    <2>5. a.main \in {NoUrl, EmptyUrl} <=> a.main \notin Urls
      BY <2>4, UrlAssumption DEF Links
    <2>6. CASE a.main \in Urls
      BY <2>3, <2>5, <2>6 DEF Or
    <2>7. CASE a.main \notin Urls
      BY <2>3, <2>5, <2>7 DEF Or
    <2>8. QED
      BY <2>6, <2>7
  <1>10. QED
    BY <1>5, <1>8, <1>9

LEMMA Singles ==
    ASSUME candidates \in Seq(DOMAIN Article)
    PROVE  /\ Cardinality(Eligible) = 1 <=> \E x : Eligible = {x}
           /\ Cardinality(Matches) = 1 <=> \E x : Matches = {x}
  <1> DEFINE n == Len(candidates)
  <1>1. n \in Nat
    OBVIOUS
  <1>2. Eligible \subseteq 1..n /\ Matches \subseteq 1..n
    <2>1. Eligible \subseteq 1..n
      BY DEF Eligible
    <2>2. QED
      BY <2>1 DEF Matches
  <1> HIDE DEF n
  <1>3. IsFiniteSet(1..n)
    BY <1>1, FS_Interval
  <1>4. IsFiniteSet(Eligible) /\ IsFiniteSet(Matches)
    BY <1>2, <1>3, FS_Subset
  <1>5. QED
    BY <1>4, FS_Singleton

\* Why a candidate is chosen.
LEMMA ChosenOnly ==
    ASSUME candidates \in Seq(DOMAIN Article), NEW i \in Chosen
    PROVE  \/ PageIdentity # NoUrl /\ Matches = {i}
           \/ Eligible = {i} /\ (PageIdentity = NoUrl \/ IsSilent(i))
  <1>1. CASE PageIdentity # NoUrl /\ Matches # {}
    <2>1. Cardinality(Matches) = 1 /\ i \in Matches
      BY <1>1 DEF Chosen
    <2>2. PICK x : Matches = {x}
      BY <2>1, Singles
    <2>3. QED
      BY <1>1, <2>1, <2>2
  <1>2. CASE ~(PageIdentity # NoUrl /\ Matches # {})
    <2>1. /\ Cardinality(Eligible) = 1 /\ i \in Eligible
          /\ \A j \in Eligible : PageIdentity = NoUrl \/ IsSilent(j)
      BY <1>2 DEF Chosen
    <2>2. PICK x : Eligible = {x}
      BY <2>1, Singles
    <2>3. QED
      BY <2>1, <2>2
  <1>3. QED
    BY <1>1, <1>2

LEMMA ChosenIf ==
    ASSUME candidates \in Seq(DOMAIN Article), NEW i
    PROVE  /\ PageIdentity # NoUrl /\ Matches = {i} => Chosen = {i}
           /\ PageIdentity = NoUrl /\ Eligible = {i} => Chosen = {i}
  <1>1. ASSUME PageIdentity # NoUrl, Matches = {i} PROVE Chosen = {i}
    <2>1. Cardinality(Matches) = 1 /\ Matches # {}
      BY <1>1, Singles
    <2>2. QED
      BY <1>1, <2>1 DEF Chosen
  <1>2. ASSUME PageIdentity = NoUrl, Eligible = {i} PROVE Chosen = {i}
    <2>1. Cardinality(Eligible) = 1
      BY <1>2, Singles
    <2>2. QED
      BY <1>2, <2>1 DEF Chosen
  <1>3. QED
    BY <1>1, <1>2

\* An item is of the candidate chosen, with its URL or the page's.
LEMMA SettledItem ==
    ASSUME found \in Founds, candidates \in Seq(DOMAIN Article), Settled(outcome), outcome.result = "item"
    PROVE  /\ outcome.of \in Chosen
           /\ outcome.url = UrlOf(outcome.of)
  <1>1. \A why : outcome = Refused(why) => outcome.result = why
    BY DEF Refused
  <1>2. PICK i \in Chosen : outcome = ItemFrom(i)
    <2>1. "item" \notin {"no candidate", "boundary", "no choice"}
      OBVIOUS
    <2>2. QED
      BY <1>1, <2>1, Zenon DEF Settled
  <1>3. candidates[i] \in DOMAIN Article
    BY ChosenFacts
  <1>4. \/ outcome.result \in {"boundary", "no headline", "no time", "invalid", "execution"}
        \/ outcome = [result |-> "item", of |-> i, url |-> UrlOf(i)]
    BY <1>2, <1>3, ItemFromFacts
  <1>5. outcome = [result |-> "item", of |-> i, url |-> UrlOf(i)]
    BY <1>4
  <1> DEFINE u == UrlOf(i)
  <1> HIDE DEF u
  <1>6. outcome.of = i /\ outcome.url = u
    BY <1>5 DEF u
  <1>7. QED
    BY <1>6 DEF u

(***************************************************************************)
(* For every page of the two families that choose among candidates, with   *)
(* any number of them: an item has an approved URL that the page does not  *)
(* contradict, its article may be chosen and says that URL or, alone,      *)
(* none, and no rival says it.                                             *)
(***************************************************************************)
THEOREM TheItemIsTheOnlyOne == Spec => []ItemIsTheOnlyOne
  <1>1. PageInv /\ DocInv /\ CourseInv => ItemIsTheOnlyOne
    <2> SUFFICES ASSUME PageInv, DocInv, CourseInv, outcome.result = "item"
                 PROVE  ItemIsTheOnlyOne
      BY DEF ItemIsTheOnlyOne
    <2>1. outcome.url \in Approved
      BY DEF PageInv, OutcomeOK, ItemsAreApproved
    <2> DEFINE i == outcome.of
               c == candidates
               u == outcome.url
               Only == /\ PageSays \in {u, NoUrl}
                       /\ MayBeChosen(c, i)
                       /\ \A j \in Rivals(c, i) : Says(c[j]) # u
                       /\ \/ Says(c[i]) = u
                          \/ Says(c[i]) \notin Urls /\ Rivals(c, i) = {}
    <2>2. ASSUME family # "generic_json_article"
          PROVE  ArticlesSaid = c /\ Only
      <3>1. pc = "done"
        <4>1. NoOutcome.result # "item"
          BY DEF NoOutcome
        <4>2. QED
          BY <4>1 DEF CourseInv
      <3>2. ChoosingInv /\ Settled(outcome)
        <4>1. \A why : outcome = Refused(why) => outcome.result = why
          BY DEF Refused
        <4>2. DoneInv
          BY <3>1 DEF CourseInv
        <4>3. "item" # "limits" /\ "item" # "execution"
          OBVIOUS
        <4>4. QED
          BY <2>2, <4>1, <4>2, <4>3, Zenon DEF DoneInv
      <3>3. candidates \in Seq(DOMAIN Article) /\ found \in Founds
        BY DEF PageInv, WalkOK, ReadingOK
      <3>4. i \in Chosen /\ u = UrlOf(i)
        BY <3>2, <3>3, SettledItem
      <3>5. i \in 1..Len(c)
        BY <3>3, <3>4, ChosenFacts
      <3>6. /\ i \in Eligible <=> MayBeChosen(c, i)
            /\ Rivals(c, i) = Eligible \ {i}
            /\ Identity(i) = Says(c[i])
        BY <3>3, <3>5, EligibleFacts
      <3>7. \A j \in Eligible : j \in 1..Len(c) /\ Identity(j) = Says(c[j])
        <4>1. Eligible \subseteq 1..Len(c)
          BY DEF Eligible
        <4>2. QED
          BY <3>3, <4>1, EligibleFacts
      <3>8. PageSays = PageIdentity
        BY PageIdentityIsSaid
      <3>9. u # NoUrl /\ u \in Urls
        BY <2>1, UrlAssumption
      <3>10. ArticlesSaid = c
        BY <3>2 DEF ChoosingInv
      <3> HIDE DEF i, c, u
      <3>11. CASE PageIdentity # NoUrl /\ Matches = {i}
        <4>1. u = PageIdentity
          BY <3>4, <3>11 DEF UrlOf
        <4>2. i \in Eligible /\ Identity(i) = u
          BY <3>11, <4>1 DEF Matches
        <4>3. \A j \in Eligible : j # i => Identity(j) # u
          BY <3>11, <4>1 DEF Matches
        <4>4. Only
          BY <3>6, <3>7, <3>8, <4>1, <4>2, <4>3
        <4>5. QED
          BY <3>10, <4>4
      <3>12. CASE Eligible = {i} /\ (PageIdentity = NoUrl \/ IsSilent(i))
        <4>1. Rivals(c, i) = {} /\ MayBeChosen(c, i)
          BY <3>6, <3>12
        <4>2. CASE PageIdentity = NoUrl
          <5>1. u = Identity(i)
            BY <3>4, <4>2 DEF UrlOf
          <5>2. Only
            BY <3>6, <3>8, <4>1, <4>2, <5>1
          <5>3. QED
            BY <3>10, <5>2
        <4>3. CASE PageIdentity # NoUrl /\ IsSilent(i)
          <5>1. u = PageIdentity
            BY <3>4, <4>3 DEF UrlOf
          <5>2. Identity(i) \notin Urls
            BY <4>3, UrlAssumption DEF IsSilent
          <5>3. Only
            BY <3>6, <3>8, <4>1, <5>1, <5>2
          <5>4. QED
            BY <3>10, <5>3
        <4>4. QED
          BY <3>12, <4>2, <4>3
      <3>13. QED
        BY <3>3, <3>4, <3>11, <3>12, ChosenOnly
    <2>3. QED
      BY <2>1, <2>2, Zenon DEF ItemIsTheOnlyOne
  <1>2. QED
    BY <1>1, CourseInvariant, PTL

(***************************************************************************)
(* For every page of these families, if no block ends the parsing: the     *)
(* article that it is about, which says an approved URL that the page does *)
(* not contradict and has no rival for it, is the item of the page exactly *)
(* if article and page say what an article needs, and nothing that         *)
(* ArticleItem refuses.                                                    *)
(***************************************************************************)
THEOREM TheArticleIsAlwaysFound == Spec => []TheArticleIsFound
  <1>1. PageInv /\ DocInv /\ CourseInv => TheArticleIsFound
    <2> SUFFICES ASSUME PageInv, DocInv, CourseInv, pc = "done", family # "generic_json_article",
                        \A j \in 1..Len(doc) : ~Stops(doc[j]),
                        NEW i \in 1..Len(ArticlesSaid), IsThePages(ArticlesSaid, i)
                 PROVE  outcome = [result |-> "item", of |-> i, url |-> Says(ArticlesSaid[i])]
                        <=> /\ Complete(ArticlesSaid[i]) /\ GoodTexts(ArticlesSaid[i])
                            /\ GoodCredits(ArticlesSaid[i]) /\ Says(ArticlesSaid[i]) \notin Padded
      BY Zenon DEF TheArticleIsFound
    <2>a. /\ MayBeChosen(ArticlesSaid, i) /\ Says(ArticlesSaid[i]) \in Approved
          /\ \/ PageSays = Says(ArticlesSaid[i])
             \/ PageSays = NoUrl /\ Rivals(ArticlesSaid, i) = {}
          /\ \A j \in Rivals(ArticlesSaid, i) : Says(ArticlesSaid[j]) # Says(ArticlesSaid[i])
      BY Zenon DEF IsThePages
    <2> DEFINE c == candidates
               w == Says(c[i])
    <2>1. None(found.blocks, StopTexts)
      BY StopsInWords
    <2>2. ChoosingInv /\ Settled(outcome)
      <3>1. DoneInv
        BY DEF CourseInv
      <3>2. ~FirstIn(found.blocks, StopTexts, LargeTexts)
        BY <2>1, Zenon DEF None, FirstIn, LargeTexts
      <3>3. QED
        BY <2>1, <3>1, <3>2, Zenon DEF DoneInv
    <2>3. ArticlesSaid = c
      BY <2>2 DEF ChoosingInv
    <2>4. candidates \in Seq(DOMAIN Article) /\ found \in Founds
      BY DEF PageInv, WalkOK, ReadingOK
    <2>5. i \in 1..Len(c) /\ candidates # <<>>
      BY <2>3
    <2>6. /\ i \in Eligible <=> MayBeChosen(c, i)
          /\ Rivals(c, i) = Eligible \ {i}
          /\ Identity(i) = w
      BY <2>4, <2>5, EligibleFacts
    <2>7. \A j \in Eligible : Identity(j) = Says(c[j])
      <3>1. Eligible \subseteq 1..Len(c)
        BY DEF Eligible
      <3>2. QED
        BY <2>4, <3>1, EligibleFacts
    <2>8. PageSays = PageIdentity
      BY PageIdentityIsSaid
    <2>9. /\ i \in Eligible /\ w \in Approved /\ w # NoUrl
          /\ PageIdentity = w \/ (PageIdentity = NoUrl /\ Eligible \ {i} = {})
          /\ \A j \in Eligible \ {i} : Says(c[j]) # w
      BY <2>a, <2>3, <2>6, <2>8, UrlAssumption
    <2> HIDE DEF c, w
    <2>10. Chosen = {i} /\ UrlOf(i) = w /\ PageIdentity \in Approved \cup {NoUrl}
      <3>1. CASE PageIdentity = w
        <4>1. Matches = {i}
          BY <2>6, <2>7, <2>9, <3>1 DEF Matches
        <4>2. Chosen = {i}
          BY <2>4, <2>9, <3>1, <4>1, ChosenIf
        <4>3. QED
          BY <2>9, <3>1, <4>2 DEF UrlOf
      <3>2. CASE PageIdentity = NoUrl /\ Eligible \ {i} = {}
        <4>1. Eligible = {i}
          BY <2>9, <3>2
        <4>2. Chosen = {i}
          BY <2>4, <3>2, <4>1, ChosenIf
        <4>3. QED
          BY <2>6, <3>2, <4>2 DEF UrlOf
      <3>3. QED
        BY <2>9, <3>1, <3>2
    <2>11. outcome = ItemFrom(i)
      <3>1. Chosen # {} /\ \A j \in Chosen : j = i
        BY <2>10
      <3>2. QED
        BY <2>2, <2>5, <2>10, <3>1, Zenon DEF Settled
    <2>12. candidates[i] \in DOMAIN Article
      BY <2>4, <2>10, ChosenFacts
    <2>13. ItemFrom(i) = [result |-> "item", of |-> i, url |-> UrlOf(i)]
           <=> Passes(Article[candidates[i]], UrlOf(i))
      BY <2>4, <2>9, <2>10, <2>12, ItemFromFacts, Zenon
    <2>14. Passes(Article[candidates[i]], w) <=>
              /\ Complete(candidates[i]) /\ GoodTexts(candidates[i])
              /\ GoodCredits(candidates[i]) /\ w \notin Padded
      BY <2>12, PassesInWords
    <2>15. QED
      BY <2>3, <2>10, <2>11, <2>13, <2>14, Zenon DEF c, w
  <1>2. QED
    BY <1>1, CourseInvariant, PTL
===============================================================================
