---------------------------- MODULE MicrodataScopes ----------------------------
(***************************************************************************)
(* The reading of Microdata items from a stream of tags and text:          *)
(* _MicrodataMetadataParser in src/aa_crawler/parser/microdata_article.py, *)
(* driven by html.parser.HTMLParser.                                       *)
(*                                                                         *)
(* The parser keeps a stack of open elements and a stack of open items,    *)
(* and pops one element for each end tag, whatever its name.  The document *)
(* is written one event at a time by an author who keeps the real tree:    *)
(* which elements are open, and what each belongs to.  The author mostly   *)
(* balances the tags; each departure from that - an end tag left out or    *)
(* implied by the next start tag, a stray one, a slash that ends a tag -   *)
(* gives the parser other events than the tree has.                        *)
(***************************************************************************)
EXTENDS Naturals, Sequences, SequencesExt

CONSTANTS
    MaxNodes,       \* bound: elements and pieces of text of a document
    MaxDepartures   \* bound: departures from balanced tags

NoProp == "no itemprop"

\* The properties _resolve_nested_value looks for, in order; others are alike.
Props == {"name", "url"}
Itemprops == Props \cup {NoProp}

NoValue == [of |-> 0, text |-> {}]

VARIABLES
    parser,         \* _stack, _scopes and items of the parser
    \* the document so far
    doc,            \* its nodes in document order
    open,           \* the elements really open, outermost first
    order,          \* the nodes whose value is complete, in that order
    spoiled,        \* the elements in whose content a departure occurred
    departures      \* what the author departed in, in order

documentVars == <<doc, open, order, spoiled, departures>>
vars == <<parser, documentVars>>

-------------------------------------------------------------------------------
(* The parser. *)

\* _Frame, for element el.
Frame(el, scope, nested, capture) ==
    [el |-> el, opened_scope |-> scope, nested_prop |-> nested,
     capture_prop |-> capture, capture_parts |-> {}]

\* A value is known by the node it comes from and the pieces of text in it.
Value(el, parts) == [of |-> el, text |-> parts]

\* Storing a missing value like any other.
Add_KeepsNone(scopes, prop, value) ==
    IF scopes = <<>> THEN scopes
    ELSE [scopes EXCEPT ![Len(scopes)].props = Append(@, [prop |-> prop, value |-> value])]

\* self._scopes[-1].add(prop, value), where there is a scope and a value.
Add(scopes, prop, value) ==
    IF scopes = <<>> \/ value = NoValue THEN scopes
    ELSE [scopes EXCEPT ![Len(scopes)].props = Append(@, [prop |-> prop, value |-> value])]

\* _Scope.first
First(props, prop) ==
    LET places == {i \in 1..Len(props) : props[i].prop = prop}
    IN  IF places = {} THEN NoValue ELSE props[Min(places)].value

\* _resolve_nested_value: the first name, else the first url.
Resolve(props) ==
    IF First(props, "name") # NoValue THEN First(props, "name") ELSE First(props, "url")

\* Putting void elements on the stack like the others.
HandleVoidTag_Pushes(s, el, prop) ==
    [s EXCEPT !.scopes = IF prop = NoProp THEN @ ELSE Add(@, prop, Value(el, {})),
              !.stack = Append(@, Frame(el, FALSE, NoProp, NoProp))]

HandleVoidTag(s, el, prop) ==
    [s EXCEPT !.scopes = IF prop = NoProp THEN @ ELSE Add(@, prop, Value(el, {}))]

\* An element opens an item, has its value in an attribute or in its text, or
\* has none.
HandleScopedTag(s, el, kind, prop) ==
    CASE kind = "scope" ->
            [s EXCEPT !.scopes = Append(@, [el |-> el, props |-> <<>>]),
                      !.stack = Append(@, Frame(el, TRUE, prop, NoProp))]
      [] kind = "attribute" ->
            [s EXCEPT !.scopes = Add(@, prop, Value(el, {})),
                      !.stack = Append(@, Frame(el, FALSE, NoProp, NoProp))]
      [] kind = "text_value" ->
            [s EXCEPT !.stack = Append(@, Frame(el, FALSE, NoProp, prop))]
      [] kind = "plain" ->
            [s EXCEPT !.stack = Append(@, Frame(el, FALSE, NoProp, NoProp))]

HandleStartTag(s, el, kind, prop) ==
    IF kind = "void" THEN HandleVoidTag(s, el, prop) ELSE HandleScopedTag(s, el, kind, prop)

Captures(frame) == frame.capture_prop # NoProp

\* Giving text to the outermost element that captures it.
HandleData_Outermost(s, piece) ==
    LET i == SelectInSeq(s.stack, Captures)
    IN  IF i = 0 THEN s ELSE [s EXCEPT !.stack[i].capture_parts = @ \cup {piece}]

\* Text goes to the innermost element that captures it.
HandleData(s, piece) ==
    LET i == SelectLastInSeq(s.stack, Captures)
    IN  IF i = 0 THEN s ELSE [s EXCEPT !.stack[i].capture_parts = @ \cup {piece}]

\* The scopes once the element of the top frame has ended.
Collected(s) ==
    LET frame == Last(s.stack)
    IN  IF Captures(frame)
        THEN Add(s.scopes, frame.capture_prop, Value(frame.el, frame.capture_parts))
        ELSE s.scopes

\* Leaving the scope of an item open when its element ends.
HandleEndTag_KeepsScope(s) ==
    IF s.stack = <<>> THEN s
    ELSE [s EXCEPT !.stack = Front(@), !.scopes = Collected(s)]

\* Listing every item, the nested ones too.
HandleEndTag_ListsNested(s) ==
    IF s.stack = <<>> THEN s
    ELSE LET frame == Last(s.stack)
             scope == Last(s.scopes)
         IN  IF ~frame.opened_scope
             THEN [s EXCEPT !.stack = Front(@), !.scopes = Collected(s)]
             ELSE [stack  |-> Front(s.stack),
                   scopes |-> IF frame.nested_prop = NoProp THEN Front(s.scopes)
                              ELSE Add(Front(s.scopes), frame.nested_prop, Resolve(scope.props)),
                   items  |-> Append(s.items, scope)]

\* handle_endtag, which does not look at the name of the tag: the top element
\* ends, and with it its item, if it opened one.
HandleEndTag(s) ==
    IF s.stack = <<>> THEN s
    ELSE LET frame == Last(s.stack)
             scope == Last(s.scopes)
         IN  IF ~frame.opened_scope
             THEN [s EXCEPT !.stack = Front(@), !.scopes = Collected(s)]
             ELSE [stack  |-> Front(s.stack),
                   scopes |-> IF frame.nested_prop = NoProp THEN Front(s.scopes)
                              ELSE Add(Front(s.scopes), frame.nested_prop, Resolve(scope.props)),
                   items  |-> IF frame.nested_prop = NoProp THEN Append(s.items, scope)
                              ELSE s.items]

-------------------------------------------------------------------------------
(* The document. *)

\* The entries of seq that are in S, in order: SelectSeq by a set, as a function.
Only(seq, S) ==
    LET only[i \in 0..Len(seq)] ==
            IF i = 0 THEN <<>>
            ELSE IF seq[i] \in S THEN Append(only[i - 1], seq[i]) ELSE only[i - 1]
    IN  only[Len(seq)]

Kinds == {"scope", "attribute", "text_value", "plain", "void"}

\* The elements that may be written: an item or a void element with or without
\* itemprop, the others with one exactly if they have a value.
Elements ==
    {e \in [kind : Kinds, prop : Itemprops] :
        /\ e.kind = "plain" => e.prop = NoProp
        /\ e.kind \in {"attribute", "text_value"} => e.prop # NoProp}

Node(e) == [kind |-> e.kind, prop |-> e.prop, within |-> ToSet(open)]

Init ==
    /\ parser = [stack |-> <<>>, scopes |-> <<>>, items |-> <<>>]
    /\ doc = <<>>
    /\ open = <<>>
    /\ order = <<>>
    /\ spoiled = {}
    /\ departures = <<>>

\* The author does something the tree does not show.
Depart(how, elements) ==
    /\ Len(departures) < MaxDepartures
    /\ departures' = Append(departures, how)
    /\ spoiled' = spoiled \cup elements

\* The tree after a start tag: void elements are not open, and their value, like
\* that of an attribute, is complete.
Grow(e) ==
    LET el == Len(doc) + 1 IN
    /\ doc' = Append(doc, Node(e))
    /\ open' = IF e.kind = "void" THEN open ELSE Append(open, el)
    /\ order' = IF e.kind \in {"void", "attribute"} THEN Append(order, el) ELSE order

StartTag(e) ==
    /\ Grow(e)
    /\ parser' = HandleStartTag(parser, Len(doc) + 1, e.kind, e.prop)
    /\ UNCHANGED <<spoiled, departures>>

\* <e/>: HTML ignores the slash, HTMLParser.handle_startendtag reports an end tag.
SlashedTag(e) ==
    /\ Grow(e)
    /\ Depart(IF e.kind = "void" THEN "slash on a void element" ELSE "slash", ToSet(open'))
    /\ parser' = HandleEndTag(HandleStartTag(parser, Len(doc) + 1, e.kind, e.prop))

Text ==
    /\ Len(doc) < MaxNodes
    /\ doc' = Append(doc, Node([kind |-> "text", prop |-> NoProp]))
    /\ parser' = HandleData(parser, Len(doc) + 1)
    /\ UNCHANGED <<open, order, spoiled, departures>>

\* The k innermost open elements end.
Close(k) ==
    /\ k \in 1..Len(open)
    /\ open' = SubSeq(open, 1, Len(open) - k)
    /\ order' = order \o Reverse(Only(SubSeq(open, Len(open) - k + 1, Len(open)),
                                      {el \in 1..Len(doc) : doc[el].kind # "attribute"}))
    /\ UNCHANGED doc

EndTag ==
    /\ Close(1)
    /\ parser' = HandleEndTag(parser)
    /\ UNCHANGED <<spoiled, departures>>

\* An end tag that ends inner elements, too, whose own end tags were left out.
OmittedEndTags(k) ==
    /\ k > 1
    /\ Depart("end tags left out", ToSet(open))
    /\ Close(k)
    /\ parser' = HandleEndTag(parser)

\* Ends that HTML reads from the start tag to come: <li> ends the <li> before it.
\* HTMLParser reports nothing of them.
ImpliedEnds(k) ==
    /\ Len(doc) < MaxNodes
    /\ Depart("end tags implied", ToSet(open))
    /\ Close(k)
    /\ UNCHANGED parser

\* An end tag that ends nothing.  The parser ignores one that finds its stack empty.
StrayEndTag ==
    /\ parser.stack # <<>>
    /\ Depart("stray end tag", ToSet(open))
    /\ parser' = HandleEndTag(parser)
    /\ UNCHANGED <<doc, open, order>>

Next ==
    \/ Len(doc) < MaxNodes /\ \E e \in Elements : StartTag(e) \/ SlashedTag(e)
    \/ Text
    \/ EndTag
    \/ \E k \in 2..MaxNodes : OmittedEndTags(k)
    \/ \E k \in 1..MaxNodes : ImpliedEnds(k)
    \/ StrayEndTag

Spec == Init /\ [][Next]_vars

-------------------------------------------------------------------------------
(* What the document says. *)

\* The innermost element of this kind that node n is in, or 0.
Innermost(n, kind) ==
    LET S == {a \in doc[n].within : doc[a].kind = kind}
    IN  IF S = {} THEN 0 ELSE Max(S)

\* The text of an element: what is in it, but in no inner element with a text value.
TextOf(el) ==
    {n \in 1..Len(doc) : doc[n].kind = "text" /\ Innermost(n, "text_value") = el}

\* The properties of each item, in the order in which their values end; of a
\* nested item that has nothing to offer, none.
PropertiesOf[item \in 0..Len(doc)] ==
    LET value(n) == IF doc[n].kind = "scope" THEN Resolve(PropertiesOf[n])
                                             ELSE Value(n, TextOf(n))
        has == {n \in 1..Len(doc) : /\ doc[n].prop # NoProp
                                    /\ Innermost(n, "scope") = item
                                    /\ value(n) # NoValue}
        of == Only(order, has)
    IN  [i \in 1..Len(of) |-> [prop |-> doc[of[i]].prop, value |-> value(of[i])]]

\* The items of the document that are no other item's property, in order.
Standalone == Only(order, {n \in 1..Len(doc) : doc[n].kind = "scope" /\ doc[n].prop = NoProp})

Item(n) == [el |-> n, props |-> PropertiesOf[n]]

-------------------------------------------------------------------------------

Departures ==
    {"slash on a void element", "slash", "end tags left out", "end tags implied", "stray end tag"}

\* What the parser may hold of a document with n nodes.
Frames(n) ==
    [el : 1..n, opened_scope : BOOLEAN, nested_prop : Itemprops,
     capture_prop : Itemprops, capture_parts : SUBSET (1..n)]
Values(n) == [of : 1..n, text : SUBSET (1..n)]
Scopes(n) == [el : 1..n, props : Seq([prop : Props, value : Values(n)])]
Parsers(n) == [stack : Seq(Frames(n)), scopes : Seq(Scopes(n)), items : Seq(Scopes(n))]

Nodes == [kind : Kinds \cup {"text"}, prop : Itemprops, within : SUBSET Nat]

TypeOK ==
    /\ parser \in Parsers(Len(doc))
    /\ doc \in Seq(Nodes)
    /\ \A i \in 1..Len(doc) : doc[i].within \subseteq 1..(i - 1)
    /\ ToSet(open) \cup ToSet(order) \cup spoiled \subseteq 1..Len(doc)
    /\ departures \in Seq(Departures)

IsRising(s) == \A i, j \in 1..Len(s) : i < j => s[i].el < s[j].el

(***************************************************************************)
(* The two stacks agree, whatever tags the document has: the open scopes   *)
(* are those of the frames that opened one, in the same order.  So         *)
(* handle_endtag never pops from an empty list, and closes the scope of    *)
(* the frame it pops and no other.                                         *)
(***************************************************************************)
ScopesFollowFrames ==
    /\ IsRising(parser.stack)
    /\ IsRising(parser.scopes)
    /\ {parser.scopes[i].el : i \in 1..Len(parser.scopes)}
         = {parser.stack[i].el : i \in {j \in 1..Len(parser.stack) : parser.stack[j].opened_scope}}

(***************************************************************************)
(* ADR-026: a document with balanced tags is read as it is: the parser     *)
(* knows the open elements and the items so far, in order, and no others.  *)
(***************************************************************************)
BalancedDocumentsAreRead ==
    departures = <<>> =>
        /\ [i \in 1..Len(parser.stack) |-> parser.stack[i].el] = open
        /\ [i \in 1..Len(parser.items) |-> parser.items[i].el] = Standalone

(***************************************************************************)
(* Damage stays local: a standalone item without a departure in its        *)
(* content is read with exactly its properties, whatever is wrong with the *)
(* document before, after and around it.                                   *)
(***************************************************************************)
DamageIsLocal ==
    \A n \in ToSet(Standalone) \ spoiled : \E i \in 1..Len(parser.items) : parser.items[i] = Item(n)

\* The entries of all scopes and items, each by its place.
Places ==
    {<<"scope", i, j>> : i \in 1..Len(parser.scopes), j \in 1..Len(doc)}
      \cup {<<"item", i, j>> : i \in 1..Len(parser.items), j \in 1..Len(doc)}

ScopeAt(place) == IF place[1] = "scope" THEN parser.scopes[place[2]] ELSE parser.items[place[2]]

Occupied == {place \in Places : place[3] <= Len(ScopeAt(place).props)}

SourceAt(place) == ScopeAt(place).props[place[3]].value.of

(***************************************************************************)
(* In a document with any tags, no value is used twice and none leaks out  *)
(* of its item backwards: what a scope or item holds comes from an element *)
(* that started after it, and is held by nothing else.                     *)
(***************************************************************************)
ValuesHaveOnePlace ==
    /\ \A x, y \in Occupied : SourceAt(x) = SourceAt(y) => x = y
    /\ \A x \in Occupied : ScopeAt(x).el < SourceAt(x)

(***************************************************************************)
(* microdata_article.py: a frame is "One open HTML element on the parser's *)
(* element stack" and a scope "One open itemscope context", also where the *)
(* void elements of the document are written with a slash, which HTML      *)
(* allows.                                                                 *)
(***************************************************************************)
FramesAreOpenElements ==
    ToSet(departures) \subseteq {"slash on a void element"}
        => [i \in 1..Len(parser.stack) |-> parser.stack[i].el] = open
===============================================================================
