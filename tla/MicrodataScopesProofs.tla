------------------------ MODULE MicrodataScopesProofs ------------------------
(***************************************************************************)
(* Theorems about MicrodataScopes for documents of any length with any     *)
(* tags, balanced or not.                                                  *)
(***************************************************************************)
EXTENDS MicrodataScopes, TLAPS, WellFoundedInduction

\* A set of natural numbers that is not empty has a least element.
LEMMA MinFacts ==
    ASSUME NEW I, I \subseteq Nat, I # {}
    PROVE  Min(I) \in I /\ \A y \in I : Min(I) <= y
  <1> DEFINE less == {ss \in Nat \X Nat : ss[1] < ss[2]}
  <1>1. less = OpToRel(<, Nat)
    BY Zenon DEF OpToRel
  <1>2. IsWellFoundedOn(less, Nat)
    BY <1>1, NatLessThanWellFounded, Zenon
  <1>3. PICK x \in I : \A y \in I : <<y, x>> \notin less
    <2> HIDE DEF less
    <2>1. QED
      BY <1>2, WFMin
  <1>4. ASSUME NEW y \in I PROVE x <= y
    <2>1. <<y, x>> \in Nat \X Nat /\ <<y, x>>[1] = y /\ <<y, x>>[2] = x
      BY <1>3
    <2>2. ~(y < x)
      BY <1>3, <2>1, Zenon
    <2>3. QED
      BY <1>3, <2>2
  <1>5. \E i \in I : \A y \in I : i <= y
    BY <1>3, <1>4
  <1>6. QED
    BY <1>5, Zenon DEF Min

\* A longer document allows what a shorter one did.
LEMMA Monotone ==
    ASSUME NEW n \in Nat, NEW m \in Nat, n <= m
    PROVE  /\ 1..n \subseteq 1..m
           /\ Frames(n) \subseteq Frames(m)
           /\ Scopes(n) \subseteq Scopes(m)
           /\ Parsers(n) \subseteq Parsers(m)
  <1>1. 1..n \subseteq 1..m
    OBVIOUS
  <1>2. Frames(n) \subseteq Frames(m)
    BY <1>1 DEF Frames
  <1>3. Values(n) \subseteq Values(m)
    BY <1>1 DEF Values
  <1>4. Scopes(n) \subseteq Scopes(m)
    <2> DEFINE E(k) == [prop : Props, value : Values(k)]
    <2>1. E(n) \subseteq E(m)
      BY <1>3
    <2>2. Seq(E(n)) \subseteq Seq(E(m))
      <3> HIDE DEF E
      <3>1. QED
        BY <2>1
    <2>3. QED
      BY <1>1, <2>2 DEF Scopes
  <1>5. Parsers(n) \subseteq Parsers(m)
    BY <1>2, <1>4 DEF Parsers
  <1>6. QED
    BY <1>1, <1>2, <1>4, <1>5

\* What _Scope.first finds is a value of the scope, or none.
LEMMA FirstFacts ==
    ASSUME NEW n \in Nat, NEW props \in Seq([prop : Props, value : Values(n)]), NEW p
    PROVE  First(props, p) \in Values(n) \cup {NoValue}
  <1> DEFINE I == {i \in 1..Len(props) : props[i].prop = p}
             first == Min(I)
  <1>1. First(props, p) = IF I = {} THEN NoValue ELSE props[first].value
    BY DEF First
  <1>2. CASE I = {}
    BY <1>1, <1>2
  <1>3. CASE I # {}
    <2>1. Min(I) \in I
      <3>1. I \subseteq Nat
        OBVIOUS
      <3> HIDE DEF I
      <3>2. QED
        BY <1>3, <3>1, MinFacts
    <2>2. first \in 1..Len(props)
      BY <1>3, <2>1
    <2>3. props[first] \in [prop : Props, value : Values(n)]
      <3> DEFINE E == [prop : Props, value : Values(n)]
      <3>1. props \in Seq(E)
        OBVIOUS
      <3> HIDE DEF first, E
      <3>2. props[first] \in E
        BY <2>2, <3>1
      <3>3. QED
        BY <3>2 DEF E
    <2>4. props[first].value \in Values(n)
      BY <2>3
    <2>5. QED
      BY <1>1, <2>2, <2>4
  <1>4. QED
    BY <1>2, <1>3

\* _resolve_nested_value finds a value of the nested item, or none.
LEMMA ResolveFacts ==
    ASSUME NEW n \in Nat, NEW props \in Seq([prop : Props, value : Values(n)])
    PROVE  Resolve(props) \in Values(n) \cup {NoValue}
  BY FirstFacts DEF Resolve

\* Adding a value to the innermost open scope leaves the list of the scopes alone.
LEMMA AddFacts ==
    ASSUME NEW n \in Nat, NEW c \in Seq(Scopes(n)), NEW prop \in Props,
           NEW value \in Values(n) \cup {NoValue}
    PROVE  /\ Add(c, prop, value) \in Seq(Scopes(n))
           /\ Len(Add(c, prop, value)) = Len(c)
           /\ \A i \in 1..Len(c) : Add(c, prop, value)[i].el = c[i].el
  <1> DEFINE d == Add(c, prop, value)
             x == [prop |-> prop, value |-> value]
             E == [prop : Props, value : Values(n)]
  <1>1. CASE c = <<>> \/ value = NoValue
    BY <1>1 DEF Add
  <1>2. CASE ~(c = <<>> \/ value = NoValue)
    <2> DEFINE top == c[Len(c)]
               new == [top EXCEPT !.props = Append(top.props, x)]
    <2>1. d = [c EXCEPT ![Len(c)] = new]
      BY <1>2 DEF Add
    <2>2. x \in E
      BY <1>2
    <2>3. top \in Scopes(n) /\ Len(c) \in 1..Len(c)
      BY <1>2
    <2>4. top.props \in Seq(E) /\ top.el \in 1..n
      BY <2>3 DEF Scopes
    <2>5. Append(top.props, x) \in Seq(E)
      <3> HIDE DEF E, x, top
      <3>1. QED
        BY <2>2, <2>4
    <2>6. new \in Scopes(n) /\ new.el = top.el
      <3> DEFINE more == Append(top.props, x)
      <3>1. new = [top EXCEPT !.props = more] /\ more \in Seq(E)
        BY <2>5
      <3>2. top \in [el : 1..n, props : Seq(E)]
        BY <2>3 DEF Scopes
      <3> HIDE DEF more, top, E
      <3>3. [top EXCEPT !.props = more] \in [el : 1..n, props : Seq(E)]
        BY <3>1, <3>2
      <3>4. [top EXCEPT !.props = more].el = top.el
        BY <3>2
      <3>5. QED
        BY <3>1, <3>3, <3>4 DEF Scopes, E
    <2>7. c \in Seq(Scopes(n)) /\ c[Len(c)].el = new.el
      BY <2>6
    <2> DEFINE S == Scopes(n)
    <2>8. d \in Seq(S) /\ Len(d) = Len(c) /\ \A i \in 1..Len(c) : d[i].el = c[i].el
      <3>1. new \in S /\ c \in Seq(S)
        BY <2>6
      <3> HIDE DEF d, new, top, S
      <3>2. QED
        BY <2>1, <2>3, <2>7, <3>1
    <2>9. QED
      BY <2>8
  <1>3. QED
    BY <1>1, <1>2

\* A set of positions that is not empty has a greatest element.
LEMMA MaxFacts ==
    ASSUME NEW n \in Nat, NEW I, I \subseteq 1..n, I # {}
    PROVE  Max(I) \in I /\ \A y \in I : Max(I) >= y
  <1> DEFINE J == {n - i : i \in I}
  <1>1. J \subseteq Nat /\ J # {}
    <2>1. \A i \in I : n - i \in Nat /\ n - i \in J
      OBVIOUS
    <2>2. QED
      BY <2>1
  <1>2. PICK j \in J : \A k \in J : j <= k
    <2> HIDE DEF J
    <2>1. Min(J) \in J /\ \A k \in J : Min(J) <= k
      BY <1>1, MinFacts
    <2>2. QED
      BY <2>1
  <1>3. PICK i \in I : j = n - i
    BY <1>2
  <1>4. ASSUME NEW k \in I PROVE i >= k
    <2>1. j <= n - k
      BY <1>2
    <2>2. QED
      BY <1>3, <2>1
  <1>5. \E x \in I : \A y \in I : x >= y
    BY <1>3, <1>4
  <1>6. QED
    BY <1>5, Zenon DEF Max

-------------------------------------------------------------------------------
(* The two stacks. *)

\* The elements of the entries of a stack.
Els(c) == {c[i].el : i \in 1..Len(c)}

\* The elements of the frames that opened a scope.
Opened(c) == {c[i].el : i \in {j \in 1..Len(c) : c[j].opened_scope}}

\* The parser of a document with n nodes is in a state in which the open scopes
\* are those of the frames that opened one.
Agree(s, n) ==
    /\ s \in Parsers(n)
    /\ IsRising(s.stack)
    /\ IsRising(s.scopes)
    /\ Els(s.scopes) = Opened(s.stack)

\* The stack without its last entry.
LEMMA FrontFacts ==
    ASSUME NEW S, NEW c \in Seq(S), c # <<>>
    PROVE  /\ Last(c) = c[Len(c)]
           /\ Len(c) \in 1..Len(c)
           /\ Last(c) \in S
           /\ Front(c) \in Seq(S)
           /\ Len(Front(c)) = Len(c) - 1
           /\ \A i \in 1..(Len(c) - 1) : Front(c)[i] = c[i]
  <1>1. Len(c) \in Nat /\ Len(c) # 0
    OBVIOUS
  <1>2. Last(c) = c[Len(c)] /\ Len(c) \in 1..Len(c) /\ Last(c) \in S
    BY <1>1 DEF Last
  <1>3. Front(c) = SubSeq(c, 1, Len(c) - 1)
    BY DEF Front
  <1>4. \A i \in 1..(Len(c) - 1) : i \in 1..Len(c) /\ c[i] \in S
    BY <1>1
  <1>5. Len(Front(c)) = Len(c) - 1 /\ \A i \in 1..(Len(c) - 1) : Front(c)[i] = c[i]
    <2> DEFINE m == Len(c) - 1
    <2>1. m \in Nat /\ c \in Seq(S) /\ \A i \in 1..m : i \in 1..Len(c)
      BY <1>1
    <2> HIDE DEF m
    <2>2. Len(SubSeq(c, 1, m)) = m
      BY <2>1
    <2>3. \A i \in 1..m : SubSeq(c, 1, m)[i] = c[i]
      BY <2>1
    <2>4. QED
      BY <1>3, <2>2, <2>3 DEF m
  <1>6. Front(c) \in Seq(S)
    BY <1>1, <1>3, <1>4
  <1>7. QED
    BY <1>2, <1>5, <1>6

\* Entries of the same elements are as much in order.
LEMMA SameElements ==
    ASSUME NEW c, NEW d, Len(c) = Len(d), \A i \in 1..Len(c) : d[i].el = c[i].el
    PROVE  /\ IsRising(c) => IsRising(d)
           /\ Els(c) = Els(d)
  BY DEF IsRising, Els

\* In a rising stack the last element is the greatest, and it goes with its entry.
LEMMA RisingFront ==
    ASSUME NEW S, NEW c \in Seq(S), c # <<>>, IsRising(c), \A i \in 1..Len(c) : c[i].el \in Nat
    PROVE  /\ IsRising(Front(c))
           /\ Last(c).el \in Els(c)
           /\ \A x \in Els(c) : x <= Last(c).el
           /\ Els(Front(c)) = Els(c) \ {Last(c).el}
           /\ Opened(Front(c)) = Opened(c) \ {Last(c).el}
           /\ Opened(c) \subseteq Els(c)
           /\ Last(c).opened_scope => Last(c).el \in Opened(c)
           /\ ~Last(c).opened_scope => Last(c).el \notin Opened(c)
  <1> DEFINE k == Len(c)
             f == Front(c)
  <1>1. k \in 1..k /\ Last(c) = c[k] /\ Len(f) = k - 1 /\ \A i \in 1..(k - 1) : f[i] = c[i]
    BY FrontFacts
  <1>2. k \in Nat /\ \A i, j \in 1..k : i < j => c[i].el < c[j].el
    BY DEF IsRising
  <1>3. \A i \in 1..(k - 1) : c[i].el # c[k].el
    BY <1>1, <1>2
  <1> HIDE DEF k, f
  <1>4. IsRising(f)
    BY <1>1, <1>2 DEF IsRising
  <1>5. Els(f) = Els(c) \ {Last(c).el}
    BY <1>1, <1>2, <1>3 DEF Els, k
  <1>6. Opened(f) = Opened(c) \ {Last(c).el}
    BY <1>1, <1>2, <1>3 DEF Opened, k
  <1>7. Last(c).el \in Els(c) /\ \A x \in Els(c) : x <= Last(c).el
    BY <1>1, <1>2 DEF Els, k
  <1>8. Opened(c) \subseteq Els(c)
    BY DEF Opened, Els
  <1>9. Last(c).opened_scope => Last(c).el \in Opened(c)
    BY <1>1 DEF Opened, k
  <1>10. ~Last(c).opened_scope => Last(c).el \notin Opened(c)
    BY <1>1, <1>2, <1>3 DEF Opened, k
  <1>11. QED
    BY <1>4, <1>5, <1>6, <1>7, <1>8, <1>9, <1>10 DEF f

\* What a longer document adds on top of a rising stack.
LEMMA RisingAppend ==
    ASSUME NEW S, NEW c \in Seq(S), IsRising(c), NEW x, NEW n \in Nat, x.el = n + 1,
           \A i \in 1..Len(c) : c[i].el \in 1..n
    PROVE  /\ IsRising(Append(c, x))
           /\ Els(Append(c, x)) = Els(c) \cup {x.el}
           /\ x.opened_scope => Opened(Append(c, x)) = Opened(c) \cup {x.el}
           /\ ~x.opened_scope => Opened(Append(c, x)) = Opened(c)
  <1> DEFINE k == Len(c)
             d == Append(c, x)
  <1>1. k \in Nat /\ Len(d) = k + 1 /\ d[k + 1] = x /\ \A i \in 1..k : d[i] = c[i]
    OBVIOUS
  <1>2. \A i, j \in 1..k : i < j => c[i].el < c[j].el
    BY DEF IsRising
  <1>3. \A i \in 1..k : c[i].el < n + 1
    OBVIOUS
  <1> HIDE DEF k, d
  <1>4. 1..(k + 1) = (1..k) \cup {k + 1}
    BY <1>1
  <1>5. IsRising(d)
    <2> SUFFICES ASSUME NEW i \in 1..(k + 1), NEW j \in 1..(k + 1), i < j
                 PROVE  d[i].el < d[j].el
      BY <1>1 DEF IsRising
    <2>1. CASE j \in 1..k
      BY <1>1, <1>2, <2>1
    <2>2. CASE j = k + 1
      BY <1>1, <1>3, <2>2 DEF k
    <2>3. QED
      BY <1>4, <2>1, <2>2
  <1>6. Els(d) = Els(c) \cup {x.el}
    BY <1>1, <1>4 DEF Els, k
  <1>7. x.opened_scope => Opened(d) = Opened(c) \cup {x.el}
    BY <1>1, <1>4 DEF Opened, k
  <1>8. ~x.opened_scope => Opened(d) = Opened(c)
    BY <1>1, <1>4 DEF Opened, k
  <1>9. QED
    BY <1>5, <1>6, <1>7, <1>8 DEF d

\* Adding a value changes no scope's element.
LEMMA AddKeepsScopes ==
    ASSUME NEW n \in Nat, NEW c \in Seq(Scopes(n)), NEW prop \in Props,
           NEW value \in Values(n) \cup {NoValue}
    PROVE  /\ Add(c, prop, value) \in Seq(Scopes(n))
           /\ IsRising(c) => IsRising(Add(c, prop, value))
           /\ Els(Add(c, prop, value)) = Els(c)
  <1> DEFINE d == Add(c, prop, value)
  <1>1. d \in Seq(Scopes(n)) /\ Len(d) = Len(c) /\ \A i \in 1..Len(c) : d[i].el = c[i].el
    BY AddFacts
  <1> HIDE DEF d
  <1>2. (IsRising(c) => IsRising(d)) /\ Els(c) = Els(d)
    BY <1>1, SameElements, Zenon
  <1>3. QED
    BY <1>1, <1>2 DEF d

-------------------------------------------------------------------------------
(* Every handler keeps the stacks in agreement. *)

\* The entries of both stacks belong to nodes of the document.
LEMMA StackElements ==
    ASSUME NEW n \in Nat, NEW s \in Parsers(n)
    PROVE  /\ \A i \in 1..Len(s.stack) : s.stack[i] \in Frames(n) /\ s.stack[i].el \in 1..n
           /\ \A i \in 1..Len(s.scopes) : s.scopes[i] \in Scopes(n) /\ s.scopes[i].el \in 1..n
  <1>1. s.stack \in Seq(Frames(n)) /\ s.scopes \in Seq(Scopes(n))
    BY DEF Parsers
  <1>2. \A f \in Frames(n) : f.el \in 1..n
    BY DEF Frames
  <1>3. \A c \in Scopes(n) : c.el \in 1..n
    BY DEF Scopes
  <1>4. QED
    BY <1>1, <1>2, <1>3

\* A start tag, of the next node of the document.
LEMMA StartTagAgrees ==
    ASSUME NEW n \in Nat, NEW s, Agree(s, n), NEW e \in Elements
    PROVE  Agree(HandleStartTag(s, n + 1, e.kind, e.prop), n + 1)
  <1> DEFINE el == n + 1
             t == HandleStartTag(s, el, e.kind, e.prop)
             V == Value(el, {})
             C == Add(s.scopes, e.prop, V)
  <1>1. s \in Parsers(el) /\ el \in Nat /\ el \in 1..el
    BY Monotone DEF Agree
  <1>2. /\ s = [stack |-> s.stack, scopes |-> s.scopes, items |-> s.items]
        /\ s.stack \in Seq(Frames(el)) /\ s.scopes \in Seq(Scopes(el)) /\ s.items \in Seq(Scopes(el))
        /\ s.stack \in Seq(Frames(n)) /\ s.scopes \in Seq(Scopes(n))
    BY <1>1 DEF Agree, Parsers
  <1>3. IsRising(s.stack) /\ IsRising(s.scopes) /\ Els(s.scopes) = Opened(s.stack)
    BY DEF Agree
  <1>4. e.kind \in Kinds /\ e.prop \in Itemprops /\ V \in Values(el)
    BY <1>1 DEF Elements, Value, Values
  <1>5. ASSUME e.prop \in Props
        PROVE  C \in Seq(Scopes(el)) /\ IsRising(C) /\ Els(C) = Els(s.scopes)
    BY <1>1, <1>2, <1>3, <1>4, <1>5, AddKeepsScopes
  <1>6. ASSUME NEW f \in Frames(el), f.el = el, NEW c \in Seq(Scopes(el)), IsRising(c),
               Els(c) = IF f.opened_scope THEN Els(s.scopes) \cup {el} ELSE Els(s.scopes)
        PROVE  Agree([stack |-> Append(s.stack, f), scopes |-> c, items |-> s.items], el)
    <2> DEFINE stack == Append(s.stack, f)
    <2>1. \A i \in 1..Len(s.stack) : s.stack[i].el \in 1..n
      BY StackElements DEF Agree
    <2>2. /\ IsRising(stack)
          /\ Opened(stack) = IF f.opened_scope THEN Opened(s.stack) \cup {el} ELSE Opened(s.stack)
      BY <1>2, <1>3, <1>6, <2>1, RisingAppend
    <2>3. stack \in Seq(Frames(el))
      BY <1>2, <1>6
    <2>4. Els(c) = Opened(stack)
      BY <1>3, <1>6, <2>2
    <2> DEFINE u == [stack |-> stack, scopes |-> c, items |-> s.items]
    <2>5. u \in Parsers(el) /\ u.stack = stack /\ u.scopes = c
      BY <1>2, <1>6, <2>3 DEF Parsers
    <2> HIDE DEF u, stack
    <2>6. Agree(u, el)
      BY <1>6, <2>2, <2>4, <2>5 DEF Agree
    <2>7. QED
      BY <2>6 DEF u, stack
  <1>7. CASE e.kind = "void"
    <2>1. e.prop \in Props \/ e.prop = NoProp
      BY <1>4 DEF Itemprops
    <2>2. NoProp \notin Props
      BY DEF Props, NoProp
    <2>3. CASE e.prop \in Props
      <3>1. t = [stack |-> s.stack, scopes |-> C, items |-> s.items]
        BY <1>2, <1>7, <2>2, <2>3 DEF HandleStartTag, HandleVoidTag
      <3>2. C \in Seq(Scopes(el)) /\ IsRising(C) /\ Els(C) = Els(s.scopes)
        BY <1>5, <2>3
      <3> HIDE DEF C, t
      <3>3. t \in Parsers(el) /\ t.stack = s.stack /\ t.scopes = C
        BY <1>2, <3>1, <3>2 DEF Parsers
      <3>4. Agree(t, el)
        BY <1>3, <3>2, <3>3 DEF Agree
      <3>5. QED
        BY <3>4 DEF t
    <2>4. CASE e.prop = NoProp
      <3>1. t = s
        BY <1>2, <1>7, <2>4 DEF HandleStartTag, HandleVoidTag
      <3>2. QED
        BY <1>1, <1>3, <3>1 DEF Agree
    <2>5. QED
      BY <2>1, <2>3, <2>4
  <1>8. CASE e.kind = "scope"
    <2> DEFINE f == Frame(el, TRUE, e.prop, NoProp)
               x == [el |-> el, props |-> <<>>]
               c == Append(s.scopes, x)
    <2>1. t = [stack |-> Append(s.stack, f), scopes |-> c, items |-> s.items]
      BY <1>2, <1>8 DEF HandleStartTag, HandleScopedTag
    <2>2. f \in Frames(el) /\ f.el = el /\ f.opened_scope
      BY <1>1, <1>4 DEF Frames, Frame, Itemprops
    <2>3. x \in Scopes(el) /\ x.el = el
      BY <1>1 DEF Scopes
    <2>4. \A i \in 1..Len(s.scopes) : s.scopes[i].el \in 1..n
      BY StackElements DEF Agree
    <2>5. IsRising(c) /\ Els(c) = Els(s.scopes) \cup {el}
      <3> HIDE DEF x
      <3>1. QED
        BY <1>2, <1>3, <2>3, <2>4, RisingAppend
    <2>6. c \in Seq(Scopes(el))
      BY <1>2, <2>3
    <2> HIDE DEF f, c, t
    <2>7. Agree(t, el)
      BY <1>6, <2>1, <2>2, <2>5, <2>6
    <2>8. QED
      BY <2>7 DEF t
  <1>9. CASE e.kind = "attribute"
    <2> DEFINE f == Frame(el, FALSE, NoProp, NoProp)
    <2>1. t = [stack |-> Append(s.stack, f), scopes |-> C, items |-> s.items]
      BY <1>2, <1>9 DEF HandleStartTag, HandleScopedTag
    <2>2. f \in Frames(el) /\ f.el = el /\ ~f.opened_scope
      BY <1>1 DEF Frames, Frame, Itemprops
    <2>3. e.prop \in Props
      BY <1>4, <1>9 DEF Elements, Itemprops
    <2>4. C \in Seq(Scopes(el)) /\ IsRising(C) /\ Els(C) = Els(s.scopes)
      BY <1>5, <2>3
    <2> HIDE DEF f, C, t
    <2>5. Agree(t, el)
      BY <1>6, <2>1, <2>2, <2>4
    <2>6. QED
      BY <2>5 DEF t
  <1>10. CASE e.kind \in {"text_value", "plain"}
    <2> DEFINE f == Frame(el, FALSE, NoProp, IF e.kind = "plain" THEN NoProp ELSE e.prop)
    <2>1. t = [stack |-> Append(s.stack, f), scopes |-> s.scopes, items |-> s.items]
      BY <1>2, <1>10 DEF HandleStartTag, HandleScopedTag
    <2>2. f \in Frames(el) /\ f.el = el /\ ~f.opened_scope
      BY <1>1, <1>4 DEF Frames, Frame, Itemprops
    <2> HIDE DEF f, t
    <2>3. Agree(t, el)
      BY <1>2, <1>3, <1>6, <2>1, <2>2
    <2>4. QED
      BY <2>3 DEF t
  <1>11. QED
    BY <1>4, <1>7, <1>8, <1>9, <1>10 DEF Kinds

\* Text changes no element of the stack.
LEMMA DataAgrees ==
    ASSUME NEW n \in Nat, NEW s, Agree(s, n), NEW piece \in 1..n
    PROVE  Agree(HandleData(s, piece), n)
  <1> DEFINE I == {i \in 1..Len(s.stack) : Captures(s.stack[i])}
             i == IF I # {} THEN Max(I) ELSE 0
             t == HandleData(s, piece)
  <1>1. i = SelectLastInSeq(s.stack, Captures)
    BY DEF SelectLastInSeq
  <1>2. t = IF i = 0 THEN s ELSE [s EXCEPT !.stack[i].capture_parts = @ \cup {piece}]
    BY <1>1 DEF HandleData
  <1>3. /\ s.stack \in Seq(Frames(n)) /\ s.scopes \in Seq(Scopes(n)) /\ s.items \in Seq(Scopes(n))
        /\ s = [stack |-> s.stack, scopes |-> s.scopes, items |-> s.items]
        /\ IsRising(s.stack) /\ IsRising(s.scopes) /\ Els(s.scopes) = Opened(s.stack)
    BY DEF Agree, Parsers
  <1>4. i = 0 \/ i \in 1..Len(s.stack)
    <2>1. Len(s.stack) \in Nat
      BY <1>3
    <2>2. I \subseteq 1..Len(s.stack)
      OBVIOUS
    <2> HIDE DEF I
    <2>3. QED
      BY <2>1, <2>2, MaxFacts
  <1> HIDE DEF i, t, I
  <1>5. CASE i = 0
    BY <1>2, <1>5 DEF t
  <1>6. CASE i # 0
    <2> DEFINE top == s.stack[i]
               more == top.capture_parts \cup {piece}
               new == [top EXCEPT !.capture_parts = more]
               stack == [s.stack EXCEPT ![i] = new]
    <2>1. top \in Frames(n) /\ i \in 1..Len(s.stack)
      BY <1>3, <1>4, <1>6
    <2>2. more \in SUBSET (1..n)
      BY <2>1 DEF Frames
    <2>3. new \in Frames(n) /\ new.el = top.el /\ new.opened_scope = top.opened_scope
      <3> HIDE DEF more, top
      <3>1. [top EXCEPT !.capture_parts = more] \in Frames(n)
        BY <2>1, <2>2 DEF Frames
      <3>2. [top EXCEPT !.capture_parts = more].el = top.el
        BY <2>1 DEF Frames
      <3>3. [top EXCEPT !.capture_parts = more].opened_scope = top.opened_scope
        BY <2>1, Zenon DEF Frames
      <3>4. QED
        BY <3>1, <3>2, <3>3
    <2>4. t = [stack |-> stack, scopes |-> s.scopes, items |-> s.items]
      <3>1. t = [s EXCEPT !.stack = stack]
        BY <1>2, <1>6, Zenon
      <3> HIDE DEF stack
      <3>2. QED
        BY <1>3, <3>1
    <2>5. stack \in Seq(Frames(n)) /\ Len(stack) = Len(s.stack)
      <3> HIDE DEF new
      <3>1. QED
        BY <1>3, <2>1, <2>3
    <2>6. \A j \in 1..Len(s.stack) : stack[j].el = s.stack[j].el
      <3> HIDE DEF new
      <3>1. QED
        BY <1>3, <2>1, <2>3
    <2>7. \A j \in 1..Len(s.stack) : stack[j].opened_scope = s.stack[j].opened_scope
      <3> HIDE DEF new
      <3>1. \A j \in 1..Len(s.stack) : stack[j] = IF j = i THEN new ELSE s.stack[j]
        BY <1>3, <2>1
      <3> HIDE DEF stack
      <3>2. QED
        BY <2>3, <3>1, Zenon
    <2> HIDE DEF stack
    <2>8. IsRising(stack)
      BY <1>3, <2>5, <2>6, SameElements
    <2>9. Opened(stack) = Opened(s.stack)
      <3>1. {j \in 1..Len(stack) : stack[j].opened_scope}
              = {j \in 1..Len(s.stack) : s.stack[j].opened_scope}
        BY <2>5, <2>7
      <3>2. QED
        BY <2>6, <3>1 DEF Opened
    <2>10. t \in Parsers(n) /\ t.stack = stack /\ t.scopes = s.scopes
      BY <1>3, <2>4, <2>5 DEF Parsers
    <2>11. QED
      BY <1>3, <2>8, <2>9, <2>10 DEF Agree, t
  <1>7. QED
    BY <1>5, <1>6 DEF t

\* A value captured or resolved at the end of an element is one of the document.
LEMMA CollectedAgrees ==
    ASSUME NEW n \in Nat, NEW s, Agree(s, n), s.stack # <<>>
    PROVE  /\ Collected(s) \in Seq(Scopes(n))
           /\ IsRising(Collected(s))
           /\ Els(Collected(s)) = Els(s.scopes)
  <1> DEFINE frame == Last(s.stack)
             v == Value(frame.el, frame.capture_parts)
  <1>1. s.stack \in Seq(Frames(n)) /\ s.scopes \in Seq(Scopes(n)) /\ IsRising(s.scopes)
    BY DEF Agree, Parsers
  <1>2. frame \in Frames(n)
    BY <1>1, FrontFacts
  <1>3. v \in Values(n) /\ frame.capture_prop \in Itemprops
    BY <1>2 DEF Frames, Value, Values
  <1> HIDE DEF frame, v
  <1>4. CASE Captures(frame)
    <2>1. Collected(s) = Add(s.scopes, frame.capture_prop, v)
      BY <1>4 DEF Collected, frame, v
    <2>2. frame.capture_prop \in Props
      BY <1>3, <1>4 DEF Captures, Itemprops
    <2>3. QED
      BY <1>1, <1>3, <2>1, <2>2, AddKeepsScopes
  <1>5. CASE ~Captures(frame)
    BY <1>1, <1>5 DEF Collected, frame
  <1>6. QED
    BY <1>4, <1>5

\* An end tag.
LEMMA EndTagAgrees ==
    ASSUME NEW n \in Nat, NEW s, Agree(s, n)
    PROVE  Agree(HandleEndTag(s), n)
  <1> DEFINE frame == Last(s.stack)
             scope == Last(s.scopes)
             F == Front(s.stack)
             G == Front(s.scopes)
             t == HandleEndTag(s)
  <1>1. /\ s.stack \in Seq(Frames(n)) /\ s.scopes \in Seq(Scopes(n)) /\ s.items \in Seq(Scopes(n))
        /\ s = [stack |-> s.stack, scopes |-> s.scopes, items |-> s.items]
        /\ IsRising(s.stack) /\ IsRising(s.scopes) /\ Els(s.scopes) = Opened(s.stack)
    BY DEF Agree, Parsers
  <1>2. /\ \A i \in 1..Len(s.stack) : s.stack[i].el \in Nat
        /\ \A i \in 1..Len(s.scopes) : s.scopes[i].el \in Nat
    BY StackElements DEF Agree
  <1>3. CASE s.stack = <<>>
    BY <1>3 DEF HandleEndTag
  <1>4. CASE s.stack # <<>>
    <2>1. /\ frame \in Frames(n) /\ F \in Seq(Frames(n)) /\ IsRising(F)
          /\ \A x \in Opened(s.stack) : x <= frame.el
          /\ Opened(F) = Opened(s.stack) \ {frame.el}
          /\ frame.opened_scope => frame.el \in Opened(s.stack)
          /\ ~frame.opened_scope => frame.el \notin Opened(s.stack)
      <3>1. frame \in Frames(n) /\ F \in Seq(Frames(n))
        BY <1>1, <1>4, FrontFacts
      <3>2. /\ IsRising(F) /\ \A x \in Els(s.stack) : x <= frame.el
            /\ Opened(F) = Opened(s.stack) \ {frame.el} /\ Opened(s.stack) \subseteq Els(s.stack)
            /\ frame.opened_scope => frame.el \in Opened(s.stack)
            /\ ~frame.opened_scope => frame.el \notin Opened(s.stack)
        BY <1>1, <1>2, <1>4, RisingFront
      <3>3. QED
        BY <3>1, <3>2
    <2>2. ASSUME NEW c \in Seq(Scopes(n)), IsRising(c), Els(c) = Opened(F),
                 NEW items \in Seq(Scopes(n))
          PROVE  Agree([stack |-> F, scopes |-> c, items |-> items], n)
      <3> DEFINE u == [stack |-> F, scopes |-> c, items |-> items]
      <3> HIDE DEF F
      <3>1. u \in Parsers(n) /\ u.stack = F /\ u.scopes = c
        BY <2>1, <2>2 DEF Parsers
      <3> HIDE DEF u
      <3>2. Agree(u, n)
        BY <2>1, <2>2, <3>1 DEF Agree
      <3>3. QED
        BY <3>2 DEF u
    <2>3. CASE ~frame.opened_scope
      <3> DEFINE C == Collected(s)
      <3>1. t = [s EXCEPT !.stack = F, !.scopes = C]
        BY <1>4, <2>3 DEF HandleEndTag
      <3>2. C \in Seq(Scopes(n)) /\ IsRising(C) /\ Els(C) = Els(s.scopes)
        BY <1>4, CollectedAgrees
      <3>3. Els(C) = Opened(F)
        BY <1>1, <2>1, <2>3, <3>2
      <3> HIDE DEF C, F, t
      <3>4. t = [stack |-> F, scopes |-> C, items |-> s.items]
        BY <1>1, <3>1
      <3>5. Agree(t, n)
        BY <1>1, <2>2, <3>2, <3>3, <3>4
      <3>6. QED
        BY <3>5 DEF t
    <2>4. CASE frame.opened_scope
      <3>1. frame.el \in Els(s.scopes) /\ s.scopes # <<>>
        <4>1. frame.el \in Els(s.scopes)
          BY <1>1, <2>1, <2>4
        <4>2. QED
          BY <4>1 DEF Els
      <3>2. /\ scope \in Scopes(n) /\ G \in Seq(Scopes(n)) /\ IsRising(G)
            /\ scope.el \in Els(s.scopes) /\ \A x \in Els(s.scopes) : x <= scope.el
            /\ Els(G) = Els(s.scopes) \ {scope.el}
        BY <1>1, <1>2, <3>1, FrontFacts, RisingFront
      <3>3. scope.el = frame.el
        <4>1. scope.el <= frame.el /\ frame.el <= scope.el
          BY <1>1, <2>1, <3>1, <3>2
        <4>2. scope.el \in Nat /\ frame.el \in Nat
          BY <2>1, <3>2 DEF Frames, Scopes
        <4> HIDE DEF scope, frame
        <4>3. QED
          BY <4>1, <4>2
      <3>4. Els(G) = Opened(F)
        BY <1>1, <2>1, <3>2, <3>3
      <3> DEFINE V == Resolve(scope.props)
                 A == Add(G, frame.nested_prop, V)
                 c == IF frame.nested_prop = NoProp THEN G ELSE A
                 items == IF frame.nested_prop = NoProp THEN Append(s.items, scope) ELSE s.items
      <3>5. t = [stack |-> F, scopes |-> c, items |-> items]
        BY <1>4, <2>4 DEF HandleEndTag
      <3>6. V \in Values(n) \cup {NoValue}
        <4>1. scope.props \in Seq([prop : Props, value : Values(n)])
          BY <3>2 DEF Scopes
        <4>2. QED
          BY <4>1, ResolveFacts
      <3>7. frame.nested_prop # NoProp => frame.nested_prop \in Props
        BY <2>1 DEF Frames, Itemprops
      <3> HIDE DEF V, G, F, frame, scope, t
      <3>8. c \in Seq(Scopes(n)) /\ IsRising(c) /\ Els(c) = Opened(F)
        <4>1. CASE frame.nested_prop = NoProp
          BY <3>2, <3>4, <4>1
        <4>2. CASE frame.nested_prop # NoProp
          <5>1. A \in Seq(Scopes(n)) /\ IsRising(A) /\ Els(A) = Els(G)
            BY <3>2, <3>6, <3>7, <4>2, AddKeepsScopes
          <5>2. QED
            BY <3>4, <4>2, <5>1
        <4>3. QED
          BY <4>1, <4>2
      <3>9. items \in Seq(Scopes(n))
        BY <1>1, <3>2
      <3> HIDE DEF c, items
      <3>10. Agree(t, n)
        BY <2>2, <3>5, <3>8, <3>9
      <3>11. QED
        BY <3>10 DEF t
    <2>5. QED
      BY <2>3, <2>4
  <1>5. QED
    BY <1>3, <1>4

-------------------------------------------------------------------------------
(* The specification. *)

\* The inductive invariant: the stacks agree about the nodes there are.
StacksAgree ==
    /\ Agree(parser, Len(doc))
    /\ doc \in Seq(Nodes)
    /\ open \in Seq(Nat)

LEMMA InitAgrees == Init => StacksAgree
  <1> SUFFICES ASSUME Init PROVE StacksAgree
    OBVIOUS
  <1>1. doc = <<>> /\ open = <<>> /\ parser = [stack |-> <<>>, scopes |-> <<>>, items |-> <<>>]
    BY DEF Init
  <1>2. Len(doc) = 0 /\ doc \in Seq(Nodes) /\ open \in Seq(Nat)
    BY <1>1
  <1>3. parser \in Parsers(0)
    BY <1>1 DEF Parsers
  <1>4. IsRising(<<>>) /\ Els(<<>>) = {} /\ Opened(<<>>) = {}
    BY DEF IsRising, Els, Opened
  <1>5. QED
    BY <1>1, <1>2, <1>3, <1>4 DEF StacksAgree, Agree

\* A new node makes the document one longer.
LEMMA DocGrows ==
    ASSUME doc \in Seq(Nodes), open \in Seq(Nat), NEW kind \in Kinds \cup {"text"},
           NEW prop \in Itemprops, doc' = Append(doc, Node([kind |-> kind, prop |-> prop]))
    PROVE  doc' \in Seq(Nodes) /\ Len(doc') = Len(doc) + 1 /\ Len(doc) \in Nat
  <1> DEFINE node == Node([kind |-> kind, prop |-> prop])
  <1>1. ToSet(open) \in SUBSET Nat
    BY DEF ToSet
  <1>2. node \in Nodes
    BY <1>1 DEF Node, Nodes
  <1> HIDE DEF node
  <1>3. Append(doc, node) \in Seq(Nodes) /\ Len(Append(doc, node)) = Len(doc) + 1
    BY <1>2
  <1>4. QED
    BY <1>3 DEF node

LEMMA GrowFacts ==
    ASSUME StacksAgree, NEW e \in Elements, Grow(e)
    PROVE  /\ doc' \in Seq(Nodes) /\ open' \in Seq(Nat)
           /\ Len(doc') = Len(doc) + 1 /\ Len(doc) \in Nat
           /\ Agree(HandleStartTag(parser, Len(doc) + 1, e.kind, e.prop), Len(doc'))
  <1>1. e.kind \in Kinds /\ e.prop \in Itemprops
    BY DEF Elements
  <1>2. doc \in Seq(Nodes) /\ open \in Seq(Nat) /\ doc' = Append(doc, Node(e))
    BY DEF StacksAgree, Grow
  <1>3. Node(e) = Node([kind |-> e.kind, prop |-> e.prop])
    BY DEF Node
  <1>4. doc' \in Seq(Nodes) /\ Len(doc') = Len(doc) + 1 /\ Len(doc) \in Nat
    BY <1>1, <1>2, <1>3, DocGrows
  <1>5. open' \in Seq(Nat)
    BY <1>2, <1>4 DEF Grow
  <1>6. Agree(HandleStartTag(parser, Len(doc) + 1, e.kind, e.prop), Len(doc) + 1)
    BY <1>4, StartTagAgrees DEF StacksAgree
  <1>7. QED
    BY <1>4, <1>5, <1>6

LEMMA NextAgrees ==
    ASSUME StacksAgree, [Next]_vars
    PROVE  StacksAgree'
  <1>0. Agree(parser, Len(doc)) /\ doc \in Seq(Nodes) /\ open \in Seq(Nat) /\ Len(doc) \in Nat
    BY DEF StacksAgree
  <1>1. ASSUME NEW e \in Elements, StartTag(e) PROVE StacksAgree'
    BY <1>1, GrowFacts DEF StartTag, StacksAgree
  <1>2. ASSUME NEW e \in Elements, SlashedTag(e) PROVE StacksAgree'
    <2> DEFINE s == HandleStartTag(parser, Len(doc) + 1, e.kind, e.prop)
    <2>1. Grow(e) /\ parser' = HandleEndTag(s)
      BY <1>2 DEF SlashedTag
    <2>2. doc' \in Seq(Nodes) /\ open' \in Seq(Nat) /\ Len(doc') \in Nat /\ Agree(s, Len(doc'))
      BY <2>1, GrowFacts
    <2> HIDE DEF s
    <2>3. Agree(HandleEndTag(s), Len(doc'))
      BY <2>2, EndTagAgrees
    <2>4. QED
      BY <2>1, <2>2, <2>3 DEF StacksAgree
  <1>3. CASE Text
    <2>1. /\ doc' = Append(doc, Node([kind |-> "text", prop |-> NoProp])) /\ open' = open
          /\ parser' = HandleData(parser, Len(doc) + 1)
      BY <1>3 DEF Text
    <2>2. doc' \in Seq(Nodes) /\ Len(doc') = Len(doc) + 1
      BY <1>0, <2>1, DocGrows DEF Itemprops
    <2>3. Agree(parser, Len(doc) + 1)
      <3>1. parser \in Parsers(Len(doc) + 1)
        BY <1>0, Monotone DEF Agree
      <3>2. QED
        BY <1>0, <3>1 DEF Agree
    <2>4. Agree(parser', Len(doc'))
      BY <1>0, <2>1, <2>2, <2>3, DataAgrees
    <2>5. QED
      BY <1>0, <2>1, <2>2, <2>4 DEF StacksAgree
  <1>4. ASSUME NEW k \in Nat, Close(k), parser' \in {parser, HandleEndTag(parser)} PROVE StacksAgree'
    <2>1. /\ k \in 1..Len(open) /\ open' = SubSeq(open, 1, Len(open) - k)
          /\ parser' \in {parser, HandleEndTag(parser)} /\ doc' = doc
      BY <1>4 DEF Close
    <2>2. open' \in Seq(Nat)
      BY <1>0, <2>1
    <2>3. Agree(parser', Len(doc))
      <3>1. Agree(HandleEndTag(parser), Len(doc)) /\ Agree(parser, Len(doc))
        BY <1>0, EndTagAgrees
      <3>2. QED
        BY <2>1, <3>1, Zenon
    <2>4. QED
      BY <1>0, <2>1, <2>2, <2>3 DEF StacksAgree
  <1>5. CASE EndTag
    BY <1>4, <1>5 DEF EndTag
  <1>6. ASSUME NEW k, OmittedEndTags(k) PROVE StacksAgree'
    <2>1. Close(k) /\ k \in 1..Len(open) /\ parser' = HandleEndTag(parser)
      BY <1>6 DEF OmittedEndTags, Close
    <2>2. k \in Nat
      BY <1>0, <2>1
    <2>3. QED
      BY <1>4, <2>1, <2>2
  <1>a. ASSUME NEW k, ImpliedEnds(k) PROVE StacksAgree'
    <2>1. Close(k) /\ k \in 1..Len(open) /\ parser' = parser
      BY <1>a DEF ImpliedEnds, Close
    <2>2. k \in Nat
      BY <1>0, <2>1
    <2>3. QED
      BY <1>4, <2>1, <2>2
  <1>7. CASE StrayEndTag
    <2>1. parser' = HandleEndTag(parser) /\ doc' = doc /\ open' = open
      BY <1>7 DEF StrayEndTag
    <2>2. QED
      BY <1>0, <2>1, EndTagAgrees DEF StacksAgree
  <1>8. CASE UNCHANGED vars
    BY <1>8 DEF vars, documentVars, StacksAgree
  <1>9. QED
    BY <1>1, <1>2, <1>3, <1>5, <1>6, <1>7, <1>8, <1>a DEF Next

(***************************************************************************)
(* For documents of any length, with any tags in any order: the open       *)
(* scopes of the parser are those of the frames that opened one, in the    *)
(* same order, so that handle_endtag never pops from an empty list.        *)
(***************************************************************************)
THEOREM ScopesAlwaysFollowFrames == Spec => []ScopesFollowFrames
  <1>1. StacksAgree => ScopesFollowFrames
    BY DEF StacksAgree, Agree, ScopesFollowFrames, Els, Opened
  <1>2. QED
    BY InitAgrees, NextAgrees, <1>1, PTL DEF Spec

-------------------------------------------------------------------------------
(* Where values are. *)

\* The elements the values of a scope, and of a list of scopes, come from.
Sources(scope) == {scope.props[j].value.of : j \in 1..Len(scope.props)}
AllSources(c) == UNION {Sources(c[i]) : i \in 1..Len(c)}

\* No value of a scope comes from the element of another, or started before it.
OneEach(scope) ==
    /\ \A j, k \in 1..Len(scope.props) :
          scope.props[j].value.of = scope.props[k].value.of => j = k
    /\ \A x \in Sources(scope) : scope.el < x

\* The same of a list, whose scopes share no element.
Clean(c) ==
    /\ \A i \in 1..Len(c) : OneEach(c[i])
    /\ \A i, k \in 1..Len(c) : i # k => Sources(c[i]) \cap Sources(c[k]) = {}

(***************************************************************************)
(* Why no value is used twice: what an open element will give when it ends *)
(* is held by nothing yet, and an element that captures text opens no      *)
(* scope.                                                                  *)
(***************************************************************************)
Unique(s) ==
    /\ Clean(s.scopes) /\ Clean(s.items)
    /\ AllSources(s.scopes) \cap AllSources(s.items) = {}
    /\ \A i \in 1..Len(s.stack) : Captures(s.stack[i]) =>
          /\ ~s.stack[i].opened_scope
          /\ s.stack[i].el \notin AllSources(s.scopes) \cup AllSources(s.items)

LEMMA AllSourcesFacts ==
    ASSUME NEW c, NEW x
    PROVE  x \in AllSources(c) <=> \E i \in 1..Len(c) : x \in Sources(c[i])
  BY Zenon DEF AllSources

LEMMA SourcesAreNodes ==
    ASSUME NEW n \in Nat, NEW c \in Seq(Scopes(n))
    PROVE  /\ \A i \in 1..Len(c) : Sources(c[i]) \subseteq 1..n
           /\ AllSources(c) \subseteq 1..n
  <1>1. ASSUME NEW i \in 1..Len(c)
        PROVE  Sources(c[i]) \subseteq 1..n
    <2> DEFINE E == [prop : Props, value : Values(n)]
               props == c[i].props
    <2>1. props \in Seq(E)
      <3>1. c[i] \in Scopes(n)
        OBVIOUS
      <3>2. QED
        BY <3>1 DEF Scopes
    <2>2. \A e \in E : e.value.of \in 1..n
      BY DEF Values
    <2> HIDE DEF E
    <2>3. \A j \in 1..Len(props) : props[j].value.of \in 1..n
      BY <2>1, <2>2
    <2>4. QED
      BY <2>3 DEF Sources
  <1>2. QED
    BY <1>1 DEF AllSources

\* One more value for a scope.
LEMMA OneMore ==
    ASSUME NEW n \in Nat, NEW scope \in Scopes(n), OneEach(scope), NEW prop \in Props,
           NEW v \in Values(n), v.of \notin Sources(scope), scope.el < v.of,
           NEW new, new = [scope EXCEPT !.props = Append(scope.props, [prop |-> prop, value |-> v])]
    PROVE  OneEach(new) /\ Sources(new) = Sources(scope) \cup {v.of}
  <1> DEFINE E == [prop : Props, value : Values(n)]
             x == [prop |-> prop, value |-> v]
             k == Len(scope.props)
             more == Append(scope.props, x)
  <1>1. scope.props \in Seq(E) /\ x \in E /\ x.value = v /\ scope \in [el : 1..n, props : Seq(E)]
    BY DEF Scopes
  <1>2. more \in Seq(E) /\ Len(more) = k + 1 /\ more[k + 1] = x /\ \A j \in 1..k : more[j] = scope.props[j]
    <2> HIDE DEF E, x
    <2>1. QED
      BY <1>1
  <1>3. new.props = more /\ new.el = scope.el
    <2> HIDE DEF E, x
    <2>1. new = [scope EXCEPT !.props = more]
      BY DEF x
    <2> HIDE DEF more
    <2>2. QED
      BY <1>1, <2>1
  <1>4. k \in Nat
    <2> HIDE DEF E
    <2>1. QED
      BY <1>1
  <1> HIDE DEF more, k
  <1>5. 1..(k + 1) = (1..k) \cup {k + 1}
    BY <1>4
  <1>6. Sources(new) = Sources(scope) \cup {v.of}
    <2>1. \A j \in 1..k : more[j].value.of = scope.props[j].value.of
      BY <1>2
    <2>2. more[k + 1].value.of = v.of
      BY <1>1, <1>2
    <2> HIDE DEF x, E
    <2>3. Sources(new) = {more[j].value.of : j \in 1..(k + 1)}
      BY <1>2, <1>3 DEF Sources
    <2>4. Sources(scope) = {scope.props[j].value.of : j \in 1..k}
      BY DEF Sources, k
    <2>5. {more[j].value.of : j \in 1..(k + 1)}
             = {more[j].value.of : j \in 1..k} \cup {more[k + 1].value.of}
      <3> HIDE DEF x, E
      <3>1. QED
        BY <1>5, Zenon
    <2>6. {more[j].value.of : j \in 1..k} = {scope.props[j].value.of : j \in 1..k}
      BY <2>1, Zenon
    <2>7. QED
      BY <2>2, <2>3, <2>4, <2>5, <2>6, Zenon
  <1>7. \A i, j \in 1..(k + 1) : more[i].value.of = more[j].value.of => i = j
    <2>1. \A j \in 1..k : more[j].value.of = scope.props[j].value.of /\ more[j].value.of # v.of
      BY <1>2 DEF Sources, k
    <2>2. more[k + 1].value.of = v.of
      BY <1>1, <1>2
    <2>3. \A i, j \in 1..k : scope.props[i].value.of = scope.props[j].value.of => i = j
      BY DEF OneEach, k
    <2> HIDE DEF x, E
    <2>4. QED
      BY <1>5, <2>1, <2>2, <2>3
  <1>8. \A y \in Sources(new) : new.el < y
    BY <1>3, <1>6 DEF OneEach
  <1>9. \A i, j \in 1..Len(new.props) :
           new.props[i].value.of = new.props[j].value.of => i = j
    <2>1. Len(more) = k + 1 /\ new.props = more
      BY <1>2, <1>3
    <2> HIDE DEF x, E
    <2>2. QED
      BY <1>7, <2>1
  <1>10. QED
    BY <1>6, <1>8, <1>9, Zenon DEF OneEach

\* Adding a value nothing holds, of an element that started after the innermost
\* scope.
LEMMA AddStaysClean ==
    ASSUME NEW n \in Nat, NEW c \in Seq(Scopes(n)), Clean(c), NEW prop \in Props,
           NEW v \in Values(n) \cup {NoValue},
           v # NoValue => v.of \notin AllSources(c) /\ (c # <<>> => Last(c).el < v.of)
    PROVE  /\ Clean(Add(c, prop, v))
           /\ AllSources(Add(c, prop, v)) \subseteq AllSources(c) \cup ({v.of} \ {0})
  <1> DEFINE d == Add(c, prop, v)
             k == Len(c)
  <1>1. CASE c = <<>> \/ v = NoValue
    BY <1>1 DEF Add
  <1>2. CASE ~(c = <<>> \/ v = NoValue)
    <2> DEFINE top == c[k]
               new == [top EXCEPT !.props = Append(top.props, [prop |-> prop, value |-> v])]
    <2>1. d = [c EXCEPT ![k] = new]
      BY <1>2 DEF Add
    <2>2. top \in Scopes(n) /\ k \in 1..k /\ Last(c) = top /\ v \in Values(n)
      BY <1>2, FrontFacts
    <2>3. OneEach(top) /\ Sources(top) \subseteq AllSources(c) /\ v.of \notin AllSources(c)
      BY <1>2, <2>2 DEF Clean, AllSources
    <2>4. OneEach(new) /\ Sources(new) = Sources(top) \cup {v.of} /\ top.el < v.of
      <3>1. top.el < v.of /\ v.of \notin Sources(top)
        BY <1>2, <2>2, <2>3
      <3> HIDE DEF top
      <3>2. QED
        BY <2>2, <2>3, <3>1, OneMore
    <2>5. v.of \in 1..n
      BY <2>2 DEF Values
    <2> HIDE DEF new
    <2>6. Len(d) = k /\ d[k] = new /\ \A i \in 1..k : i # k => d[i] = c[i]
      BY <2>1, <2>2
    <2> HIDE DEF d, top
    <2>7. \A i \in 1..k : Sources(c[i]) \subseteq AllSources(c)
      BY DEF AllSources
    <2>8. \A i \in 1..Len(d) : OneEach(d[i])
      BY <2>4, <2>6 DEF Clean
    <2>9. \A i, j \in 1..Len(d) : i # j => Sources(d[i]) \cap Sources(d[j]) = {}
      <3>1. \A i, j \in 1..k : i # j => Sources(c[i]) \cap Sources(c[j]) = {}
        BY DEF Clean
      <3>2. \A i \in 1..k : i # k => Sources(c[i]) \cap Sources(new) = {}
        BY <2>2, <2>3, <2>4, <2>7, <3>1 DEF top
      <3>3. QED
        BY <2>6, <3>1, <3>2
    <2>10. AllSources(d) \subseteq AllSources(c) \cup {v.of}
      <3>1. \A i \in 1..k : Sources(d[i]) \subseteq AllSources(c) \cup {v.of}
        BY <2>3, <2>4, <2>6, <2>7
      <3>2. QED
        BY <2>6, <3>1 DEF AllSources
    <2>11. Clean(d)
      BY <2>8, <2>9, Zenon DEF Clean
    <2>12. v.of # 0
      BY <2>5
    <2>13. QED
      BY <2>10, <2>11, <2>12 DEF d
  <1>3. QED
    BY <1>1, <1>2

\* The innermost scope is closed: what it held is nowhere else.
LEMMA FrontStaysClean ==
    ASSUME NEW n \in Nat, NEW c \in Seq(Scopes(n)), c # <<>>, Clean(c)
    PROVE  /\ Clean(Front(c)) /\ OneEach(Last(c))
           /\ AllSources(Front(c)) \subseteq AllSources(c)
           /\ Sources(Last(c)) \subseteq AllSources(c)
           /\ Sources(Last(c)) \cap AllSources(Front(c)) = {}
  <1> DEFINE k == Len(c)
             f == Front(c)
  <1>1. k \in 1..k /\ Last(c) = c[k] /\ Len(f) = k - 1 /\ \A i \in 1..(k - 1) : f[i] = c[i]
    BY FrontFacts
  <1>2. \A i \in 1..(k - 1) : i \in 1..k /\ i # k
    BY <1>1
  <1>3. /\ \A i \in 1..k : OneEach(c[i]) /\ Sources(c[i]) \subseteq AllSources(c)
        /\ \A i, j \in 1..k : i # j => Sources(c[i]) \cap Sources(c[j]) = {}
    BY DEF Clean, AllSources
  <1> HIDE DEF k, f
  <1>4. Clean(f)
    BY <1>1, <1>2, <1>3 DEF Clean
  <1>5. AllSources(f) \subseteq AllSources(c) /\ Sources(c[k]) \cap AllSources(f) = {}
    <2>1. \A x \in AllSources(f) : \E i \in 1..(k - 1) : x \in Sources(c[i])
      BY <1>1, AllSourcesFacts
    <2>2. QED
      BY <1>1, <1>2, <1>3, <2>1
  <1>6. QED
    BY <1>1, <1>3, <1>4, <1>5 DEF f

\* A scope whose values nothing holds joins a list.
LEMMA AppendStaysClean ==
    ASSUME NEW S, NEW c \in Seq(S), Clean(c), NEW x \in S, OneEach(x),
           Sources(x) \cap AllSources(c) = {}
    PROVE  /\ Clean(Append(c, x))
           /\ AllSources(Append(c, x)) = AllSources(c) \cup Sources(x)
  <1> DEFINE k == Len(c)
             d == Append(c, x)
  <1>1. k \in Nat /\ Len(d) = k + 1 /\ d[k + 1] = x /\ \A i \in 1..k : d[i] = c[i]
    OBVIOUS
  <1>2. /\ \A i \in 1..k : OneEach(c[i]) /\ Sources(c[i]) \subseteq AllSources(c)
        /\ \A i, j \in 1..k : i # j => Sources(c[i]) \cap Sources(c[j]) = {}
    BY DEF Clean, AllSources
  <1>3. AllSources(c) = UNION {Sources(c[i]) : i \in 1..k}
    BY DEF AllSources
  <1> HIDE DEF k, d
  <1>4. 1..(k + 1) = (1..k) \cup {k + 1}
    BY <1>1
  <1>5. Clean(d)
    <2>1. \A i \in 1..(k + 1) : OneEach(d[i])
      BY <1>1, <1>2, <1>4
    <2>2. \A i \in 1..k : Sources(d[i]) \cap Sources(x) = {}
      BY <1>1, <1>2
    <2>3. \A i, j \in 1..(k + 1) : i # j => Sources(d[i]) \cap Sources(d[j]) = {}
      BY <1>1, <1>2, <1>4, <2>2
    <2>4. QED
      BY <1>1, <2>1, <2>3, Zenon DEF Clean
  <1>6. AllSources(d) = AllSources(c) \cup Sources(x)
    BY <1>1, <1>3, <1>4 DEF AllSources
  <1>7. QED
    BY <1>5, <1>6 DEF d

\* What _Scope.first finds comes from an element the scope has a value of.
LEMMA ResolveSource ==
    ASSUME NEW n \in Nat, NEW scope \in Scopes(n), Resolve(scope.props) # NoValue
    PROVE  Resolve(scope.props).of \in Sources(scope)
  <1>1. ASSUME NEW p, First(scope.props, p) # NoValue
        PROVE  First(scope.props, p).of \in Sources(scope)
    <2> DEFINE I == {i \in 1..Len(scope.props) : scope.props[i].prop = p}
               first == Min(I)
    <2>1. First(scope.props, p) = IF I = {} THEN NoValue ELSE scope.props[first].value
      BY DEF First
    <2>2. I # {}
      BY <1>1, <2>1
    <2>3. Min(I) \in I
      <3>1. I \subseteq Nat
        OBVIOUS
      <3> HIDE DEF I
      <3>2. QED
        BY <2>2, <3>1, MinFacts
    <2>4. first \in 1..Len(scope.props)
      BY <2>2, <2>3
    <2> HIDE DEF first
    <2>5. QED
      BY <2>1, <2>2, <2>4 DEF Sources
  <1>2. QED
    BY <1>1 DEF Resolve

\* What a start tag may change, and no value gets a second place.
LEMMA UniqueGrows ==
    ASSUME NEW n \in Nat, NEW s, Agree(s, n), Unique(s),
           NEW c, Clean(c), AllSources(c) \subseteq AllSources(s.scopes) \cup {n + 1},
           NEW f, f.el = n + 1,
           Captures(f) => ~f.opened_scope /\ AllSources(c) \subseteq AllSources(s.scopes)
    PROVE  /\ Unique([stack |-> s.stack, scopes |-> c, items |-> s.items])
           /\ Unique([stack |-> Append(s.stack, f), scopes |-> c, items |-> s.items])
  <1> DEFINE k == Len(s.stack)
             held == AllSources(s.scopes) \cup AllSources(s.items)
  <1>1. /\ s.stack \in Seq(Frames(n)) /\ s.scopes \in Seq(Scopes(n)) /\ s.items \in Seq(Scopes(n))
    BY DEF Agree, Parsers
  <1>2. /\ AllSources(s.scopes) \subseteq 1..n /\ AllSources(s.items) \subseteq 1..n
        /\ n + 1 \notin 1..n /\ k \in Nat
    BY <1>1, SourcesAreNodes
  <1>3. \A i \in 1..k : s.stack[i].el \in 1..n
    BY StackElements DEF Agree
  <1>4. AllSources(c) \cap AllSources(s.items) = {}
    BY <1>2 DEF Unique
  <1>5. \A i \in 1..k : Captures(s.stack[i]) =>
           /\ ~s.stack[i].opened_scope
           /\ s.stack[i].el \notin AllSources(c) \cup AllSources(s.items)
    BY <1>2, <1>3 DEF Unique
  <1>6. Unique([stack |-> s.stack, scopes |-> c, items |-> s.items])
    BY <1>4, <1>5 DEF Unique
  <1>7. Unique([stack |-> Append(s.stack, f), scopes |-> c, items |-> s.items])
    <2> DEFINE t == Append(s.stack, f)
    <2>1. Len(t) = k + 1 /\ t[k + 1] = f /\ \A i \in 1..k : t[i] = s.stack[i]
      BY <1>1
    <2>2. 1..(k + 1) = (1..k) \cup {k + 1}
      BY <1>2
    <2>3. Captures(f) => ~f.opened_scope /\ f.el \notin AllSources(c) \cup AllSources(s.items)
      BY <1>2
    <2> HIDE DEF t, k
    <2>4. \A i \in 1..Len(t) : Captures(t[i]) =>
             /\ ~t[i].opened_scope
             /\ t[i].el \notin AllSources(c) \cup AllSources(s.items)
      BY <1>5, <2>1, <2>2, <2>3, Zenon
    <2> DEFINE u == [stack |-> t, scopes |-> c, items |-> s.items]
    <2>5. u.stack = t /\ u.scopes = c /\ u.items = s.items
      OBVIOUS
    <2> HIDE DEF u
    <2>6. Unique(u)
      BY <1>4, <2>4, <2>5 DEF Unique
    <2>7. QED
      BY <2>6 DEF u, t
  <1>8. QED
    BY <1>6, <1>7

LEMMA UniqueStart ==
    ASSUME NEW n \in Nat, NEW s, Agree(s, n), Unique(s), NEW e \in Elements
    PROVE  Unique(HandleStartTag(s, n + 1, e.kind, e.prop))
  <1> DEFINE el == n + 1
             t == HandleStartTag(s, el, e.kind, e.prop)
             V == Value(el, {})
             C == Add(s.scopes, e.prop, V)
  <1>1. /\ s = [stack |-> s.stack, scopes |-> s.scopes, items |-> s.items]
        /\ s.scopes \in Seq(Scopes(n)) /\ el \in Nat /\ el \in 1..el
    BY DEF Agree, Parsers
  <1>2. s.scopes \in Seq(Scopes(el))
    BY <1>1, Monotone DEF Agree, Parsers
  <1>3. e.kind \in Kinds /\ e.prop \in Itemprops /\ V \in Values(el) /\ V.of = el
    BY <1>1 DEF Elements, Value, Values
  <1>4. Clean(s.scopes) /\ AllSources(s.scopes) \subseteq 1..n
    BY <1>1, SourcesAreNodes DEF Unique
  <1>5. ASSUME e.prop \in Props
        PROVE  Clean(C) /\ AllSources(C) \subseteq AllSources(s.scopes) \cup {el}
    <2>1. s.scopes # <<>> => Last(s.scopes).el < el
      <3>1. s.scopes # <<>> => Last(s.scopes) \in Scopes(n)
        BY <1>1, FrontFacts
      <3>2. \A c \in Scopes(n) : c.el < el
        BY DEF Scopes
      <3>3. QED
        BY <3>1, <3>2
    <2>2. V.of \notin AllSources(s.scopes)
      BY <1>3, <1>4
    <2> HIDE DEF V, el
    <2>3. Clean(C) /\ AllSources(C) \subseteq AllSources(s.scopes) \cup ({V.of} \ {0})
      BY <1>1, <1>2, <1>3, <1>4, <1>5, <2>1, <2>2, AddStaysClean
    <2>4. QED
      BY <1>3, <2>3
  <1>6. CASE e.kind = "void"
    <2>1. NoProp \notin Props
      BY DEF Props, NoProp
    <2>2. CASE e.prop \in Props
      <3>1. t = [stack |-> s.stack, scopes |-> C, items |-> s.items]
        BY <1>1, <1>6, <2>1, <2>2 DEF HandleStartTag, HandleVoidTag
      <3>2. Clean(C) /\ AllSources(C) \subseteq AllSources(s.scopes) \cup {el}
        BY <1>5, <2>2
      <3> DEFINE f == Frame(el, FALSE, NoProp, NoProp)
      <3>3. f.el = n + 1 /\ ~Captures(f)
        BY DEF Frame, Captures
      <3> HIDE DEF C, t, f
      <3>4. Unique([stack |-> s.stack, scopes |-> C, items |-> s.items])
        BY <3>2, <3>3, UniqueGrows
      <3>5. QED
        BY <3>1, <3>4 DEF t
    <2>3. CASE e.prop = NoProp
      <3>1. t = s
        BY <1>1, <1>6, <2>3 DEF HandleStartTag, HandleVoidTag
      <3>2. QED
        BY <3>1
    <2>4. QED
      BY <1>3, <2>2, <2>3 DEF Itemprops
  <1>7. CASE e.kind = "scope"
    <2> DEFINE f == Frame(el, TRUE, e.prop, NoProp)
               x == [el |-> el, props |-> <<>>]
               c == Append(s.scopes, x)
    <2>1. t = [stack |-> Append(s.stack, f), scopes |-> c, items |-> s.items]
      BY <1>1, <1>7 DEF HandleStartTag, HandleScopedTag
    <2>2. f.el = n + 1 /\ ~Captures(f)
      BY DEF Frame, Captures
    <2>3. x \in Scopes(el) /\ Len(x.props) = 0
      BY <1>1 DEF Scopes
    <2> HIDE DEF x
    <2>4. OneEach(x) /\ Sources(x) = {}
      BY <2>3 DEF OneEach, Sources
    <2>5. Clean(c) /\ AllSources(c) = AllSources(s.scopes)
      <3> DEFINE S == Scopes(el)
      <3>1. Sources(x) \cap AllSources(s.scopes) = {}
        BY <2>4
      <3>2. s.scopes \in Seq(S) /\ x \in S /\ Clean(s.scopes) /\ OneEach(x)
        BY <1>2, <1>4, <2>3, <2>4
      <3> HIDE DEF S
      <3>3. Clean(c) /\ AllSources(c) = AllSources(s.scopes) \cup Sources(x)
        BY <3>1, <3>2, AppendStaysClean
      <3> HIDE DEF c
      <3>4. QED
        BY <2>4, <3>3
    <2> HIDE DEF f, c, t
    <2>6. Unique([stack |-> Append(s.stack, f), scopes |-> c, items |-> s.items])
      BY <2>2, <2>5, UniqueGrows
    <2>7. QED
      BY <2>1, <2>6 DEF t
  <1>8. CASE e.kind = "attribute"
    <2> DEFINE f == Frame(el, FALSE, NoProp, NoProp)
    <2>1. t = [stack |-> Append(s.stack, f), scopes |-> C, items |-> s.items]
      BY <1>1, <1>8 DEF HandleStartTag, HandleScopedTag
    <2>2. f.el = n + 1 /\ ~Captures(f)
      BY DEF Frame, Captures
    <2>3. e.prop \in Props
      BY <1>3, <1>8 DEF Elements, Itemprops
    <2>4. Clean(C) /\ AllSources(C) \subseteq AllSources(s.scopes) \cup {el}
      BY <1>5, <2>3
    <2> HIDE DEF f, C, t
    <2>5. Unique([stack |-> Append(s.stack, f), scopes |-> C, items |-> s.items])
      BY <2>2, <2>4, UniqueGrows
    <2>6. QED
      BY <2>1, <2>5 DEF t
  <1>9. CASE e.kind \in {"text_value", "plain"}
    <2> DEFINE f == Frame(el, FALSE, NoProp, IF e.kind = "plain" THEN NoProp ELSE e.prop)
               c == s.scopes
    <2>1. t = [stack |-> Append(s.stack, f), scopes |-> c, items |-> s.items]
      BY <1>1, <1>9 DEF HandleStartTag, HandleScopedTag
    <2>2. f.el = n + 1 /\ ~f.opened_scope
      BY DEF Frame
    <2>3. Clean(c) /\ AllSources(c) = AllSources(s.scopes)
      BY <1>4, Zenon
    <2> HIDE DEF f, c, t
    <2>4. Unique([stack |-> Append(s.stack, f), scopes |-> c, items |-> s.items])
      BY <2>2, <2>3, UniqueGrows
    <2>5. QED
      BY <2>1, <2>4 DEF t
  <1>10. QED
    BY <1>3, <1>6, <1>7, <1>8, <1>9 DEF Kinds

LEMMA UniqueData ==
    ASSUME NEW n \in Nat, NEW s, Agree(s, n), Unique(s), NEW piece
    PROVE  Unique(HandleData(s, piece))
  <1> DEFINE i == SelectLastInSeq(s.stack, Captures)
             t == HandleData(s, piece)
  <1>1. /\ s.stack \in Seq(Frames(n))
        /\ s = [stack |-> s.stack, scopes |-> s.scopes, items |-> s.items]
    BY DEF Agree, Parsers
  <1>2. t = IF i = 0 THEN s ELSE [s EXCEPT !.stack[i].capture_parts = @ \cup {piece}]
    BY DEF HandleData
  <1> HIDE DEF i, t
  <1>3. CASE i = 0
    BY <1>2, <1>3 DEF t
  <1>4. CASE i # 0
    <2> DEFINE top == s.stack[i]
               more == top.capture_parts \cup {piece}
               new == [top EXCEPT !.capture_parts = more]
               stack == [s.stack EXCEPT ![i] = new]
    <2>1. t = [stack |-> stack, scopes |-> s.scopes, items |-> s.items]
      <3>1. t = [s EXCEPT !.stack = stack]
        BY <1>2, <1>4, Zenon
      <3> HIDE DEF stack
      <3>2. QED
        BY <1>1, <3>1
    <2>2. i \in 1..Len(s.stack) =>
             /\ new.el = top.el /\ new.opened_scope = top.opened_scope
             /\ new.capture_prop = top.capture_prop
      <3>1. i \in 1..Len(s.stack) => top \in Frames(n)
        BY <1>1
      <3> HIDE DEF top, more
      <3>2. top \in Frames(n) =>
               /\ [top EXCEPT !.capture_parts = more].el = top.el
               /\ [top EXCEPT !.capture_parts = more].opened_scope = top.opened_scope
               /\ [top EXCEPT !.capture_parts = more].capture_prop = top.capture_prop
        BY Zenon DEF Frames
      <3>3. QED
        BY <3>1, <3>2
    <2> HIDE DEF new
    <2>3. /\ Len(stack) = Len(s.stack)
          /\ \A j \in 1..Len(s.stack) : stack[j] = IF j = i THEN new ELSE s.stack[j]
      BY <1>1
    <2> HIDE DEF stack
    <2>4. \A j \in 1..Len(stack) : /\ Captures(stack[j]) <=> Captures(s.stack[j])
                                  /\ stack[j].el = s.stack[j].el
                                  /\ stack[j].opened_scope = s.stack[j].opened_scope
      BY <2>2, <2>3 DEF Captures, top
    <2>5. Unique([stack |-> stack, scopes |-> s.scopes, items |-> s.items])
      BY <2>3, <2>4 DEF Unique
    <2>6. QED
      BY <2>1, <2>5 DEF t
  <1>5. QED
    BY <1>3, <1>4

LEMMA UniqueEnd ==
    ASSUME NEW n \in Nat, NEW s, Agree(s, n), Unique(s)
    PROVE  Unique(HandleEndTag(s))
  <1> DEFINE frame == Last(s.stack)
             scope == Last(s.scopes)
             F == Front(s.stack)
             G == Front(s.scopes)
             t == HandleEndTag(s)
             k == Len(s.stack)
  <1>1. /\ s.stack \in Seq(Frames(n)) /\ s.scopes \in Seq(Scopes(n)) /\ s.items \in Seq(Scopes(n))
        /\ s = [stack |-> s.stack, scopes |-> s.scopes, items |-> s.items]
        /\ IsRising(s.stack) /\ IsRising(s.scopes) /\ Els(s.scopes) = Opened(s.stack)
    BY DEF Agree, Parsers
  <1>2. /\ \A i \in 1..Len(s.stack) : s.stack[i].el \in Nat
        /\ \A i \in 1..Len(s.scopes) : s.scopes[i].el \in Nat
    BY StackElements DEF Agree
  <1>3. /\ Clean(s.scopes) /\ Clean(s.items)
        /\ AllSources(s.scopes) \cap AllSources(s.items) = {}
        /\ AllSources(s.scopes) \subseteq 1..n /\ AllSources(s.items) \subseteq 1..n
        /\ \A i \in 1..k : Captures(s.stack[i]) =>
              /\ ~s.stack[i].opened_scope
              /\ s.stack[i].el \notin AllSources(s.scopes) \cup AllSources(s.items)
    BY <1>1, SourcesAreNodes DEF Unique
  <1>4. CASE s.stack = <<>>
    BY <1>4 DEF HandleEndTag
  <1>5. CASE s.stack # <<>>
    <2>1. /\ frame \in Frames(n) /\ frame = s.stack[k] /\ k \in 1..k /\ Len(F) = k - 1
          /\ \A i \in 1..(k - 1) : F[i] = s.stack[i]
      BY <1>1, <1>5, FrontFacts
    <2>2. \A i \in 1..(k - 1) : i \in 1..k /\ s.stack[i].el # frame.el
      <3>1. \A i \in 1..(k - 1) : i \in 1..k /\ i < k /\ k \in Nat
        BY <2>1
      <3>2. \A i \in 1..(k - 1) : s.stack[i].el < s.stack[k].el
        BY <1>1, <2>1, <3>1 DEF IsRising
      <3>3. QED
        BY <1>2, <2>1, <3>1, <3>2
    <2>3. ASSUME NEW c, Clean(c), NEW items, Clean(items),
                 AllSources(c) \cap AllSources(items) = {},
                 AllSources(c) \cup AllSources(items)
                   \subseteq AllSources(s.scopes) \cup AllSources(s.items) \cup {frame.el}
          PROVE  Unique([stack |-> F, scopes |-> c, items |-> items])
      <3> DEFINE u == [stack |-> F, scopes |-> c, items |-> items]
      <3>1. u.stack = F /\ u.scopes = c /\ u.items = items
        OBVIOUS
      <3> HIDE DEF u, F, k, frame
      <3>2. \A i \in 1..Len(F) : Captures(F[i]) =>
               /\ ~F[i].opened_scope
               /\ F[i].el \notin AllSources(c) \cup AllSources(items)
        BY <1>3, <2>1, <2>2, <2>3
      <3>3. Unique(u)
        BY <2>3, <3>1, <3>2 DEF Unique
      <3>4. QED
        BY <3>3 DEF u
    <2>4. CASE ~frame.opened_scope
      <3> DEFINE C == Collected(s)
      <3>1. t = [stack |-> F, scopes |-> C, items |-> s.items]
        <4>1. t = [s EXCEPT !.stack = F, !.scopes = C]
          BY <1>5, <2>4 DEF HandleEndTag
        <4> HIDE DEF C, F, t
        <4>2. QED
          BY <1>1, <4>1
      <3>2. /\ Clean(C) /\ AllSources(C) \subseteq AllSources(s.scopes) \cup {frame.el}
            /\ AllSources(C) \cap AllSources(s.items) = {}
        <4>1. CASE ~Captures(frame)
          BY <1>3, <4>1 DEF Collected
        <4>2. CASE Captures(frame)
          <5> DEFINE V == Value(frame.el, frame.capture_parts)
          <5>1. V \in Values(n) /\ V.of = frame.el /\ frame.capture_prop \in Props
            BY <2>1, <4>2 DEF Frames, Value, Values, Captures, Itemprops
          <5>2. frame.el \notin AllSources(s.scopes) \cup AllSources(s.items)
            BY <1>3, <2>1, <4>2
          <5>3. s.scopes # <<>> => Last(s.scopes).el < frame.el
            <6>1. s.scopes # <<>> => Last(s.scopes).el \in Els(s.scopes)
              BY <1>1, <1>2, RisingFront
            <6>2. /\ \A x \in Els(s.stack) : x <= frame.el
                  /\ frame.el \notin Opened(s.stack) /\ Opened(s.stack) \subseteq Els(s.stack)
              BY <1>1, <1>2, <1>5, <2>4, RisingFront
            <6>3. \A x \in Els(s.scopes) : x \in Nat
              BY <1>2 DEF Els
            <6>4. frame.el \in Nat
              BY <1>2, <2>1
            <6> HIDE DEF frame
            <6>5. QED
              BY <1>1, <6>1, <6>2, <6>3, <6>4
          <5>4. C = Add(s.scopes, frame.capture_prop, V)
            BY <4>2 DEF Collected
          <5> HIDE DEF V, C, frame
          <5>5. Clean(C) /\ AllSources(C) \subseteq AllSources(s.scopes) \cup ({V.of} \ {0})
            BY <1>1, <1>3, <5>1, <5>2, <5>3, <5>4, AddStaysClean
          <5>6. QED
            BY <1>3, <5>1, <5>2, <5>5
        <4>3. QED
          BY <4>1, <4>2
      <3> HIDE DEF C, F, t, frame
      <3>3. Unique([stack |-> F, scopes |-> C, items |-> s.items])
        BY <1>3, <2>3, <3>2
      <3>4. QED
        BY <3>1, <3>3 DEF t
    <2>5. CASE frame.opened_scope
      <3> DEFINE V == Resolve(scope.props)
                 A == Add(G, frame.nested_prop, V)
      <3>1. s.scopes # <<>>
        <4>1. frame.el \in Opened(s.stack)
          BY <1>1, <1>2, <1>5, <2>5, RisingFront
        <4>2. Els(s.scopes) # {}
          BY <1>1, <4>1
        <4>3. QED
          BY <4>2 DEF Els
      <3>2. /\ scope \in Scopes(n) /\ G \in Seq(Scopes(n)) /\ Clean(G) /\ OneEach(scope)
            /\ AllSources(G) \subseteq AllSources(s.scopes)
            /\ Sources(scope) \subseteq AllSources(s.scopes)
            /\ Sources(scope) \cap AllSources(G) = {}
        BY <1>1, <1>3, <3>1, FrontFacts, FrontStaysClean
      <3>3. CASE frame.nested_prop = NoProp
        <4> DEFINE items == Append(s.items, scope)
        <4>1. t = [stack |-> F, scopes |-> G, items |-> items]
          BY <1>5, <2>5, <3>3 DEF HandleEndTag
        <4>2. Clean(items) /\ AllSources(items) = AllSources(s.items) \cup Sources(scope)
          <5>1. Sources(scope) \cap AllSources(s.items) = {}
            BY <1>3, <3>2
          <5> HIDE DEF scope
          <5>2. QED
            BY <1>1, <1>3, <3>2, <5>1, AppendStaysClean
        <4> HIDE DEF items, G, F, t, scope, frame
        <4>3. /\ AllSources(G) \cap AllSources(items) = {}
              /\ AllSources(G) \cup AllSources(items)
                   \subseteq AllSources(s.scopes) \cup AllSources(s.items) \cup {frame.el}
          BY <1>3, <3>2, <4>2
        <4>4. Unique([stack |-> F, scopes |-> G, items |-> items])
          BY <2>3, <3>2, <4>2, <4>3
        <4>5. QED
          BY <4>1, <4>4 DEF t
      <3>4. CASE frame.nested_prop # NoProp
        <4>1. t = [stack |-> F, scopes |-> A, items |-> s.items]
          BY <1>5, <2>5, <3>4 DEF HandleEndTag
        <4>2. V \in Values(n) \cup {NoValue} /\ frame.nested_prop \in Props
          <5>1. scope.props \in Seq([prop : Props, value : Values(n)])
            BY <3>2 DEF Scopes
          <5>2. QED
            BY <2>1, <3>4, <5>1, ResolveFacts DEF Frames, Itemprops
        <4>3. V # NoValue => V.of \in Sources(scope)
          <5> HIDE DEF scope
          <5>1. QED
            BY <3>2, ResolveSource
        <4>4. V # NoValue => V.of \notin AllSources(G) /\ (G # <<>> => Last(G).el < V.of)
          <5>1. V # NoValue => scope.el < V.of /\ V.of \notin AllSources(G) /\ V.of \in Nat
            <6> HIDE DEF scope, V, G
            <6>1. QED
              BY <1>3, <3>2, <4>3 DEF OneEach
          <5>2. G # <<>> => Last(G).el < scope.el /\ Last(G).el \in Nat /\ scope.el \in Nat
            <6> DEFINE m == Len(s.scopes)
            <6>1. /\ scope = s.scopes[m] /\ m \in 1..m /\ Len(G) = m - 1
                  /\ \A i \in 1..(m - 1) : G[i] = s.scopes[i]
              BY <1>1, <3>1, FrontFacts
            <6>2. G # <<>> => Last(G) = G[m - 1] /\ m - 1 \in 1..(m - 1)
              <7> HIDE DEF G, m
              <7>1. G \in Seq(Scopes(n)) /\ Len(G) = m - 1
                BY <3>2, <6>1
              <7>2. G # <<>> => Last(G) = G[Len(G)] /\ Len(G) \in 1..Len(G)
                BY <7>1, FrontFacts
              <7>3. QED
                BY <7>1, <7>2
            <6>3. m - 1 \in 1..(m - 1) => m - 1 \in 1..m /\ m - 1 < m
              BY <6>1
            <6>4. G # <<>> => Last(G) = s.scopes[m - 1] /\ s.scopes[m - 1].el < s.scopes[m].el
              BY <1>1, <6>1, <6>2, <6>3 DEF IsRising
            <6>5. QED
              BY <1>2, <6>1, <6>2, <6>3, <6>4
          <5> HIDE DEF scope, V, G
          <5>3. QED
            BY <5>1, <5>2
        <4> HIDE DEF V, A, G, F, t, scope, frame
        <4>5. Clean(A) /\ AllSources(A) \subseteq AllSources(G) \cup ({V.of} \ {0})
          BY <3>2, <4>2, <4>4, AddStaysClean DEF A
        <4>6. V = NoValue => {V.of} \ {0} = {}
          BY DEF NoValue
        <4>7. AllSources(A) \subseteq AllSources(s.scopes)
          BY <3>2, <4>3, <4>5, <4>6
        <4>8. Unique([stack |-> F, scopes |-> A, items |-> s.items])
          BY <1>3, <2>3, <4>5, <4>7
        <4>9. QED
          BY <4>1, <4>8 DEF t
      <3>5. QED
        BY <3>3, <3>4
    <2>6. QED
      BY <2>4, <2>5
  <1>6. QED
    BY <1>4, <1>5

LEMMA UniqueNext ==
    ASSUME StacksAgree, Unique(parser), [Next]_vars
    PROVE  Unique(parser')
  <1>0. Agree(parser, Len(doc)) /\ Len(doc) \in Nat
    BY DEF StacksAgree
  <1>1. ASSUME NEW e \in Elements, StartTag(e) PROVE Unique(parser')
    BY <1>0, <1>1, UniqueStart DEF StartTag
  <1>2. ASSUME NEW e \in Elements, SlashedTag(e) PROVE Unique(parser')
    <2> DEFINE s == HandleStartTag(parser, Len(doc) + 1, e.kind, e.prop)
    <2>1. Grow(e) /\ parser' = HandleEndTag(s)
      BY <1>2 DEF SlashedTag
    <2>2. Unique(s) /\ Agree(s, Len(doc')) /\ Len(doc') \in Nat
      BY <1>0, <2>1, UniqueStart, GrowFacts
    <2> HIDE DEF s
    <2>3. Unique(HandleEndTag(s))
      BY <2>2, UniqueEnd
    <2>4. QED
      BY <2>1, <2>3
  <1>3. CASE Text
    BY <1>0, <1>3, UniqueData DEF Text
  <1>4. ASSUME parser' = HandleEndTag(parser) PROVE Unique(parser')
    BY <1>0, <1>4, UniqueEnd
  <1>5. CASE EndTag
    BY <1>4, <1>5 DEF EndTag
  <1>6. ASSUME NEW k, OmittedEndTags(k) PROVE Unique(parser')
    BY <1>4, <1>6 DEF OmittedEndTags
  <1>a. ASSUME NEW k, ImpliedEnds(k) PROVE Unique(parser')
    BY <1>a DEF ImpliedEnds
  <1>7. CASE StrayEndTag
    BY <1>4, <1>7 DEF StrayEndTag
  <1>8. CASE UNCHANGED vars
    BY <1>8 DEF vars
  <1>9. QED
    BY <1>1, <1>2, <1>3, <1>5, <1>6, <1>7, <1>8, <1>a DEF Next

LEMMA UniqueInit == Init => Unique(parser)
  <1> SUFFICES ASSUME Init PROVE Unique(parser)
    OBVIOUS
  <1>1. parser.stack = <<>> /\ parser.scopes = <<>> /\ parser.items = <<>>
    BY DEF Init
  <1>2. Clean(<<>>) /\ AllSources(<<>>) = {}
    BY DEF Clean, AllSources
  <1>3. QED
    BY <1>1, <1>2 DEF Unique

(***************************************************************************)
(* For documents of any length, with any tags in any order: no value is    *)
(* used twice, and none leaks out of its item backwards.                   *)
(***************************************************************************)
THEOREM EveryValueHasOnePlace == Spec => []ValuesHaveOnePlace
  <1>1. StacksAgree /\ Unique(parser) /\ [Next]_vars => (StacksAgree /\ Unique(parser))'
    BY NextAgrees, UniqueNext
  <1>2. ASSUME StacksAgree, Unique(parser)
        PROVE  ValuesHaveOnePlace
    <2> DEFINE S == parser.scopes
               I == parser.items
    <2>1. S \in Seq(Scopes(Len(doc))) /\ I \in Seq(Scopes(Len(doc)))
      BY <1>2 DEF StacksAgree, Agree, Parsers
    <2>2. \A c \in Scopes(Len(doc)) : Len(c.props) \in Nat
      <3> DEFINE E == [prop : Props, value : Values(Len(doc))]
      <3>1. \A c \in Scopes(Len(doc)) : c.props \in Seq(E)
        BY DEF Scopes
      <3> HIDE DEF E
      <3>2. QED
        BY <3>1
    <2>3. ASSUME NEW x \in Occupied
          PROVE  /\ x = <<x[1], x[2], x[3]>>
                 /\ x[3] \in 1..Len(ScopeAt(x).props)
                 /\ SourceAt(x) = ScopeAt(x).props[x[3]].value.of
                 /\ OneEach(ScopeAt(x))
                 /\ SourceAt(x) \in Sources(ScopeAt(x))
                 /\ \/ x[1] = "scope" /\ x[2] \in 1..Len(S) /\ ScopeAt(x) = S[x[2]]
                    \/ x[1] = "item" /\ x[2] \in 1..Len(I) /\ ScopeAt(x) = I[x[2]]
      <3>1. x \in Places /\ x[3] <= Len(ScopeAt(x).props)
        BY <2>3 DEF Occupied
      <3>2. \/ \E i \in 1..Len(S), j \in 1..Len(doc) : x = <<"scope", i, j>>
            \/ \E i \in 1..Len(I), j \in 1..Len(doc) : x = <<"item", i, j>>
        BY <3>1 DEF Places
      <3>3. /\ x = <<x[1], x[2], x[3]>> /\ x[3] \in 1..Len(doc)
            /\ \/ x[1] = "scope" /\ x[2] \in 1..Len(S)
               \/ x[1] = "item" /\ x[2] \in 1..Len(I)
        BY <3>2
      <3> HIDE DEF S, I
      <3>4. \/ x[1] = "scope" /\ x[2] \in 1..Len(S) /\ ScopeAt(x) = S[x[2]]
            \/ x[1] = "item" /\ x[2] \in 1..Len(I) /\ ScopeAt(x) = I[x[2]]
        BY <3>3 DEF ScopeAt, S, I
      <3>5. ScopeAt(x) \in Scopes(Len(doc)) /\ OneEach(ScopeAt(x))
        BY <1>2, <2>1, <3>4 DEF Unique, Clean, S, I
      <3>6. x[3] \in 1..Len(ScopeAt(x).props)
        BY <2>2, <3>1, <3>3, <3>5
      <3>7. SourceAt(x) = ScopeAt(x).props[x[3]].value.of
        BY DEF SourceAt
      <3>8. SourceAt(x) \in Sources(ScopeAt(x))
        BY <3>6, <3>7 DEF Sources
      <3>9. QED
        BY <3>3, <3>4, <3>5, <3>6, <3>7, <3>8
    <2>4. ASSUME NEW x \in Occupied, NEW y \in Occupied, SourceAt(x) = SourceAt(y)
          PROVE  x = y
      <3>1. ScopeAt(x) = ScopeAt(y) => x[3] = y[3]
        BY <2>3, <2>4 DEF OneEach
      <3>2. /\ \A i, k \in 1..Len(S) : i # k => Sources(S[i]) \cap Sources(S[k]) = {}
            /\ \A i, k \in 1..Len(I) : i # k => Sources(I[i]) \cap Sources(I[k]) = {}
            /\ \A i \in 1..Len(S), k \in 1..Len(I) : Sources(S[i]) \cap Sources(I[k]) = {}
        BY <1>2, AllSourcesFacts DEF Unique, Clean
      <3> HIDE DEF S, I
      <3>3. SourceAt(x) \in Sources(ScopeAt(x)) /\ SourceAt(x) \in Sources(ScopeAt(y))
        BY <2>3, <2>4
      <3>4. x[1] = y[1] /\ x[2] = y[2]
        <4>1. /\ \/ x[1] = "scope" /\ x[2] \in 1..Len(S) /\ ScopeAt(x) = S[x[2]]
                 \/ x[1] = "item" /\ x[2] \in 1..Len(I) /\ ScopeAt(x) = I[x[2]]
              /\ \/ y[1] = "scope" /\ y[2] \in 1..Len(S) /\ ScopeAt(y) = S[y[2]]
                 \/ y[1] = "item" /\ y[2] \in 1..Len(I) /\ ScopeAt(y) = I[y[2]]
          BY <2>3 DEF S, I
        <4>2. ~(Sources(ScopeAt(x)) \cap Sources(ScopeAt(y)) = {})
          BY <3>3
        <4>3. QED
          BY <3>2, <4>1, <4>2
      <3>5. ScopeAt(x) = ScopeAt(y)
        BY <3>4 DEF ScopeAt
      <3>6. QED
        BY <2>3, <3>1, <3>4, <3>5
    <2>5. \A x \in Occupied : ScopeAt(x).el < SourceAt(x)
      BY <2>3 DEF OneEach
    <2>6. QED
      BY <2>4, <2>5 DEF ValuesHaveOnePlace
  <1>3. QED
    BY <1>1, <1>2, InitAgrees, UniqueInit, PTL DEF Spec

-------------------------------------------------------------------------------
(* Sequences filtered by a set. *)

\* A property of numbers has a least counterexample: there is none if every
\* number has the property that all smaller ones make it have.
LEMMA NoLeast ==
    ASSUME NEW n \in Nat, NEW Bad, Bad \subseteq 0..n,
           \A m \in 0..n : (\A l \in 0..n : l < m => l \notin Bad) => m \notin Bad
    PROVE  Bad = {}
  <1> SUFFICES ASSUME Bad # {} PROVE FALSE
    OBVIOUS
  <1>1. Bad \subseteq Nat
    OBVIOUS
  <1>2. PICK m \in Bad : \A y \in Bad : m <= y
    BY <1>1, MinFacts
  <1>3. \A l \in 0..n : l < m => l \notin Bad
    BY <1>1, <1>2
  <1>4. QED
    BY <1>2, <1>3

\* One step of Only, and the function that does i steps for every i.
OnlyStep(g, seq, S, i) ==
    IF i = 0 THEN <<>> ELSE IF seq[i] \in S THEN Append(g[i - 1], seq[i]) ELSE g[i - 1]

IsOnly(g, seq, S, m) == g = [i \in 0..m |-> OnlyStep(g, seq, S, i)]

LEMMA OnlyExists ==
    ASSUME NEW seq, NEW S, NEW n \in Nat
    PROVE  \E g : IsOnly(g, seq, S, n)
  <1> DEFINE Bad == {m \in 0..n : ~ \E g : IsOnly(g, seq, S, m)}
  <1>1. ASSUME NEW m \in 0..n, \A l \in 0..n : l < m => l \notin Bad
        PROVE  m \notin Bad
    <2>1. CASE m = 0
      <3> DEFINE g == [i \in 0..m |-> <<>>]
      <3>1. \A i \in 0..m : OnlyStep(g, seq, S, i) = <<>>
        BY <2>1 DEF OnlyStep
      <3>2. IsOnly(g, seq, S, m)
        BY <3>1 DEF IsOnly
      <3>3. QED
        BY <3>2
    <2>2. CASE m # 0
      <3>1. m - 1 \in 0..n /\ m - 1 < m /\ m \in Nat
        BY <2>2
      <3>2. PICK g : IsOnly(g, seq, S, m - 1)
        BY <1>1, <3>1
      <3> DEFINE h == [i \in 0..m |-> IF i = m THEN OnlyStep(g, seq, S, m) ELSE g[i]]
      <3>3. ASSUME NEW i \in 0..m
            PROVE  h[i] = OnlyStep(h, seq, S, i)
        <4>1. i # 0 => i - 1 \in 0..m /\ i - 1 # m
          BY <3>1
        <4>2. OnlyStep(h, seq, S, i) = OnlyStep(g, seq, S, i)
          BY <4>1 DEF OnlyStep
        <4>3. CASE i = m
          BY <4>2, <4>3
        <4>4. CASE i # m
          <5>1. i \in 0..(m - 1)
            BY <3>1, <4>4
          <5>2. g[i] = OnlyStep(g, seq, S, i)
            BY <3>2, <5>1 DEF IsOnly
          <5>3. QED
            BY <4>2, <4>4, <5>2
        <4>5. QED
          BY <4>3, <4>4
      <3>4. IsOnly(h, seq, S, m)
        <4>1. h = [i \in 0..m |-> h[i]]
          OBVIOUS
        <4> HIDE DEF h
        <4>2. QED
          BY <3>3, <4>1 DEF IsOnly
      <3>5. QED
        BY <3>4
    <2>3. QED
      BY <2>1, <2>2
  <1>2. Bad \subseteq 0..n
    OBVIOUS
  <1>3. n \notin Bad
    <2> HIDE DEF Bad
    <2>1. Bad = {}
      BY <1>1, <1>2, NoLeast
    <2>2. QED
      BY <2>1
  <1>4. QED
    BY <1>3

\* The function in the definition of Only is one of these.
LEMMA OnlyDef ==
    ASSUME NEW seq, NEW S, Len(seq) \in Nat
    PROVE  \E g : IsOnly(g, seq, S, Len(seq)) /\ Only(seq, S) = g[Len(seq)]
  <1> DEFINE n == Len(seq)
             only == CHOOSE g : g = [i \in 0..n |-> IF i = 0 THEN <<>>
                        ELSE IF seq[i] \in S THEN Append(g[i - 1], seq[i]) ELSE g[i - 1]]
  <1>1. Only(seq, S) = only[n]
    BY DEF Only
  <1>2. \E g : g = [i \in 0..n |-> IF i = 0 THEN <<>>
                        ELSE IF seq[i] \in S THEN Append(g[i - 1], seq[i]) ELSE g[i - 1]]
    <2>1. n \in Nat
      OBVIOUS
    <2> HIDE DEF n
    <2>2. PICK g : IsOnly(g, seq, S, n)
      BY <2>1, OnlyExists, Zenon
    <2>3. QED
      BY <2>2, Zenon DEF IsOnly, OnlyStep
  <1>3. IsOnly(only, seq, S, n)
    BY <1>2, Zenon DEF IsOnly, OnlyStep
  <1>4. QED
    BY <1>1, <1>3

\* Only's steps, one after the other.
Steps(g, seq, S, m) ==
    /\ g[0] = <<>>
    /\ \A i \in 1..m : g[i] = IF seq[i] \in S THEN Append(g[i - 1], seq[i]) ELSE g[i - 1]

\* Two sequences that agree up to m about what is in the set.
Alike(seq, S, seq2, S2, m) ==
    \A i \in 1..m : seq[i] = seq2[i] /\ (seq[i] \in S <=> seq2[i] \in S2)

LEMMA OnlySteps ==
    ASSUME NEW seq, NEW S, NEW m \in Nat, NEW g, IsOnly(g, seq, S, m)
    PROVE  Steps(g, seq, S, m)
  <1>1. \A i \in 0..m : g[i] = OnlyStep(g, seq, S, i)
    BY DEF IsOnly
  <1>2. 0 \in 0..m /\ \A i \in 1..m : i \in 0..m /\ i # 0
    OBVIOUS
  <1>3. QED
    BY <1>1, <1>2, Zenon DEF OnlyStep, Steps

\* Sequences that agree up to m about what is in the set give the same steps.
LEMMA SameSteps ==
    ASSUME NEW seq, NEW S, NEW seq2, NEW S2, NEW m \in Nat, NEW n \in Nat, NEW n2 \in Nat,
           m <= n, m <= n2,
           NEW g, IsOnly(g, seq, S, n), NEW h, IsOnly(h, seq2, S2, n2),
           Alike(seq, S, seq2, S2, m)
    PROVE  g[m] = h[m]
  <1> DEFINE Bad == {l \in 0..m : g[l] # h[l]}
  <1>1. /\ g[0] = <<>> /\ h[0] = <<>>
        /\ \A i \in 1..m : seq[i] = seq2[i] /\ (seq[i] \in S <=> seq2[i] \in S2)
        /\ \A i \in 1..m :
              /\ g[i] = IF seq[i] \in S THEN Append(g[i - 1], seq[i]) ELSE g[i - 1]
              /\ h[i] = IF seq2[i] \in S2 THEN Append(h[i - 1], seq2[i]) ELSE h[i - 1]
    <2>1. \A i \in 1..m : i \in 1..n /\ i \in 1..n2
      OBVIOUS
    <2>2. Steps(g, seq, S, n)
      BY OnlySteps
    <2>3. Steps(h, seq2, S2, n2)
      BY OnlySteps
    <2>4. QED
      BY <2>1, <2>2, <2>3 DEF Steps, Alike
  <1>2. ASSUME NEW k \in 0..m, \A l \in 0..m : l < k => l \notin Bad
        PROVE  k \notin Bad
    <2>1. CASE k = 0
      BY <1>1, <2>1
    <2>2. CASE k # 0
      <3>1. k \in 1..m /\ k - 1 \in 0..m /\ k - 1 < k
        BY <2>2
      <3>2. g[k - 1] = h[k - 1]
        BY <1>2, <3>1
      <3>3. QED
        BY <1>1, <3>1, <3>2
    <2>3. QED
      BY <2>1, <2>2
  <1>3. Bad = {}
    <2>1. Bad \subseteq 0..m
      OBVIOUS
    <2> HIDE DEF Bad
    <2>2. QED
      BY <1>2, <2>1, NoLeast
  <1>4. QED
    BY <1>3

\* What Only keeps: the entries in S, of a sequence and of one with one more.
LEMMA OnlyFacts ==
    ASSUME NEW U, NEW seq \in Seq(U), NEW S
    PROVE  /\ Only(seq, S) \in Seq(U)
           /\ \A x : x \in ToSet(Only(seq, S)) <=> x \in S /\ x \in ToSet(seq)
           /\ seq = <<>> => Only(seq, S) = <<>>
  <1> DEFINE n == Len(seq)
  <1>1. n \in Nat /\ \A i \in 1..n : seq[i] \in U
    OBVIOUS
  <1>2. PICK g : IsOnly(g, seq, S, n) /\ Only(seq, S) = g[n]
    BY <1>1, OnlyDef
  <1>3. /\ g[0] = <<>>
        /\ \A i \in 1..n : g[i] = IF seq[i] \in S THEN Append(g[i - 1], seq[i]) ELSE g[i - 1]
    <2> HIDE DEF n
    <2>1. Steps(g, seq, S, n)
      BY <1>1, <1>2, OnlySteps
    <2>2. QED
      BY <2>1 DEF Steps
  <1> DEFINE Kept(c, i) == /\ c \in Seq(U)
                           /\ \A x : x \in ToSet(c) <=> x \in S /\ \E j \in 1..i : x = seq[j]
             Bad == {l \in 0..n : ~Kept(g[l], l)}
  <1>4. ASSUME NEW c \in Seq(U), NEW y \in U
        PROVE  Append(c, y) \in Seq(U) /\ \A x : x \in ToSet(Append(c, y)) <=> x \in ToSet(c) \/ x = y
    <2> DEFINE k == Len(c)
               d == Append(c, y)
    <2>1. d \in Seq(U) /\ k \in Nat /\ Len(d) = k + 1 /\ d[k + 1] = y /\ \A i \in 1..k : d[i] = c[i]
      OBVIOUS
    <2>2. ToSet(c) = {c[i] : i \in 1..k}
      BY DEF ToSet
    <2> HIDE DEF k, d
    <2>3. 1..(k + 1) = (1..k) \cup {k + 1}
      BY <2>1
    <2>4. ToSet(d) = {d[i] : i \in 1..(k + 1)}
      BY <2>1 DEF ToSet
    <2>5. \A x : x \in ToSet(d) <=> x \in ToSet(c) \/ x = y
      BY <2>1, <2>2, <2>3, <2>4
    <2>6. QED
      BY <2>1, <2>5 DEF d
  <1>5. ASSUME NEW k \in 0..n, \A l \in 0..n : l < k => l \notin Bad
        PROVE  k \notin Bad
    <2>1. CASE k = 0
      <3>1. \A x : x \notin ToSet(<<>>)
        BY DEF ToSet
      <3>2. Kept(<<>>, 0)
        BY <3>1
      <3> HIDE DEF Kept
      <3>3. QED
        BY <1>3, <2>1, <3>2
    <2>2. CASE k # 0
      <3>1. k \in 1..n /\ k - 1 \in 0..n /\ k - 1 < k /\ 1..k = 1..(k - 1) \cup {k}
        BY <2>2
      <3>2. Kept(g[k - 1], k - 1)
        <4> HIDE DEF Kept
        <4>1. QED
          BY <1>5, <3>1
      <3>3. Kept(g[k], k)
        <4>1. seq[k] \in U /\ (seq[k] \in S => g[k] = Append(g[k - 1], seq[k]))
              /\ (seq[k] \notin S => g[k] = g[k - 1])
          BY <1>1, <1>3, <3>1
        <4>2. g[k - 1] \in Seq(U)
          BY <3>2
        <4>3. g[k] \in Seq(U) /\ \A x : x \in ToSet(g[k]) <=> x \in ToSet(g[k - 1]) \/ (seq[k] \in S /\ x = seq[k])
          BY <1>4, <4>1, <4>2
        <4>4. \A x : (\E j \in 1..k : x = seq[j]) <=> (\E j \in 1..(k - 1) : x = seq[j]) \/ x = seq[k]
          BY <3>1
        <4>5. QED
          BY <3>2, <4>3, <4>4
      <3> HIDE DEF Kept
      <3>4. QED
        BY <3>3
    <2>3. QED
      BY <2>1, <2>2
  <1>6. Kept(g[n], n)
    <2>1. Bad \subseteq 0..n
      OBVIOUS
    <2>2. Bad = {}
      <3> HIDE DEF Bad
      <3>1. QED
        BY <1>1, <1>5, <2>1, NoLeast
    <2> HIDE DEF Kept
    <2>3. QED
      BY <1>1, <2>2
  <1>7. \A x : (\E j \in 1..n : x = seq[j]) <=> x \in ToSet(seq)
    BY DEF ToSet
  <1>8. seq = <<>> => Only(seq, S) = <<>>
    BY <1>2, <1>3
  <1>9. QED
    BY <1>2, <1>6, <1>7, <1>8

\* One entry more: kept if it is in S.
LEMMA OnlyAppend ==
    ASSUME NEW U, NEW seq \in Seq(U), NEW x \in U, NEW S
    PROVE  Only(Append(seq, x), S) = IF x \in S THEN Append(Only(seq, S), x) ELSE Only(seq, S)
  <1> DEFINE n == Len(seq)
             more == Append(seq, x)
  <1>1. n \in Nat /\ Len(more) = n + 1 /\ n + 1 \in Nat /\ more[n + 1] = x
        /\ \A i \in 1..n : more[i] = seq[i]
    OBVIOUS
  <1>2. PICK g : IsOnly(g, seq, S, n) /\ Only(seq, S) = g[n]
    BY <1>1, OnlyDef
  <1>3. PICK h : IsOnly(h, more, S, n + 1) /\ Only(more, S) = h[n + 1]
    <2> HIDE DEF n, more
    <2>1. Len(more) \in Nat
      BY <1>1
    <2>2. PICK h : IsOnly(h, more, S, Len(more)) /\ Only(more, S) = h[Len(more)]
      BY <2>1, OnlyDef, Zenon
    <2>3. QED
      BY <1>1, <2>2
  <1> HIDE DEF n, more
  <1>4. g[n] = h[n]
    <2>1. n <= n /\ n <= n + 1
      BY <1>1
    <2>2. Alike(seq, S, more, S, n)
      BY <1>1 DEF Alike
    <2>3. QED
      BY <1>1, <1>2, <1>3, <2>1, <2>2, SameSteps
  <1>5. h[n + 1] = IF more[n + 1] \in S THEN Append(h[n], more[n + 1]) ELSE h[n]
    <2>1. n + 1 \in 1..(n + 1) /\ (n + 1) - 1 = n
      BY <1>1
    <2>2. Steps(h, more, S, n + 1)
      BY <1>1, <1>3, OnlySteps
    <2>3. QED
      BY <2>1, <2>2 DEF Steps
  <1>6. QED
    BY <1>1, <1>2, <1>3, <1>4, <1>5 DEF more

\* Sets that agree on a sequence keep the same of it.
LEMMA OnlySame ==
    ASSUME NEW U, NEW seq \in Seq(U), NEW S, NEW S2,
           \A i \in 1..Len(seq) : seq[i] \in S <=> seq[i] \in S2
    PROVE  Only(seq, S) = Only(seq, S2)
  <1> DEFINE n == Len(seq)
  <1>1. n \in Nat /\ n <= n
    OBVIOUS
  <1>2. PICK g : IsOnly(g, seq, S, n) /\ Only(seq, S) = g[n]
    BY <1>1, OnlyDef
  <1>3. PICK h : IsOnly(h, seq, S2, n) /\ Only(seq, S2) = h[n]
    BY <1>1, OnlyDef
  <1>4. Alike(seq, S, seq, S2, n)
    BY DEF Alike
  <1> HIDE DEF n
  <1>5. g[n] = h[n]
    BY <1>1, <1>2, <1>3, <1>4, SameSteps
  <1>6. QED
    BY <1>2, <1>3, <1>5

LEMMA OnlyOne ==
    ASSUME NEW U, NEW x \in U, NEW S
    PROVE  Only(<<x>>, S) = IF x \in S THEN <<x>> ELSE <<>>
  <1>1. <<>> \in Seq(U) /\ Append(<<>>, x) = <<x>>
    OBVIOUS
  <1>2. Only(<<>>, S) = <<>>
    BY <1>1, OnlyFacts
  <1>3. Only(<<x>>, S) = IF x \in S THEN Append(Only(<<>>, S), x) ELSE Only(<<>>, S)
    <2>1. Only(Append(<<>>, x), S) = IF x \in S THEN Append(Only(<<>>, S), x) ELSE Only(<<>>, S)
      BY <1>1, OnlyAppend, Zenon
    <2>2. QED
      BY <1>1, <2>1
  <1>4. QED
    BY <1>1, <1>2, <1>3

-------------------------------------------------------------------------------
(* The tree the author writes. *)

\* The nodes of the tree are those of the document.
Tree ==
    /\ doc \in Seq(Nodes)
    /\ \A i \in 1..Len(doc) : doc[i].within \subseteq 1..(i - 1)
    /\ open \in Seq(1..Len(doc)) /\ order \in Seq(1..Len(doc))
    /\ spoiled \subseteq 1..Len(doc)
    /\ departures \in Seq(Departures)

\* Nodes, in a document with one more.
LEMMA OneMoreNode ==
    ASSUME NEW n \in Nat, NEW c \in Seq(1..n)
    PROVE  /\ c \in Seq(1..(n + 1))
           /\ Append(c, n + 1) \in Seq(1..(n + 1))
           /\ ToSet(c) \subseteq 1..n
           /\ c \in Seq(Nat)
  <1>1. \A i \in 1..Len(c) : c[i] \in 1..n /\ c[i] \in 1..(n + 1) /\ c[i] \in Nat
    OBVIOUS
  <1>2. Len(c) \in Nat /\ c = [i \in 1..Len(c) |-> c[i]]
    OBVIOUS
  <1>3. c \in Seq(1..(n + 1)) /\ c \in Seq(Nat)
    BY <1>1, <1>2
  <1>4. n + 1 \in 1..(n + 1)
    OBVIOUS
  <1>5. ToSet(c) \subseteq 1..n
    BY <1>1 DEF ToSet
  <1>6. QED
    BY <1>3, <1>4, <1>5

\* A new node is in the elements open before it.
LEMMA NodeIsInside ==
    ASSUME Tree, NEW e, doc' = Append(doc, Node(e)), Node(e) \in Nodes
    PROVE  /\ doc' \in Seq(Nodes) /\ Len(doc') = Len(doc) + 1 /\ Len(doc) \in Nat
           /\ \A i \in 1..Len(doc) : doc'[i] = doc[i]
           /\ doc'[Len(doc) + 1] = Node(e)
           /\ \A i \in 1..Len(doc') : doc'[i].within \subseteq 1..(i - 1)
  <1> DEFINE n == Len(doc)
             node == Node(e)
  <1>1. doc \in Seq(Nodes) /\ n \in Nat /\ ToSet(open) \subseteq 1..n
    BY OneMoreNode DEF Tree
  <1>2. node.within = ToSet(open)
    BY DEF Node
  <1> HIDE DEF node
  <1>3. /\ Append(doc, node) \in Seq(Nodes) /\ Len(Append(doc, node)) = n + 1
        /\ \A i \in 1..n : Append(doc, node)[i] = doc[i]
        /\ Append(doc, node)[n + 1] = node
    BY <1>1 DEF node
  <1>4. doc' = Append(doc, node)
    BY DEF node
  <1>5. ASSUME NEW i \in 1..(n + 1) PROVE doc'[i].within \subseteq 1..(i - 1)
    <2>1. CASE i = n + 1
      BY <1>1, <1>2, <1>3, <1>4, <2>1
    <2>2. CASE i # n + 1
      <3>1. i \in 1..n
        BY <1>1, <2>2
      <3>2. doc[i].within \subseteq 1..(i - 1)
        BY <3>1 DEF Tree
      <3>3. QED
        BY <1>3, <1>4, <3>1, <3>2
    <2>3. QED
      BY <2>1, <2>2
  <1>6. QED
    BY <1>1, <1>3, <1>4, <1>5 DEF node

\* A start tag lets the tree grow.
LEMMA TreeGrows ==
    ASSUME Tree, NEW e \in Elements, Grow(e)
    PROVE  /\ doc' \in Seq(Nodes) /\ Len(doc') = Len(doc) + 1 /\ Len(doc) \in Nat
           /\ \A i \in 1..Len(doc) : doc'[i] = doc[i]
           /\ doc'[Len(doc) + 1].kind = e.kind /\ doc'[Len(doc) + 1].prop = e.prop
           /\ \A i \in 1..Len(doc') : doc'[i].within \subseteq 1..(i - 1)
           /\ open' \in Seq(1..Len(doc')) /\ order' \in Seq(1..Len(doc'))
           /\ spoiled \subseteq 1..Len(doc')
  <1>1. e.kind \in Kinds /\ e.prop \in Itemprops
    BY DEF Elements
  <1>2. /\ Len(doc) \in Nat /\ open \in Seq(1..Len(doc)) /\ order \in Seq(1..Len(doc))
        /\ spoiled \subseteq 1..Len(doc)
    BY DEF Tree
  <1>3. Node(e) \in Nodes /\ Node(e).kind = e.kind /\ Node(e).prop = e.prop
    <2>1. ToSet(open) \in SUBSET Nat
      BY <1>2, OneMoreNode
    <2>2. QED
      BY <1>1, <2>1 DEF Node, Nodes
  <1>4. doc' = Append(doc, Node(e))
    BY DEF Grow
  <1>5. /\ doc' \in Seq(Nodes) /\ Len(doc') = Len(doc) + 1
        /\ \A i \in 1..Len(doc) : doc'[i] = doc[i]
        /\ doc'[Len(doc) + 1] = Node(e)
        /\ \A i \in 1..Len(doc') : doc'[i].within \subseteq 1..(i - 1)
    BY <1>3, <1>4, NodeIsInside
  <1>6. /\ open' = open \/ open' = Append(open, Len(doc) + 1)
        /\ order' = order \/ order' = Append(order, Len(doc) + 1)
    BY DEF Grow
  <1>7. open' \in Seq(1..Len(doc')) /\ order' \in Seq(1..Len(doc'))
    BY <1>2, <1>5, <1>6, OneMoreNode
  <1>8. spoiled \subseteq 1..Len(doc')
    BY <1>2, <1>5
  <1>9. QED
    BY <1>2, <1>3, <1>5, <1>7, <1>8

\* An end tag, of k elements.
LEMMA TreeCloses ==
    ASSUME Tree, NEW k, Close(k)
    PROVE  open' \in Seq(1..Len(doc)) /\ order' \in Seq(1..Len(doc)) /\ doc' = doc
  <1> DEFINE U == 1..Len(doc)
             S == {el \in 1..Len(doc) : doc[el].kind # "attribute"}
             c == SubSeq(open, Len(open) - k + 1, Len(open))
             d == Only(c, S)
             r == Reverse(d)
  <1>1. k \in 1..Len(open) /\ open \in Seq(U) /\ order \in Seq(U)
    BY DEF Tree, Close
  <1> HIDE DEF U
  <1>2. SubSeq(open, 1, Len(open) - k) \in Seq(U)
    BY <1>1
  <1>3. c \in Seq(U)
    BY <1>1
  <1> HIDE DEF c, S
  <1>4. d \in Seq(U)
    BY <1>3, OnlyFacts
  <1> HIDE DEF d
  <1>5. r \in Seq(U)
    <2>1. Len(d) \in Nat /\ \A i \in 1..Len(d) : (Len(d) - i) + 1 \in 1..Len(d)
      BY <1>4
    <2>2. \A i \in 1..Len(d) : d[(Len(d) - i) + 1] \in U
      BY <1>4, <2>1
    <2>3. QED
      BY <2>1, <2>2 DEF Reverse
  <1>6. open' = SubSeq(open, 1, Len(open) - k) /\ order' = order \o r /\ doc' = doc
    BY DEF Close, S, c, d
  <1> HIDE DEF r
  <1>7. order \o r \in Seq(U)
    BY <1>1, <1>5
  <1>8. QED
    BY <1>2, <1>6, <1>7 DEF U

LEMMA DepartsFrom ==
    ASSUME Tree, NEW how \in Departures, NEW elements, Depart(how, elements)
    PROVE  departures' \in Seq(Departures) /\ departures' # <<>> /\ spoiled' = spoiled \cup elements
  <1>1. departures \in Seq(Departures) /\ departures' = Append(departures, how)
        /\ spoiled' = spoiled \cup elements
    BY DEF Tree, Depart
  <1>2. QED
    BY <1>1

LEMMA TreeNext ==
    ASSUME Tree, [Next]_vars
    PROVE  Tree'
  <1>0. /\ doc \in Seq(Nodes) /\ Len(doc) \in Nat
        /\ \A i \in 1..Len(doc) : doc[i].within \subseteq 1..(i - 1)
        /\ open \in Seq(1..Len(doc)) /\ order \in Seq(1..Len(doc))
        /\ spoiled \subseteq 1..Len(doc) /\ departures \in Seq(Departures)
        /\ ToSet(open) \subseteq 1..Len(doc)
    BY OneMoreNode DEF Tree
  <1>1. ASSUME NEW e \in Elements, StartTag(e) PROVE Tree'
    <2>1. Grow(e) /\ spoiled' = spoiled /\ departures' = departures
      BY <1>1 DEF StartTag
    <2>2. QED
      BY <1>0, <2>1, TreeGrows DEF Tree
  <1>2. ASSUME NEW e \in Elements, SlashedTag(e) PROVE Tree'
    <2>1. PICK how \in Departures : Grow(e) /\ Depart(how, ToSet(open'))
      BY <1>2 DEF SlashedTag, Departures
    <2>2. departures' \in Seq(Departures) /\ spoiled' = spoiled \cup ToSet(open')
      BY <2>1, DepartsFrom
    <2>3. /\ doc' \in Seq(Nodes) /\ Len(doc') \in Nat
          /\ \A i \in 1..Len(doc') : doc'[i].within \subseteq 1..(i - 1)
          /\ open' \in Seq(1..Len(doc')) /\ order' \in Seq(1..Len(doc'))
          /\ spoiled \subseteq 1..Len(doc')
      BY <2>1, TreeGrows
    <2>4. ToSet(open') \subseteq 1..Len(doc')
      BY <2>3, OneMoreNode
    <2>5. QED
      BY <2>2, <2>3, <2>4 DEF Tree
  <1>3. CASE Text
    <2> DEFINE e == [kind |-> "text", prop |-> NoProp]
    <2>1. /\ doc' = Append(doc, Node(e)) /\ open' = open /\ order' = order
          /\ spoiled' = spoiled /\ departures' = departures
      BY <1>3 DEF Text
    <2>2. Node(e) \in Nodes
      <3>1. ToSet(open) \in SUBSET Nat
        BY <1>0
      <3>2. QED
        BY <3>1 DEF Node, Nodes, Itemprops
    <2> HIDE DEF e
    <2>3. /\ doc' \in Seq(Nodes) /\ Len(doc') = Len(doc) + 1
          /\ \A i \in 1..Len(doc') : doc'[i].within \subseteq 1..(i - 1)
      BY <2>1, <2>2, NodeIsInside
    <2>4. open' \in Seq(1..Len(doc')) /\ order' \in Seq(1..Len(doc'))
      BY <1>0, <2>1, <2>3, OneMoreNode
    <2>5. spoiled' \subseteq 1..Len(doc')
      BY <1>0, <2>1, <2>3
    <2>6. QED
      BY <1>0, <2>1, <2>3, <2>4, <2>5 DEF Tree
  <1>4. CASE EndTag
    <2>1. Close(1) /\ spoiled' = spoiled /\ departures' = departures
      BY <1>4 DEF EndTag
    <2>2. open' \in Seq(1..Len(doc)) /\ order' \in Seq(1..Len(doc)) /\ doc' = doc
      BY <2>1, TreeCloses
    <2>3. QED
      BY <1>0, <2>1, <2>2 DEF Tree
  <1>5. ASSUME NEW k, OmittedEndTags(k) PROVE Tree'
    <2>1. Close(k) /\ Depart("end tags left out", ToSet(open))
      BY <1>5 DEF OmittedEndTags
    <2>2. open' \in Seq(1..Len(doc)) /\ order' \in Seq(1..Len(doc)) /\ doc' = doc
      BY <2>1, TreeCloses
    <2>3. departures' \in Seq(Departures) /\ spoiled' = spoiled \cup ToSet(open)
      BY <2>1, DepartsFrom DEF Departures
    <2>4. QED
      BY <1>0, <2>2, <2>3 DEF Tree
  <1>a. ASSUME NEW k, ImpliedEnds(k) PROVE Tree'
    <2>1. Close(k) /\ Depart("end tags implied", ToSet(open))
      BY <1>a DEF ImpliedEnds
    <2>2. open' \in Seq(1..Len(doc)) /\ order' \in Seq(1..Len(doc)) /\ doc' = doc
      BY <2>1, TreeCloses
    <2>3. departures' \in Seq(Departures) /\ spoiled' = spoiled \cup ToSet(open)
      BY <2>1, DepartsFrom DEF Departures
    <2>4. QED
      BY <1>0, <2>2, <2>3 DEF Tree
  <1>6. CASE StrayEndTag
    <2>1. Depart("stray end tag", ToSet(open)) /\ doc' = doc /\ open' = open /\ order' = order
      BY <1>6 DEF StrayEndTag
    <2>2. departures' \in Seq(Departures) /\ spoiled' = spoiled \cup ToSet(open)
      BY <2>1, DepartsFrom DEF Departures
    <2>3. QED
      BY <1>0, <2>1, <2>2 DEF Tree
  <1>7. CASE UNCHANGED vars
    BY <1>0, <1>7 DEF vars, documentVars, Tree
  <1>8. QED
    BY <1>1, <1>2, <1>3, <1>4, <1>5, <1>6, <1>7, <1>a DEF Next

LEMMA TreeInit == Init => Tree
  <1> SUFFICES ASSUME Init PROVE Tree
    OBVIOUS
  <1>1. doc = <<>> /\ open = <<>> /\ order = <<>> /\ spoiled = {} /\ departures = <<>>
    BY DEF Init
  <1>2. QED
    BY <1>1 DEF Tree

(***************************************************************************)
(* The parser and the document only ever hold what they may: values and    *)
(* items are those of nodes that were read, and a node lies within earlier *)
(* ones.                                                                   *)
(***************************************************************************)
THEOREM TypeCorrect == Spec => []TypeOK
  <1>1. ASSUME StacksAgree, Tree
        PROVE  TypeOK
    <2>1. ToSet(open) \subseteq 1..Len(doc) /\ ToSet(order) \subseteq 1..Len(doc)
      BY <1>1, OneMoreNode DEF Tree
    <2>2. QED
      BY <1>1, <2>1 DEF StacksAgree, Agree, Tree, TypeOK
  <1>2. QED
    BY InitAgrees, NextAgrees, TreeInit, TreeNext, <1>1, PTL DEF Spec

-------------------------------------------------------------------------------
(* Balanced documents. *)

\* A frame is that of an open element: it opened a scope if the element is an
\* item, and closing it gives the item to the property the element has.
Matches(f, d, el) ==
    /\ f.el = el
    /\ f.opened_scope <=> d[el].kind = "scope"
    /\ f.opened_scope => f.nested_prop = d[el].prop

Follows(stack, d, o) ==
    Len(stack) = Len(o) /\ \A i \in 1..Len(o) : Matches(stack[i], d, o[i])

Lists(items, nodes) ==
    Len(items) = Len(nodes) /\ \A i \in 1..Len(nodes) : items[i].el = nodes[i]

StandsAlone(d) == {n \in 1..Len(d) : d[n].kind = "scope" /\ d[n].prop = NoProp}

\* The inductive invariant: the stack is the open elements, with what the parser
\* has to know of each, and the items are those that have ended.
Read(p, d, o, w) == Follows(p.stack, d, o) /\ Lists(p.items, Only(w, StandsAlone(d)))

ReadWhileBalanced == departures = <<>> => Read(parser, doc, open, order)

LEMMA PushFollows ==
    ASSUME NEW S, NEW stack \in Seq(S), NEW T, NEW o \in Seq(T), NEW d, NEW f, NEW el,
           Follows(stack, d, o), Matches(f, d, el)
    PROVE  Follows(Append(stack, f), d, Append(o, el))
  <1> DEFINE n == Len(o)
             a == Append(stack, f)
             b == Append(o, el)
  <1>1. /\ n \in Nat /\ Len(a) = n + 1 /\ Len(b) = n + 1
        /\ a[n + 1] = f /\ b[n + 1] = el
        /\ \A i \in 1..n : a[i] = stack[i] /\ b[i] = o[i]
    BY DEF Follows
  <1>2. \A i \in 1..n : Matches(stack[i], d, o[i])
    BY DEF Follows
  <1> HIDE DEF a, b, n
  <1>3. \A i \in 1..(n + 1) : i \in 1..n \/ i = n + 1
    BY <1>1
  <1>4. \A i \in 1..(n + 1) : Matches(a[i], d, b[i])
    BY <1>1, <1>2, <1>3
  <1>5. Follows(a, d, b)
    BY <1>1, <1>4 DEF Follows
  <1>6. QED
    BY <1>5 DEF a, b

LEMMA PopFollows ==
    ASSUME NEW S, NEW stack \in Seq(S), NEW T, NEW o \in Seq(T), NEW d,
           Follows(stack, d, o), o # <<>>
    PROVE  /\ stack # <<>>
           /\ Follows(Front(stack), d, Front(o))
           /\ Matches(Last(stack), d, Last(o))
  <1> DEFINE n == Len(o)
             a == Front(stack)
             b == Front(o)
  <1>1. n \in Nat /\ n # 0 /\ Len(stack) = n /\ stack # <<>>
    BY DEF Follows
  <1>2. /\ Last(stack) = stack[n] /\ Last(o) = o[n]
        /\ Len(a) = n - 1 /\ Len(b) = n - 1
        /\ \A i \in 1..(n - 1) : a[i] = stack[i] /\ b[i] = o[i]
    BY <1>1, FrontFacts
  <1>3. \A i \in 1..n : Matches(stack[i], d, o[i])
    BY DEF Follows
  <1> HIDE DEF a, b, n
  <1>4. n \in 1..n /\ \A i \in 1..(n - 1) : i \in 1..n
    BY <1>1
  <1>5. \A i \in 1..(n - 1) : Matches(a[i], d, b[i])
    BY <1>2, <1>3, <1>4
  <1>6. Follows(a, d, b)
    BY <1>2, <1>5 DEF Follows
  <1>7. QED
    BY <1>1, <1>2, <1>3, <1>4, <1>6 DEF a, b

\* More nodes change nothing in what is known of the earlier ones.
LEMMA OlderNodes ==
    ASSUME NEW n \in Nat, NEW d, Len(d) = n, NEW d2, Len(d2) = n + 1,
           \A i \in 1..n : d2[i] = d[i],
           NEW o \in Seq(1..n), NEW w \in Seq(1..n)
    PROVE  /\ \A stack : Follows(stack, d, o) => Follows(stack, d2, o)
           /\ Only(w, StandsAlone(d)) = Only(w, StandsAlone(d2))
  <1>1. \A i \in 1..Len(o) : d2[o[i]] = d[o[i]]
    OBVIOUS
  <1>2. \A stack : Follows(stack, d, o) => Follows(stack, d2, o)
    BY <1>1 DEF Follows, Matches
  <1>3. \A i \in 1..Len(w) : w[i] \in 1..n /\ w[i] \in 1..(n + 1)
    OBVIOUS
  <1>4. \A i \in 1..Len(w) : w[i] \in StandsAlone(d) <=> w[i] \in StandsAlone(d2)
    BY <1>3 DEF StandsAlone
  <1>5. Only(w, StandsAlone(d)) = Only(w, StandsAlone(d2))
    <2> DEFINE A == StandsAlone(d)
               B == StandsAlone(d2)
    <2>1. \A i \in 1..Len(w) : w[i] \in A <=> w[i] \in B
      BY <1>4
    <2> HIDE DEF A, B
    <2>2. Only(w, A) = Only(w, B)
      BY <2>1, OnlySame
    <2>3. QED
      BY <2>2 DEF A, B
  <1>6. QED
    BY <1>2, <1>5

\* A start tag pushes the frame of its element, unless it is void.
Pushes(t, s, el, kind, prop) ==
    /\ t.items = s.items
    /\ kind = "void" => t.stack = s.stack
    /\ kind # "void" =>
          \E f : /\ t.stack = Append(s.stack, f) /\ f.el = el
                 /\ f.opened_scope <=> kind = "scope"
                 /\ f.opened_scope => f.nested_prop = prop

LEMMA StartTagPushes ==
    ASSUME NEW n \in Nat, NEW s \in Parsers(n), NEW el, NEW e \in Elements
    PROVE  Pushes(HandleStartTag(s, el, e.kind, e.prop), s, el, e.kind, e.prop)
  <1> DEFINE t == HandleStartTag(s, el, e.kind, e.prop)
             V == Value(el, {})
             C == Add(s.scopes, e.prop, V)
  <1>1. e.kind \in Kinds
    BY DEF Elements
  <1>2. s = [stack |-> s.stack, scopes |-> s.scopes, items |-> s.items]
    BY DEF Parsers
  <1>3. ASSUME NEW scopes, NEW f, t = [stack |-> Append(s.stack, f), scopes |-> scopes, items |-> s.items]
        PROVE  t.items = s.items /\ t.stack = Append(s.stack, f)
    BY <1>3
  <1>4. CASE e.kind = "void"
    <2>1. t = s \/ t = [stack |-> s.stack, scopes |-> C, items |-> s.items]
      BY <1>2, <1>4 DEF HandleStartTag, HandleVoidTag
    <2> HIDE DEF t, C
    <2>2. t.items = s.items /\ t.stack = s.stack
      BY <2>1
    <2>3. QED
      BY <1>4, <2>2 DEF Pushes, t
  <1>5. CASE e.kind = "scope"
    <2> DEFINE f == Frame(el, TRUE, e.prop, NoProp)
               scopes == Append(s.scopes, [el |-> el, props |-> <<>>])
    <2>1. t = [stack |-> Append(s.stack, f), scopes |-> scopes, items |-> s.items]
      BY <1>2, <1>5 DEF HandleStartTag, HandleScopedTag
    <2>2. f.el = el /\ f.opened_scope /\ f.nested_prop = e.prop
      BY DEF Frame
    <2> HIDE DEF t, f, scopes
    <2>3. t.items = s.items /\ t.stack = Append(s.stack, f)
      BY <2>1
    <2>4. QED
      BY <1>5, <2>2, <2>3, Zenon DEF Pushes, t
  <1>6. CASE e.kind \in {"attribute", "text_value", "plain"}
    <2> DEFINE f == Frame(el, FALSE, NoProp, IF e.kind = "text_value" THEN e.prop ELSE NoProp)
               scopes == IF e.kind = "attribute" THEN C ELSE s.scopes
    <2>1. t = [stack |-> Append(s.stack, f), scopes |-> scopes, items |-> s.items]
      BY <1>2, <1>6 DEF HandleStartTag, HandleScopedTag
    <2>2. f.el = el /\ ~f.opened_scope
      BY DEF Frame
    <2> HIDE DEF t, f, scopes
    <2>3. t.items = s.items /\ t.stack = Append(s.stack, f)
      BY <2>1
    <2>4. e.kind # "scope" /\ e.kind # "void"
      BY <1>6
    <2>5. (f.opened_scope <=> e.kind = "scope") /\ (f.opened_scope => f.nested_prop = e.prop)
      BY <2>2, <2>4, Zenon
    <2>6. \E g : /\ t.stack = Append(s.stack, g) /\ g.el = el
                 /\ g.opened_scope <=> e.kind = "scope"
                 /\ g.opened_scope => g.nested_prop = e.prop
      BY <2>2, <2>3, <2>5, Zenon
    <2>7. QED
      BY <2>3, <2>4, <2>6, Zenon DEF Pushes, t
  <1>7. QED
    BY <1>1, <1>4, <1>5, <1>6 DEF Kinds

\* Text changes nothing the parser knows of the open elements.
LEMMA DataFollows ==
    ASSUME NEW n \in Nat, NEW s \in Parsers(n), NEW piece
    PROVE  LET t == HandleData(s, piece) IN
           /\ t.items = s.items
           /\ \A d, o : Follows(s.stack, d, o) => Follows(t.stack, d, o)
  <1> DEFINE i == SelectLastInSeq(s.stack, Captures)
             t == HandleData(s, piece)
  <1>1. /\ s.stack \in Seq(Frames(n))
        /\ s = [stack |-> s.stack, scopes |-> s.scopes, items |-> s.items]
    BY DEF Parsers
  <1>2. t = IF i = 0 THEN s ELSE [s EXCEPT !.stack[i].capture_parts = @ \cup {piece}]
    BY DEF HandleData
  <1> HIDE DEF i, t
  <1>3. CASE i = 0
    BY <1>2, <1>3 DEF t
  <1>4. CASE i # 0
    <2> DEFINE top == s.stack[i]
               more == top.capture_parts \cup {piece}
               new == [top EXCEPT !.capture_parts = more]
               stack == [s.stack EXCEPT ![i] = new]
    <2>1. t = [stack |-> stack, scopes |-> s.scopes, items |-> s.items]
      <3>1. t = [s EXCEPT !.stack = stack]
        BY <1>2, <1>4, Zenon
      <3> HIDE DEF stack
      <3>2. QED
        BY <1>1, <3>1
    <2>2. i \in 1..Len(s.stack) =>
             /\ new.el = top.el /\ new.opened_scope = top.opened_scope
             /\ new.nested_prop = top.nested_prop
      <3>1. i \in 1..Len(s.stack) => top \in Frames(n)
        BY <1>1
      <3> HIDE DEF top, more
      <3>2. top \in Frames(n) =>
               /\ [top EXCEPT !.capture_parts = more].el = top.el
               /\ [top EXCEPT !.capture_parts = more].opened_scope = top.opened_scope
               /\ [top EXCEPT !.capture_parts = more].nested_prop = top.nested_prop
        BY Zenon DEF Frames
      <3>3. QED
        BY <3>1, <3>2
    <2> HIDE DEF new
    <2>3. /\ Len(stack) = Len(s.stack)
          /\ \A j \in 1..Len(s.stack) : stack[j] = IF j = i THEN new ELSE s.stack[j]
      BY <1>1
    <2> HIDE DEF stack
    <2>4. \A j \in 1..Len(s.stack) : /\ stack[j].el = s.stack[j].el
                                    /\ stack[j].opened_scope = s.stack[j].opened_scope
                                    /\ stack[j].nested_prop = s.stack[j].nested_prop
      BY <2>2, <2>3 DEF top
    <2>5. ASSUME NEW d, NEW o, Follows(s.stack, d, o)
          PROVE  Follows(stack, d, o)
      <3>1. Len(stack) = Len(o) /\ Len(s.stack) = Len(o)
        BY <2>3, <2>5 DEF Follows
      <3>2. \A j \in 1..Len(o) : Matches(s.stack[j], d, o[j])
        BY <2>5 DEF Follows
      <3>3. \A j \in 1..Len(o) : Matches(stack[j], d, o[j])
        BY <2>4, <3>1, <3>2, Zenon DEF Matches
      <3>4. QED
        BY <3>1, <3>3 DEF Follows
    <2>6. t.items = s.items /\ t.stack = stack
      BY <2>1
    <2>7. QED
      BY <2>5, <2>6 DEF t
  <1>5. QED
    BY <1>3, <1>4

\* When an element that opened a scope ends, the innermost scope is its own.
LEMMA TopScope ==
    ASSUME NEW n \in Nat, NEW s, Agree(s, n), s.stack # <<>>, Last(s.stack).opened_scope
    PROVE  Last(s.scopes).el = Last(s.stack).el
  <1> DEFINE frame == Last(s.stack)
             scope == Last(s.scopes)
  <1>1. /\ s.stack \in Seq(Frames(n)) /\ s.scopes \in Seq(Scopes(n))
        /\ IsRising(s.stack) /\ IsRising(s.scopes) /\ Els(s.scopes) = Opened(s.stack)
        /\ \A i \in 1..Len(s.stack) : s.stack[i].el \in Nat
        /\ \A i \in 1..Len(s.scopes) : s.scopes[i].el \in Nat
    BY StackElements DEF Agree, Parsers
  <1>2. frame.el \in Opened(s.stack) /\ Opened(s.stack) \subseteq Els(s.stack)
        /\ \A x \in Els(s.stack) : x <= frame.el
    BY <1>1, RisingFront
  <1>3. s.scopes # <<>>
    <2>1. frame.el \in Els(s.scopes)
      BY <1>1, <1>2
    <2>2. QED
      BY <2>1 DEF Els
  <1>4. scope.el \in Els(s.scopes) /\ \A x \in Els(s.scopes) : x <= scope.el
    BY <1>1, <1>3, RisingFront
  <1>5. frame.el \in Nat /\ scope.el \in Nat
    <2>1. frame \in Frames(n) /\ scope \in Scopes(n)
      BY <1>1, <1>3, FrontFacts
    <2>2. QED
      BY <2>1 DEF Frames, Scopes
  <1> HIDE DEF frame, scope
  <1>6. scope.el <= frame.el /\ frame.el <= scope.el
    BY <1>1, <1>2, <1>4
  <1>7. QED
    BY <1>5, <1>6 DEF frame, scope

\* An end tag pops its element, and lists it if it is an item of its own.
LEMMA EndTagPops ==
    ASSUME NEW n \in Nat, NEW s, Agree(s, n), NEW d, NEW o \in Seq(1..n), NEW w \in Seq(1..n),
           Len(d) = n, Read(s, d, o, w), o # <<>>
    PROVE  Read(HandleEndTag(s), d, Front(o),
                IF d[Last(o)].kind = "attribute" THEN w ELSE Append(w, Last(o)))
  <1> DEFINE frame == Last(s.stack)
             scope == Last(s.scopes)
             el == Last(o)
             t == HandleEndTag(s)
             A == StandsAlone(d)
             w2 == IF d[el].kind = "attribute" THEN w ELSE Append(w, el)
  <1>1. /\ s.stack \in Seq(Frames(n)) /\ s.items \in Seq(Scopes(n))
        /\ s = [stack |-> s.stack, scopes |-> s.scopes, items |-> s.items]
    BY DEF Agree, Parsers
  <1>2. Follows(s.stack, d, o) /\ Lists(s.items, Only(w, A))
    BY DEF Read
  <1>3. s.stack # <<>> /\ Follows(Front(s.stack), d, Front(o)) /\ Matches(frame, d, el)
    BY <1>1, <1>2, PopFollows
  <1>4. el \in 1..n
    BY FrontFacts
  <1>5. Only(w, A) \in Seq(1..n)
    BY OnlyFacts
  <1>6. Only(Append(w, el), A) = IF el \in A THEN Append(Only(w, A), el) ELSE Only(w, A)
    <2> HIDE DEF el, A
    <2>1. QED
      BY <1>4, OnlyAppend
  <1>7. el \in A <=> d[el].kind = "scope" /\ d[el].prop = NoProp
    BY <1>4 DEF StandsAlone
  <1>8. CASE el \in A
    <2>1. frame.opened_scope /\ frame.nested_prop = NoProp /\ d[el].kind # "attribute"
      BY <1>3, <1>7, <1>8 DEF Matches
    <2>2. t.stack = Front(s.stack) /\ t.items = Append(s.items, scope)
      BY <1>1, <1>3, <2>1 DEF HandleEndTag
    <2>3. scope.el = el
      BY <1>3, <2>1, TopScope DEF Matches
    <2>4. Only(w2, A) = Append(Only(w, A), el)
      BY <1>6, <1>8, <2>1
    <2> HIDE DEF t, w2, A, el, scope, frame
    <2>5. Lists(Append(s.items, scope), Append(Only(w, A), el))
      <3> DEFINE c == Only(w, A)
                 k == Len(c)
                 a == Append(s.items, scope)
                 b == Append(c, el)
      <3>1. c \in Seq(1..n) /\ Len(s.items) = Len(c) /\ \A i \in 1..Len(c) : s.items[i].el = c[i]
        BY <1>2, <1>5 DEF Lists
      <3> HIDE DEF c
      <3>2. /\ k \in Nat /\ Len(a) = k + 1 /\ Len(b) = k + 1 /\ a[k + 1] = scope /\ b[k + 1] = el
            /\ \A i \in 1..k : a[i] = s.items[i] /\ b[i] = c[i]
        BY <1>1, <3>1
      <3> HIDE DEF a, b
      <3>3. \A i \in 1..(k + 1) : i \in 1..k \/ i = k + 1
        BY <3>2
      <3>4. \A i \in 1..(k + 1) : a[i].el = b[i]
        BY <2>3, <3>1, <3>2, <3>3
      <3>5. QED
        BY <3>2, <3>4 DEF Lists, a, b, c
    <2>6. QED
      BY <1>3, <2>2, <2>4, <2>5 DEF Read, t, w2, A, el
  <1>9. CASE el \notin A
    <2>1. ~frame.opened_scope \/ frame.nested_prop # NoProp
      BY <1>3, <1>7, <1>9 DEF Matches
    <2>2. t.stack = Front(s.stack) /\ t.items = s.items
      <3>1. CASE frame.opened_scope
        BY <1>1, <1>3, <2>1, <3>1 DEF HandleEndTag
      <3>2. CASE ~frame.opened_scope
        <4>1. t = [s EXCEPT !.stack = Front(s.stack), !.scopes = Collected(s)]
          BY <1>3, <3>2 DEF HandleEndTag
        <4> HIDE DEF t
        <4>2. QED
          BY <1>1, <4>1
      <3>3. QED
        BY <3>1, <3>2
    <2>3. Only(w2, A) = Only(w, A)
      BY <1>6, <1>9
    <2>4. QED
      BY <1>2, <1>3, <2>2, <2>3 DEF Read
  <1>10. QED
    BY <1>8, <1>9

\* Closing one element, in the tree.
LEMMA CloseOne ==
    ASSUME Tree, Close(1)
    PROVE  /\ open # <<>> /\ open' = Front(open)
           /\ order' = IF doc[Last(open)].kind = "attribute" THEN order ELSE Append(order, Last(open))
  <1> DEFINE n == Len(open)
             el == Last(open)
             S == {x \in 1..Len(doc) : doc[x].kind # "attribute"}
  <1>1. open \in Seq(1..Len(doc)) /\ order \in Seq(1..Len(doc)) /\ 1 \in 1..n /\ n \in Nat
    BY DEF Tree, Close
  <1>2. open # <<>> /\ el \in 1..Len(doc) /\ el = open[n]
    <2>1. open # <<>>
      BY <1>1
    <2>2. QED
      BY <1>1, <2>1, FrontFacts
  <1>3. open' = Front(open)
    BY DEF Close, Front
  <1>4. SubSeq(open, n - 1 + 1, n) = <<el>>
    <2>1. n \in 1..n /\ n - 1 + 1 = n
      BY <1>1
    <2>2. SubSeq(open, n, n) = <<open[n]>>
      <3> DEFINE U == 1..Len(doc)
                 c == SubSeq(open, n, n)
      <3>1. n \in 1..Len(open) /\ open \in Seq(U)
        BY <1>1, <2>1
      <3> HIDE DEF n, U
      <3>2. c \in Seq(U) /\ Len(c) = n - n + 1 /\ \A i \in 1..(n - n + 1) : c[i] = open[n + i - 1]
        BY <3>1
      <3>3. Len(c) = 1 /\ c[1] = open[n]
        BY <1>1, <3>2
      <3> HIDE DEF c
      <3>4. c = <<open[n]>>
        <4>1. c = [i \in 1..Len(c) |-> c[i]]
          BY <3>2
        <4>2. <<open[n]>> = [i \in 1..1 |-> open[n]]
          OBVIOUS
        <4>3. [i \in 1..Len(c) |-> c[i]] = [i \in 1..1 |-> open[n]]
          BY <3>3
        <4>4. QED
          BY <4>1, <4>2, <4>3
      <3>5. QED
        BY <3>4 DEF c
    <2> HIDE DEF n, el
    <2>3. QED
      BY <1>2, <2>1, <2>2
  <1>5. order' = order \o Reverse(Only(<<el>>, S))
    BY <1>4 DEF Close
  <1>6. el \in S <=> doc[el].kind # "attribute"
    BY <1>2
  <1> HIDE DEF el, S
  <1>7. Only(<<el>>, S) = IF el \in S THEN <<el>> ELSE <<>>
    BY <1>2, OnlyOne
  <1>8. Reverse(<<el>>) = <<el>> /\ Reverse(<<>>) = <<>>
    BY DEF Reverse
  <1>9. order \o <<el>> = Append(order, el) /\ order \o <<>> = order
    BY <1>1, <1>2
  <1>10. QED
    BY <1>2, <1>3, <1>5, <1>6, <1>7, <1>8, <1>9 DEF el

LEMMA ReadStart ==
    ASSUME StacksAgree, Tree, Read(parser, doc, open, order), NEW e \in Elements, StartTag(e)
    PROVE  Read(parser, doc, open, order)'
  <1> DEFINE n == Len(doc)
             el == n + 1
             t == HandleStartTag(parser, el, e.kind, e.prop)
             A == StandsAlone(doc)
             B == StandsAlone(doc')
  <1>1. Grow(e) /\ parser' = t
    BY DEF StartTag
  <1>2. /\ Len(doc') = n + 1 /\ n \in Nat /\ \A i \in 1..n : doc'[i] = doc[i]
        /\ doc'[el].kind = e.kind /\ doc'[el].prop = e.prop
    BY <1>1, TreeGrows
  <1>3. open \in Seq(1..n) /\ order \in Seq(1..n)
    BY DEF Tree
  <1>4. Follows(parser.stack, doc, open) /\ Lists(parser.items, Only(order, A))
    BY DEF Read
  <1>5. parser \in Parsers(n) /\ parser.stack \in Seq(Frames(n))
    BY DEF StacksAgree, Agree, Parsers
  <1>6. Follows(parser.stack, doc', open) /\ Only(order, A) = Only(order, B)
    BY <1>2, <1>3, <1>4, OlderNodes
  <1>7. open' = IF e.kind = "void" THEN open ELSE Append(open, el)
    BY <1>1 DEF Grow
  <1>8. Only(order', B) = Only(order, B)
    <2>1. CASE e.kind \in {"void", "attribute"}
      <3>1. order' = Append(order, el)
        BY <1>1, <2>1 DEF Grow
      <3>2. el \notin B
        BY <1>2, <2>1 DEF StandsAlone
      <3>3. order \in Seq(1..el) /\ el \in 1..el
        BY <1>2, <1>3, OneMoreNode
      <3> HIDE DEF el, B
      <3>4. Only(Append(order, el), B) = IF el \in B THEN Append(Only(order, B), el) ELSE Only(order, B)
        BY <3>3, OnlyAppend
      <3>5. QED
        BY <3>1, <3>2, <3>4
    <2>2. CASE e.kind \notin {"void", "attribute"}
      BY <1>1, <2>2 DEF Grow
    <2>3. QED
      BY <2>1, <2>2
  <1> HIDE DEF el, A, B, t
  <1>9. Pushes(t, parser, el, e.kind, e.prop)
    BY <1>2, <1>5, StartTagPushes DEF t
  <1>10. Follows(t.stack, doc', open')
    <2>1. CASE e.kind = "void"
      BY <1>6, <1>7, <1>9, <2>1 DEF Pushes
    <2>2. CASE e.kind # "void"
      <3>1. PICK f : /\ t.stack = Append(parser.stack, f) /\ f.el = el
                     /\ f.opened_scope <=> e.kind = "scope"
                     /\ f.opened_scope => f.nested_prop = e.prop
        BY <1>9, <2>2, Zenon DEF Pushes
      <3>2. Matches(f, doc', el)
        BY <1>2, <3>1, Zenon DEF Matches, el
      <3>3. Follows(Append(parser.stack, f), doc', Append(open, el))
        BY <1>3, <1>5, <1>6, <3>2, PushFollows
      <3>4. QED
        BY <1>7, <2>2, <3>1, <3>3
    <2>3. QED
      BY <2>1, <2>2
  <1>11. Lists(t.items, Only(order', B))
    BY <1>4, <1>6, <1>8, <1>9 DEF Pushes
  <1>12. QED
    BY <1>1, <1>10, <1>11 DEF Read, B

LEMMA ReadText ==
    ASSUME StacksAgree, Tree, Read(parser, doc, open, order), Text
    PROVE  Read(parser, doc, open, order)'
  <1> DEFINE n == Len(doc)
             t == HandleData(parser, n + 1)
             e == [kind |-> "text", prop |-> NoProp]
  <1>1. doc' = Append(doc, Node(e)) /\ parser' = t /\ open' = open /\ order' = order
    BY DEF Text
  <1>2. open \in Seq(1..n) /\ order \in Seq(1..n) /\ n \in Nat /\ doc \in Seq(Nodes)
    BY DEF Tree
  <1>3. Len(doc') = n + 1 /\ \A i \in 1..n : doc'[i] = doc[i]
    <2>1. ToSet(open) \in SUBSET Nat
      BY <1>2, OneMoreNode
    <2>2. Node(e) \in Nodes
      BY <2>1 DEF Node, Nodes, Itemprops
    <2> HIDE DEF e
    <2>3. QED
      BY <1>1, <2>2, NodeIsInside
  <1>4. Follows(parser.stack, doc, open) /\ Lists(parser.items, Only(order, StandsAlone(doc)))
    BY DEF Read
  <1>5. /\ Follows(parser.stack, doc', open)
        /\ Only(order, StandsAlone(doc)) = Only(order, StandsAlone(doc'))
    BY <1>2, <1>3, <1>4, OlderNodes
  <1>6. parser \in Parsers(n)
    BY DEF StacksAgree, Agree
  <1>7. t.items = parser.items /\ Follows(t.stack, doc', open)
    BY <1>2, <1>5, <1>6, DataFollows
  <1> HIDE DEF t
  <1>8. Read(t, doc', open, order)
    BY <1>4, <1>5, <1>7 DEF Read
  <1>9. QED
    BY <1>1, <1>8

LEMMA ReadEnd ==
    ASSUME StacksAgree, Tree, Read(parser, doc, open, order), EndTag
    PROVE  Read(parser, doc, open, order)'
  <1> DEFINE n == Len(doc)
             w == IF doc[Last(open)].kind = "attribute" THEN order ELSE Append(order, Last(open))
  <1>1. Close(1) /\ parser' = HandleEndTag(parser) /\ doc' = doc
    BY DEF EndTag, Close
  <1>2. open # <<>> /\ open' = Front(open) /\ order' = w
    BY <1>1, CloseOne
  <1>3. open \in Seq(1..n) /\ order \in Seq(1..n) /\ n \in Nat /\ Agree(parser, n)
    BY DEF Tree, StacksAgree
  <1>4. Read(HandleEndTag(parser), doc, Front(open), w)
    BY <1>2, <1>3, EndTagPops
  <1>5. QED
    BY <1>1, <1>2, <1>4

LEMMA ReadNext ==
    ASSUME StacksAgree, Tree, ReadWhileBalanced, [Next]_vars
    PROVE  ReadWhileBalanced'
  <1>1. ASSUME NEW how, NEW elements, Depart(how, elements) PROVE ReadWhileBalanced'
    <2>1. departures' = Append(departures, how) /\ departures \in Seq(Departures)
      BY <1>1 DEF Depart, Tree
    <2>2. departures' # <<>>
      BY <2>1
    <2>3. QED
      BY <2>2 DEF ReadWhileBalanced
  <1>2. ASSUME NEW e \in Elements, StartTag(e) PROVE ReadWhileBalanced'
    <2>1. departures' = departures
      BY <1>2 DEF StartTag
    <2>2. QED
      BY <1>2, <2>1, ReadStart DEF ReadWhileBalanced
  <1>3. ASSUME NEW e \in Elements, SlashedTag(e) PROVE ReadWhileBalanced'
    BY <1>1, <1>3 DEF SlashedTag
  <1>4. CASE Text
    <2>1. departures' = departures
      BY <1>4 DEF Text
    <2>2. QED
      BY <1>4, <2>1, ReadText DEF ReadWhileBalanced
  <1>5. CASE EndTag
    <2>1. departures' = departures
      BY <1>5 DEF EndTag
    <2>2. QED
      BY <1>5, <2>1, ReadEnd DEF ReadWhileBalanced
  <1>6. ASSUME NEW k, OmittedEndTags(k) PROVE ReadWhileBalanced'
    BY <1>1, <1>6 DEF OmittedEndTags
  <1>a. ASSUME NEW k, ImpliedEnds(k) PROVE ReadWhileBalanced'
    BY <1>1, <1>a DEF ImpliedEnds
  <1>7. CASE StrayEndTag
    BY <1>1, <1>7 DEF StrayEndTag
  <1>8. CASE UNCHANGED vars
    BY <1>8 DEF vars, documentVars, ReadWhileBalanced
  <1>9. QED
    BY <1>2, <1>3, <1>4, <1>5, <1>6, <1>7, <1>8, <1>a DEF Next

LEMMA ReadInit == Init => ReadWhileBalanced
  <1> SUFFICES ASSUME Init PROVE Read(parser, doc, open, order)
    BY DEF ReadWhileBalanced
  <1>1. doc = <<>> /\ open = <<>> /\ order = <<>> /\ parser = [stack |-> <<>>, scopes |-> <<>>, items |-> <<>>]
    BY DEF Init
  <1>2. order \in Seq(Nat)
    BY <1>1
  <1>3. Only(order, StandsAlone(doc)) = <<>>
    BY <1>1, <1>2, OnlyFacts
  <1>4. QED
    BY <1>1, <1>3 DEF Read, Follows, Lists

(***************************************************************************)
(* ADR-026, for documents of any length: while the tags are balanced, the  *)
(* stack of the parser is the open elements and its items are those that   *)
(* are no other item's property, in the order in which they ended.         *)
(***************************************************************************)
THEOREM BalancedDocumentsAreAlwaysRead == Spec => []BalancedDocumentsAreRead
  <1>1. ASSUME StacksAgree, Tree, ReadWhileBalanced
        PROVE  BalancedDocumentsAreRead
    <2> SUFFICES ASSUME departures = <<>>
                 PROVE  /\ [i \in 1..Len(parser.stack) |-> parser.stack[i].el] = open
                        /\ [i \in 1..Len(parser.items) |-> parser.items[i].el] = Standalone
      BY DEF BalancedDocumentsAreRead
    <2>1. /\ Follows(parser.stack, doc, open)
          /\ Lists(parser.items, Only(order, StandsAlone(doc)))
      BY <1>1 DEF ReadWhileBalanced, Read
    <2>2. open \in Seq(1..Len(doc)) /\ order \in Seq(1..Len(doc))
      BY <1>1 DEF Tree
    <2>3. Only(order, StandsAlone(doc)) \in Seq(1..Len(doc))
      BY <2>2, OnlyFacts
    <2>4. Standalone = Only(order, StandsAlone(doc))
      BY DEF Standalone, StandsAlone
    <2>5. [i \in 1..Len(parser.stack) |-> parser.stack[i].el] = open
      <3>1. Len(parser.stack) = Len(open) /\ \A i \in 1..Len(open) : parser.stack[i].el = open[i]
        BY <2>1 DEF Follows, Matches
      <3>2. open = [i \in 1..Len(open) |-> open[i]]
        BY <2>2
      <3>3. QED
        BY <3>1, <3>2
    <2>6. [i \in 1..Len(parser.items) |-> parser.items[i].el] = Standalone
      <3> DEFINE c == Only(order, StandsAlone(doc))
      <3>1. Len(parser.items) = Len(c) /\ \A i \in 1..Len(c) : parser.items[i].el = c[i]
        BY <2>1 DEF Lists
      <3> HIDE DEF c
      <3>2. c = [i \in 1..Len(c) |-> c[i]]
        BY <2>3 DEF c
      <3>3. [i \in 1..Len(parser.items) |-> parser.items[i].el] = c
        BY <3>1, <3>2
      <3>4. QED
        BY <2>4, <3>3 DEF c
    <2>7. QED
      BY <2>5, <2>6
  <1>2. QED
    BY InitAgrees, NextAgrees, TreeInit, TreeNext, ReadInit, ReadNext, <1>1, PTL DEF Spec

-------------------------------------------------------------------------------
(* What the document has said so far, as a function of its nodes and of the  *)
(* order in which values ended.                                              *)

\* The innermost element of this kind in a set of elements, or 0.
OfKind(d, S, kind) == {a \in S : d[a].kind = kind}

Deepest(d, S, kind) ==
    IF OfKind(d, S, kind) = {} THEN 0 ELSE Max(OfKind(d, S, kind))

TextIn(d, el) ==
    {n \in 1..Len(d) : d[n].kind = "text" /\ Deepest(d, d[n].within, "text_value") = el}

ValueIn(d, P, n) == IF d[n].kind = "scope" THEN Resolve(P[n]) ELSE Value(n, TextIn(d, n))

EntryIn(d, P, n) == [prop |-> d[n].prop, value |-> ValueIn(d, P, n)]

HasIn(d, P, item) ==
    {n \in 1..Len(d) : /\ d[n].prop # NoProp
                       /\ Deepest(d, d[n].within, "scope") = item
                       /\ ValueIn(d, P, n) # NoValue}

Entries(d, P, of) == [i \in 1..Len(of) |-> EntryIn(d, P, of[i])]

SaidIn(d, w, P, item) == Entries(d, P, Only(w, HasIn(d, P, item)))

IsSaid(P, d, w) == P = [item \in 0..Len(d) |-> SaidIn(d, w, P, item)]

(***************************************************************************)
(* How the open elements lie in each other: each is in those before it, no *)
(* value of theirs is complete except from an attribute, and a departure   *)
(* in an element is one in all around it.                                  *)
(***************************************************************************)
Deepens(d, o) ==
    /\ \A i, j \in 1..Len(o) : i < j => o[i] < o[j]
    /\ \A i \in 1..Len(o) : /\ d[o[i]].within = {o[j] : j \in 1..(i - 1)}
                            /\ d[o[i]].kind \notin {"void", "text"}

EndsWhenClosed(d, o, w) == \A n \in ToSet(w) : d[n].kind = "attribute" \/ n \notin ToSet(o)

SpoilsOutwards(o, sp) == \A i, j \in 1..Len(o) : i < j /\ o[j] \in sp => o[i] \in sp

HasProperly(node) ==
    /\ node.kind \in {"text", "plain"} => node.prop = NoProp
    /\ node.kind = "text_value" => node.prop # NoProp

Nests(d, o, w, sp) ==
    /\ Deepens(d, o)
    /\ EndsWhenClosed(d, o, w)
    /\ SpoilsOutwards(o, sp)
    /\ \A n \in 1..Len(d) : HasProperly(d[n])

Nesting == Nests(doc, open, order, spoiled)

\* The entry j places below the last.
FromTop(s, j) == s[Len(s) - j]

\* A frame is that of an open element, with the text of it so far.
Stands(f, d, el) ==
    /\ Matches(f, d, el)
    /\ f.capture_prop = IF d[el].kind = "text_value" THEN d[el].prop ELSE NoProp
    /\ d[el].kind = "text_value" => f.capture_parts = TextIn(d, el)

\* The frames of the open elements without a departure are on top of the stack.
StackIsRight(stack, d, o, sp) ==
    \A j \in 0..(Len(o) - 1) :
        FromTop(o, j) \notin sp => j < Len(stack) /\ Stands(FromTop(stack, j), d, FromTop(o, j))

ScopesAreRight(scopes, U, P) ==
    \A j \in 1..Len(scopes) : scopes[j].el \in U => scopes[j].props = P[scopes[j].el]

ItemsAreRight(items, U, P) ==
    \A n \in U : \E i \in 1..Len(items) : items[i].el = n /\ items[i].props = P[n]

\* The items that have ended, stand alone and have no departure in them.
Ended(d, w, sp) == {n \in StandsAlone(d) : n \in ToSet(w) /\ n \notin sp}

IsLocal(p, d, o, w, sp, P) ==
    /\ StackIsRight(p.stack, d, o, sp)
    /\ ScopesAreRight(p.scopes, ToSet(o) \ sp, P)
    /\ ItemsAreRight(p.items, Ended(d, w, sp), P)

LocalInv == IsLocal(parser, doc, open, order, spoiled, PropertiesOf)

-------------------------------------------------------------------------------

LEMMA DeepestFacts ==
    ASSUME NEW n \in Nat, NEW S, S \subseteq 1..n, NEW d, NEW kind
    PROVE  /\ Deepest(d, S, kind) \in 0..n
           /\ Deepest(d, S, kind) # 0 => Deepest(d, S, kind) \in OfKind(d, S, kind)
           /\ \A a \in OfKind(d, S, kind) : Deepest(d, S, kind) >= a
           /\ OfKind(d, S, kind) # {} => Deepest(d, S, kind) # 0
  <1> DEFINE A == OfKind(d, S, kind)
             x == Deepest(d, S, kind)
  <1>1. A \subseteq 1..n
    BY DEF OfKind
  <1>2. x = IF A = {} THEN 0 ELSE Max(A)
    BY DEF Deepest
  <1> HIDE DEF x, A
  <1>3. A # {} => Max(A) \in A /\ \A y \in A : Max(A) >= y
    BY <1>1, MaxFacts
  <1>4. QED
    BY <1>1, <1>2, <1>3 DEF x, A

\* It is the same in a longer document, and in a set with more of other kinds.
LEMMA DeepestSame ==
    ASSUME NEW S, NEW T, NEW d, NEW d2, NEW kind,
           \A a \in S : d2[a].kind = d[a].kind,
           S \subseteq T, \A a \in T \ S : d2[a].kind # kind
    PROVE  Deepest(d2, T, kind) = Deepest(d, S, kind)
  <1>1. OfKind(d2, T, kind) = OfKind(d, S, kind)
    BY DEF OfKind
  <1>2. QED
    BY <1>1, Zenon DEF Deepest

\* A new greatest element of this kind is the deepest.
LEMMA DeepestNew ==
    ASSUME NEW n \in Nat, NEW S, S \subseteq 1..n, NEW x \in 1..n, NEW d, NEW kind,
           d[x].kind = kind, \A a \in S : a < x
    PROVE  Deepest(d, S \cup {x}, kind) = x
  <1> DEFINE T == S \cup {x}
             A == OfKind(d, T, kind)
             y == Deepest(d, T, kind)
  <1>1. T \subseteq 1..n /\ x \in T
    OBVIOUS
  <1>2. x \in A /\ \A a \in A : a \in S \/ a = x
    BY DEF OfKind
  <1> HIDE DEF T
  <1>3. /\ y \in 0..n /\ (y # 0 => y \in A)
        /\ \A a \in A : y >= a
    BY <1>1, DeepestFacts, Zenon
  <1> HIDE DEF y, A
  <1>4. y >= x
    BY <1>2, <1>3
  <1>5. y # 0
    BY <1>3, <1>4
  <1>6. y \in S => y < x
    OBVIOUS
  <1>7. y = x
    BY <1>2, <1>3, <1>4, <1>5, <1>6
  <1>8. QED
    BY <1>7 DEF y, T

\* A document: each node lies in earlier ones.
IsTree(d) ==
    /\ d \in Seq(Nodes)
    /\ \A i \in 1..Len(d) : d[i].within \subseteq 1..(i - 1)

LEMMA TreeFacts ==
    ASSUME NEW d, IsTree(d), NEW i \in 1..Len(d), NEW kind
    PROVE  /\ Len(d) \in Nat
           /\ Deepest(d, d[i].within, kind) \in 0..(i - 1)
           /\ Deepest(d, d[i].within, kind) < i
  <1>1. Len(d) \in Nat /\ i - 1 \in Nat /\ d[i].within \subseteq 1..(i - 1)
    BY DEF IsTree
  <1> DEFINE x == Deepest(d, d[i].within, kind)
             m == i - 1
  <1>2. x \in 0..m
    <2> HIDE DEF m
    <2>1. m \in Nat /\ d[i].within \subseteq 1..m
      BY <1>1 DEF m
    <2>2. QED
      BY <2>1, DeepestFacts, Zenon
  <1> HIDE DEF x
  <1>3. x < i
    BY <1>1, <1>2
  <1>4. QED
    BY <1>1, <1>2, <1>3 DEF x

\* What decides what an item is said to have: the entries it has, in their order.
LEMMA SaidSame ==
    ASSUME NEW U, NEW w \in Seq(U), NEW w2, NEW d, NEW d2, NEW P, NEW P2, NEW x,
           Only(w2, HasIn(d2, P2, x)) = Only(w, HasIn(d, P, x)),
           \A n \in ToSet(w) : n \in HasIn(d, P, x) => EntryIn(d2, P2, n) = EntryIn(d, P, n)
    PROVE  SaidIn(d2, w2, P2, x) = SaidIn(d, w, P, x)
  <1> DEFINE A == HasIn(d, P, x)
             of == Only(w, A)
  <1>1. of \in Seq(U) /\ \A n : n \in ToSet(of) => n \in A /\ n \in ToSet(w)
    <2> HIDE DEF A
    <2>1. QED
      BY OnlyFacts
  <1>2. \A i \in 1..Len(of) : of[i] \in ToSet(of)
    BY DEF ToSet
  <1> HIDE DEF of
  <1>3. \A i \in 1..Len(of) : EntryIn(d2, P2, of[i]) = EntryIn(d, P, of[i])
    BY <1>1, <1>2
  <1>4. Entries(d2, P2, of) = Entries(d, P, of)
    BY <1>3, Zenon DEF Entries
  <1>5. SaidIn(d2, w2, P2, x) = Entries(d2, P2, of) /\ SaidIn(d, w, P, x) = Entries(d, P, of)
    BY DEF SaidIn, of
  <1>6. QED
    BY <1>4, <1>5

\* A nested item starts after the item it is in: what an item is said to have
\* depends on later items only.
LEMMA SaidDepends ==
    ASSUME NEW d, IsTree(d), NEW w \in Seq(1..Len(d)), NEW x \in 0..Len(d), NEW P, NEW Q,
           \A n \in 1..Len(d) : x < n => P[n] = Q[n]
    PROVE  SaidIn(d, w, P, x) = SaidIn(d, w, Q, x)
  <1>1. ASSUME NEW n \in 1..Len(d), Deepest(d, d[n].within, "scope") = x
        PROVE  ValueIn(d, P, n) = ValueIn(d, Q, n) /\ EntryIn(d, P, n) = EntryIn(d, Q, n)
    <2>1. x < n
      BY <1>1, TreeFacts
    <2>2. P[n] = Q[n]
      BY <2>1
    <2>3. ValueIn(d, P, n) = ValueIn(d, Q, n)
      BY <2>2, Zenon DEF ValueIn
    <2>4. QED
      BY <2>3, Zenon DEF EntryIn
  <1>2. HasIn(d, P, x) = HasIn(d, Q, x)
    BY <1>1 DEF HasIn
  <1>3. \A n \in ToSet(w) : n \in HasIn(d, Q, x) => EntryIn(d, P, n) = EntryIn(d, Q, n)
    BY <1>1 DEF HasIn
  <1>4. Only(w, HasIn(d, P, x)) = Only(w, HasIn(d, Q, x))
    BY <1>2
  <1>5. QED
    BY <1>3, <1>4, SaidSame

\* So there is a function that gives each item what it is said to have.
LEMMA SaidExists ==
    ASSUME NEW d, IsTree(d), NEW w \in Seq(1..Len(d))
    PROVE  \E P : IsSaid(P, d, w)
  <1> DEFINE N == Len(d)
             From(P, m) == P = [x \in 0..N |-> P[x]] /\ \A x \in 0..N : x >= m => P[x] = SaidIn(d, w, P, x)
             Bad == {k \in 0..(N + 1) : ~ \E P : From(P, N + 1 - k)}
  <1>1. N \in Nat /\ N + 1 \in Nat
    BY DEF IsTree
  <1>2. ASSUME NEW k \in 0..(N + 1), \A l \in 0..(N + 1) : l < k => l \notin Bad
        PROVE  k \notin Bad
    <2>1. CASE k = 0
      <3> DEFINE P == [x \in 0..N |-> <<>>]
      <3>1. P = [x \in 0..N |-> P[x]]
        OBVIOUS
      <3>2. \A x \in 0..N : ~(x >= N + 1 - k)
        BY <1>1, <2>1
      <3> HIDE DEF P
      <3>3. From(P, N + 1 - k)
        BY <3>1, <3>2
      <3>4. QED
        BY <3>3
    <2>2. CASE k # 0
      <3> DEFINE m == N + 1 - k
      <3>1. k - 1 \in 0..(N + 1) /\ k - 1 < k /\ m \in 0..N /\ N + 1 - (k - 1) = m + 1
        BY <1>1, <2>2
      <3>2. PICK P : From(P, m + 1)
        BY <1>2, <3>1
      <3> HIDE DEF m
      <3> DEFINE new == SaidIn(d, w, P, m)
                 Q == [x \in 0..N |-> IF x = m THEN new ELSE P[x]]
      <3>3. \A x \in 0..N : Q[x] = IF x = m THEN new ELSE P[x]
        OBVIOUS
      <3>4. Q = [x \in 0..N |-> Q[x]]
        OBVIOUS
      <3> HIDE DEF Q
      <3>5. ASSUME NEW x \in 0..N, x >= m PROVE Q[x] = SaidIn(d, w, Q, x)
        <4>1. \A n \in 1..N : x < n => P[n] = Q[n]
          <5>1. \A n \in 1..N : x < n => n \in 0..N /\ n # m
            BY <1>1, <3>1, <3>5
          <5>2. QED
            BY <3>3, <5>1
        <4>2. SaidIn(d, w, P, x) = SaidIn(d, w, Q, x)
          BY <4>1, SaidDepends
        <4>3. CASE x = m
          BY <3>3, <4>2, <4>3
        <4>4. CASE x # m
          <5>1. x >= m + 1
            BY <3>1, <3>5, <4>4
          <5>2. P[x] = SaidIn(d, w, P, x)
            BY <3>2, <5>1
          <5>3. QED
            BY <3>3, <4>2, <4>4, <5>2
        <4>5. QED
          BY <4>3, <4>4
      <3>6. From(Q, m)
        BY <3>4, <3>5
      <3>7. QED
        BY <3>6 DEF m
    <2>3. QED
      BY <2>1, <2>2
  <1>3. N + 1 \notin Bad
    <2>1. Bad \subseteq 0..(N + 1)
      OBVIOUS
    <2> HIDE DEF Bad
    <2>2. Bad = {}
      BY <1>1, <1>2, <2>1, NoLeast
    <2>3. QED
      BY <2>2
  <1>4. PICK P : From(P, 0)
    <2>1. N + 1 \in 0..(N + 1) /\ N + 1 - (N + 1) = 0
      BY <1>1
    <2>2. QED
      BY <1>3, <2>1
  <1>5. \A x \in 0..N : P[x] = SaidIn(d, w, P, x)
    BY <1>1, <1>4
  <1>6. IsSaid(P, d, w)
    BY <1>4, <1>5 DEF IsSaid
  <1>7. QED
    BY <1>6

LEMMA SaidUnfolds ==
    ASSUME NEW d, NEW w, NEW P, IsSaid(P, d, w)
    PROVE  \A x \in 0..Len(d) : P[x] = SaidIn(d, w, P, x)
  BY Zenon DEF IsSaid

\* The properties of the document's items are such a function, in every state.
LEMMA PropertiesAreSaid ==
    ASSUME IsTree(doc), order \in Seq(1..Len(doc))
    PROVE  IsSaid(PropertiesOf, doc, order)
  <1>1. PropertiesOf = CHOOSE P : IsSaid(P, doc, order)
    BY DEF PropertiesOf, IsSaid, SaidIn, Entries, EntryIn, HasIn, ValueIn, TextIn, TextOf,
           Innermost, Deepest, OfKind
  <1>2. QED
    BY <1>1, SaidExists

LEMMA PropertiesAreSaidNext ==
    ASSUME IsTree(doc'), order' \in Seq(1..Len(doc'))
    PROVE  IsSaid(PropertiesOf', doc', order')
  <1>1. PropertiesOf' = CHOOSE P : IsSaid(P, doc', order')
    BY DEF PropertiesOf, IsSaid, SaidIn, Entries, EntryIn, HasIn, ValueIn, TextIn, TextOf,
           Innermost, Deepest, OfKind
  <1>2. QED
    BY <1>1, SaidExists

-------------------------------------------------------------------------------
(* What an item is said to have changes only by the values that end.         *)

\* Entries that are not in the set are not kept.
LEMMA OnlyNoMore ==
    ASSUME NEW U, NEW w \in Seq(U), NEW v \in Seq(U), NEW A, \A k \in 1..Len(v) : v[k] \notin A
    PROVE  Only(w \o v, A) = Only(w, A)
  <1> DEFINE n == Len(w)
             m == Len(v)
             s == w \o v
  <1>1. /\ n \in Nat /\ m \in Nat /\ s \in Seq(U) /\ Len(s) = n + m /\ n + m \in Nat
        /\ n <= n /\ n <= n + m
        /\ \A i \in 1..n : s[i] = w[i]
        /\ \A i \in 1..m : s[n + i] = v[i]
    OBVIOUS
  <1>2. PICK g : IsOnly(g, w, A, n) /\ Only(w, A) = g[n]
    BY <1>1, OnlyDef
  <1>3. PICK h : IsOnly(h, s, A, n + m) /\ Only(s, A) = h[n + m]
    <2> HIDE DEF n, m, s
    <2>1. Len(s) \in Nat
      BY <1>1
    <2>2. PICK h : IsOnly(h, s, A, Len(s)) /\ Only(s, A) = h[Len(s)]
      BY <2>1, OnlyDef, Zenon
    <2>3. QED
      BY <1>1, <2>2
  <1>4. \A k \in 1..m : v[k] \notin A
    OBVIOUS
  <1> HIDE DEF n, m, s
  <1>5. g[n] = h[n]
    <2>1. Alike(w, A, s, A, n)
      BY <1>1 DEF Alike
    <2>2. QED
      BY <1>1, <1>2, <1>3, <2>1, SameSteps
  <1>6. Steps(h, s, A, n + m)
    BY <1>1, <1>3, OnlySteps
  <1> DEFINE Bad == {l \in 0..m : h[n + l] # h[n]}
  <1>7. ASSUME NEW k \in 0..m, \A l \in 0..m : l < k => l \notin Bad
        PROVE  k \notin Bad
    <2>1. CASE k = 0
      BY <1>1, <2>1
    <2>2. CASE k # 0
      <3>1. k - 1 \in 0..m /\ k - 1 < k /\ n + k \in 1..(n + m) /\ (n + k) - 1 = n + (k - 1) /\ k \in 1..m
        BY <1>1, <2>2
      <3>2. h[n + (k - 1)] = h[n]
        BY <1>7, <3>1
      <3>3. s[n + k] \notin A
        BY <1>1, <1>4, <3>1
      <3>4. h[n + k] = h[(n + k) - 1]
        BY <1>6, <3>1, <3>3 DEF Steps
      <3>5. QED
        BY <3>1, <3>2, <3>4
    <2>3. QED
      BY <2>1, <2>2
  <1>8. Bad = {}
    <2>1. Bad \subseteq 0..m
      OBVIOUS
    <2> HIDE DEF Bad
    <2>2. QED
      BY <1>1, <1>7, <2>1, NoLeast
  <1>9. h[n + m] = h[n]
    <2>1. m \in 0..m
      BY <1>1
    <2>2. m \notin Bad
      BY <1>8, Zenon
    <2>3. QED
      BY <2>1, <2>2
  <1>10. QED
    BY <1>2, <1>3, <1>5, <1>9 DEF s

\* A document and one that goes on from it.
GoesOn(d, d2) ==
    /\ IsTree(d) /\ IsTree(d2)
    /\ Len(d) <= Len(d2)
    /\ \A i \in 1..Len(d) : d2[i] = d[i]

LEMMA OlderAncestors ==
    ASSUME NEW d, NEW d2, GoesOn(d, d2), NEW n \in 1..Len(d), NEW kind
    PROVE  /\ n \in 1..Len(d2) /\ d2[n] = d[n]
           /\ Deepest(d2, d2[n].within, kind) = Deepest(d, d[n].within, kind)
  <1>1. /\ Len(d) \in Nat /\ Len(d2) \in Nat /\ Len(d) <= Len(d2) /\ d2[n] = d[n]
        /\ d[n].within \subseteq 1..(n - 1)
        /\ \A i \in 1..Len(d) : d2[i] = d[i]
    BY DEF GoesOn, IsTree
  <1>2. \A a \in d[n].within : a \in 1..Len(d)
    BY <1>1
  <1>3. \A a \in d[n].within : d2[a].kind = d[a].kind
    BY <1>1, <1>2
  <1>4. Deepest(d2, d[n].within, kind) = Deepest(d, d[n].within, kind)
    BY <1>3, DeepestSame
  <1>5. QED
    BY <1>1, <1>4

\* The values that are complete stay what they are, if elements of items that are
\* not open (not in O) end nowhere and the texts of the others have ended.
Settled(d, d2, w, v, O) ==
    /\ \A k \in 1..Len(v) : Deepest(d2, d2[v[k]].within, "scope") \in O
    /\ \A n \in ToSet(w) : IF d[n].kind = "scope" THEN n \notin O ELSE TextIn(d2, n) = TextIn(d, n)

Reads(d, d2, w, v, P, P2, O) ==
    /\ GoesOn(d, d2) /\ w \in Seq(1..Len(d)) /\ v \in Seq(1..Len(d2))
    /\ IsSaid(P, d, w) /\ IsSaid(P2, d2, w \o v)
    /\ Settled(d, d2, w, v, O)

LEMMA ClosedStay ==
    ASSUME NEW d, NEW d2, NEW w, NEW v, NEW P, NEW P2, NEW O, Reads(d, d2, w, v, P, P2, O)
    PROVE  /\ \A x \in 0..Len(d) : x \notin O => P2[x] = P[x]
           /\ \A n \in ToSet(w) : /\ n \in 1..Len(d)
                                  /\ ValueIn(d2, P2, n) = ValueIn(d, P, n)
                                  /\ EntryIn(d2, P2, n) = EntryIn(d, P, n)
  <1> DEFINE N == Len(d)
             w2 == w \o v
             Bad == {j \in 0..N : N - j \notin O /\ P2[N - j] # P[N - j]}
  <1>0. ASSUME NEW n \in 1..Len(d)
        PROVE  /\ n \in 1..Len(d2) /\ d2[n] = d[n]
               /\ Deepest(d2, d2[n].within, "scope") = Deepest(d, d[n].within, "scope")
    <2>1. GoesOn(d, d2)
      BY DEF Reads
    <2>2. QED
      BY <2>1, OlderAncestors
  <1>1. /\ IsTree(d) /\ IsTree(d2) /\ N \in Nat /\ Len(d2) \in Nat /\ N <= Len(d2)
        /\ \A i \in 1..N : d2[i] = d[i]
        /\ w \in Seq(1..N) /\ v \in Seq(1..Len(d2))
    BY DEF Reads, GoesOn, IsTree
  <1>2. ToSet(w) \subseteq 1..N
    BY <1>1, OneMoreNode
  <1>3. w \in Seq(1..Len(d2))
    <2>1. \A i \in 1..Len(w) : w[i] \in 1..N
      BY <1>1
    <2>2. \A i \in 1..Len(w) : w[i] \in 1..Len(d2)
      BY <1>1, <2>1
    <2>3. Len(w) \in Nat /\ w = [i \in 1..Len(w) |-> w[i]]
      BY <1>1
    <2>4. QED
      BY <2>2, <2>3
  <1>4. /\ \A x \in 0..N : P[x] = SaidIn(d, w, P, x)
        /\ \A x \in 0..Len(d2) : P2[x] = SaidIn(d2, w2, P2, x)
    BY SaidUnfolds, Zenon DEF Reads
  <1>5. ASSUME NEW n \in ToSet(w), d[n].kind = "scope" => P2[n] = P[n]
        PROVE  ValueIn(d2, P2, n) = ValueIn(d, P, n) /\ EntryIn(d2, P2, n) = EntryIn(d, P, n)
    <2>1. n \in 1..N /\ d2[n] = d[n]
      BY <1>1, <1>2
    <2>2. d[n].kind # "scope" => TextIn(d2, n) = TextIn(d, n)
      BY DEF Settled, Reads
    <2>3. ValueIn(d2, P2, n) = ValueIn(d, P, n)
      BY <1>5, <2>1, <2>2, Zenon DEF ValueIn
    <2>4. QED
      BY <2>1, <2>3, Zenon DEF EntryIn
  <1>6. ASSUME NEW j \in 0..N, \A l \in 0..N : l < j => l \notin Bad
        PROVE  j \notin Bad
    <2> SUFFICES ASSUME N - j \notin O PROVE P2[N - j] = P[N - j]
      OBVIOUS
    <2> DEFINE x == N - j
               A == HasIn(d, P, x)
               B == HasIn(d2, P2, x)
    <2>1. x \in 0..N /\ x \in 0..Len(d2)
      BY <1>1
    <2>2. \A y \in 0..N : x < y /\ y \notin O => P2[y] = P[y]
      <3>1. \A y \in 0..N : x < y => N - y \in 0..N /\ N - y < j /\ N - (N - y) = y
        BY <1>1
      <3>2. QED
        BY <1>6, <3>1
    <2>3. x \notin O
      OBVIOUS
    <2> HIDE DEF x
    <2>4. ASSUME NEW n \in ToSet(w), Deepest(d, d[n].within, "scope") = x
          PROVE  ValueIn(d2, P2, n) = ValueIn(d, P, n) /\ EntryIn(d2, P2, n) = EntryIn(d, P, n)
      <3>1. n \in 1..N /\ x < n
        BY <1>1, <1>2, <2>4, TreeFacts
      <3>2. d[n].kind = "scope" => n \notin O
        BY DEF Settled, Reads
      <3>3. d[n].kind = "scope" => P2[n] = P[n]
        BY <2>2, <3>1, <3>2
      <3>4. QED
        BY <1>5, <3>3
    <2>5. \A n \in ToSet(w) : n \in A <=> n \in B
      <3>1. ASSUME NEW n \in ToSet(w) PROVE n \in A <=> n \in B
        <4>1. n \in 1..Len(d)
          BY <1>2
        <4>2. /\ n \in 1..Len(d2) /\ d2[n] = d[n]
              /\ Deepest(d2, d2[n].within, "scope") = Deepest(d, d[n].within, "scope")
          BY <1>0, <4>1
        <4>3. QED
          BY <2>4, <4>1, <4>2 DEF HasIn
      <3>2. QED
        BY <3>1
    <2>6. Only(w, B) = Only(w, A)
      <3>1. \A i \in 1..Len(w) : w[i] \in ToSet(w)
        BY DEF ToSet
      <3> HIDE DEF A, B
      <3>2. \A i \in 1..Len(w) : w[i] \in A <=> w[i] \in B
        BY <2>5, <3>1
      <3>3. QED
        BY <1>1, <3>2, OnlySame
    <2>7. Only(w2, B) = Only(w, B)
      <3>1. \A k \in 1..Len(v) : v[k] \notin B
        BY <2>3 DEF Settled, HasIn, Reads
      <3> HIDE DEF B
      <3>2. QED
        BY <1>1, <1>3, <3>1, OnlyNoMore
    <2>8. \A n \in ToSet(w) : n \in A => EntryIn(d2, P2, n) = EntryIn(d, P, n)
      BY <2>4 DEF HasIn
    <2>9. SaidIn(d2, w2, P2, x) = SaidIn(d, w, P, x)
      <3> HIDE DEF w2
      <3>1. QED
        BY <1>1, <2>6, <2>7, <2>8, SaidSame
    <2>10. QED
      BY <1>4, <2>1, <2>9 DEF x
  <1>7. Bad = {}
    <2>1. Bad \subseteq 0..N
      OBVIOUS
    <2> HIDE DEF Bad
    <2>2. QED
      BY <1>1, <1>6, <2>1, NoLeast
  <1>8. ASSUME NEW x \in 0..N, x \notin O PROVE P2[x] = P[x]
    <2>1. N - x \in 0..N /\ N - (N - x) = x
      BY <1>1
    <2>2. N - x \notin Bad
      BY <1>7
    <2>3. QED
      BY <1>8, <2>1, <2>2
  <1>9. ASSUME NEW n \in ToSet(w)
        PROVE  /\ n \in 1..N
               /\ ValueIn(d2, P2, n) = ValueIn(d, P, n) /\ EntryIn(d2, P2, n) = EntryIn(d, P, n)
    <2>1. n \in 1..N /\ n \in 0..N
      BY <1>2
    <2>2. d[n].kind = "scope" => P2[n] = P[n]
      BY <1>8, <2>1 DEF Settled, Reads
    <2>3. QED
      BY <1>5, <2>1, <2>2
  <1>10. QED
    BY <1>8, <1>9

LEMMA Longer ==
    ASSUME NEW n \in Nat, NEW m \in Nat, n <= m, NEW w \in Seq(1..n)
    PROVE  w \in Seq(1..m)
  <1>1. \A i \in 1..Len(w) : w[i] \in 1..n
    OBVIOUS
  <1>2. \A i \in 1..Len(w) : w[i] \in 1..m
    BY <1>1
  <1>3. Len(w) \in Nat /\ w = [i \in 1..Len(w) |-> w[i]]
    OBVIOUS
  <1>4. QED
    BY <1>2, <1>3

LEMMA AppendEntry ==
    ASSUME NEW n \in Nat, NEW E, E = [i \in 1..n |-> E[i]], NEW new
    PROVE  Append(E, new) = [i \in 1..(n + 1) |-> IF i = n + 1 THEN new ELSE E[i]]
  <1> DEFINE S == {E[i] : i \in 1..n} \cup {new}
             F == Append(E, new)
  <1>1. E \in Seq(S) /\ Len(E) = n /\ new \in S
    <2>1. \A i \in 1..n : E[i] \in S
      OBVIOUS
    <2> HIDE DEF S
    <2>2. [i \in 1..n |-> E[i]] \in Seq(S) /\ Len([i \in 1..n |-> E[i]]) = n
      BY <2>1
    <2>3. QED
      BY <2>2 DEF S
  <1> HIDE DEF S
  <1>2. F \in Seq(S) /\ Len(F) = n + 1 /\ \A i \in 1..(n + 1) : F[i] = IF i = n + 1 THEN new ELSE E[i]
    BY <1>1
  <1>3. F = [i \in 1..Len(F) |-> F[i]]
    BY <1>2
  <1> HIDE DEF F
  <1>4. F = [i \in 1..(n + 1) |-> IF i = n + 1 THEN new ELSE E[i]]
    BY <1>2, <1>3
  <1>5. QED
    BY <1>4 DEF F

\* Nothing changes when no value ends.
LEMMA SaysSame ==
    ASSUME NEW d, NEW d2, GoesOn(d, d2), NEW w \in Seq(1..Len(d)),
           NEW P, IsSaid(P, d, w), NEW P2, IsSaid(P2, d2, w),
           \A n \in ToSet(w) : d[n].kind = "scope" \/ TextIn(d2, n) = TextIn(d, n)
    PROVE  \A x \in 0..Len(d) : P2[x] = P[x]
  <1> DEFINE v == <<>>
  <1>1. v \in Seq(1..Len(d2)) /\ w \o v = w /\ Len(v) = 0
    OBVIOUS
  <1> HIDE DEF v
  <1>2. Settled(d, d2, w, v, {})
    BY <1>1 DEF Settled
  <1>3. Reads(d, d2, w, v, P, P2, {})
    BY <1>1, <1>2 DEF Reads
  <1>4. QED
    BY <1>3, ClosedStay

\* A value that ends is one entry more of the item it belongs to.
LEMMA SaysMore ==
    ASSUME NEW d, NEW d2, GoesOn(d, d2), NEW w \in Seq(1..Len(d)), NEW c \in 1..Len(d2),
           NEW P, IsSaid(P, d, w), NEW P2, IsSaid(P2, d2, Append(w, c)),
           NEW O, Settled(d, d2, w, <<c>>, O)
    PROVE  \A x \in 0..Len(d) :
              P2[x] = IF c \in HasIn(d2, P2, x) THEN Append(P[x], EntryIn(d2, P2, c)) ELSE P[x]
  <1> DEFINE w2 == Append(w, c)
             N == Len(d)
  <1>1. <<c>> \in Seq(1..Len(d2)) /\ w \o <<c>> = w2
    OBVIOUS
  <1>2. \A n \in ToSet(w) : /\ n \in 1..Len(d)
                            /\ ValueIn(d2, P2, n) = ValueIn(d, P, n)
                            /\ EntryIn(d2, P2, n) = EntryIn(d, P, n)
    <2>1. Reads(d, d2, w, <<c>>, P, P2, O)
      BY <1>1 DEF Reads
    <2>2. QED
      BY <2>1, ClosedStay
  <1>3. N \in Nat /\ Len(d2) \in Nat /\ N <= Len(d2) /\ w \in Seq(1..Len(d2))
    <2>1. N \in Nat /\ Len(d2) \in Nat /\ N <= Len(d2)
      BY DEF GoesOn, IsTree
    <2>2. QED
      BY <2>1, Longer
  <1>4. \A x \in 0..N : P[x] = SaidIn(d, w, P, x) /\ P2[x] = SaidIn(d2, w2, P2, x)
    <2>1. /\ \A x \in 0..Len(d) : P[x] = SaidIn(d, w, P, x)
          /\ \A x \in 0..Len(d2) : P2[x] = SaidIn(d2, w2, P2, x)
      BY SaidUnfolds, Zenon
    <2>2. \A x \in 0..N : x \in 0..Len(d2)
      BY <1>3
    <2>3. QED
      BY <2>1, <2>2
  <1>5. ASSUME NEW x \in 0..N
        PROVE  P2[x] = IF c \in HasIn(d2, P2, x) THEN Append(P[x], EntryIn(d2, P2, c)) ELSE P[x]
    <2> DEFINE A == HasIn(d, P, x)
               B == HasIn(d2, P2, x)
               of == Only(w, B)
    <2>1. \A n \in ToSet(w) : n \in A <=> n \in B
      <3>1. ASSUME NEW n \in ToSet(w) PROVE n \in A <=> n \in B
        <4>1. n \in 1..Len(d) /\ ValueIn(d2, P2, n) = ValueIn(d, P, n)
          BY <1>2
        <4>2. /\ n \in 1..Len(d2) /\ d2[n] = d[n]
              /\ Deepest(d2, d2[n].within, "scope") = Deepest(d, d[n].within, "scope")
          BY <4>1, OlderAncestors
        <4>3. QED
          BY <4>1, <4>2 DEF HasIn
      <3>2. QED
        BY <3>1
    <2>2. \A i \in 1..Len(w) : w[i] \in ToSet(w)
      BY DEF ToSet
    <2>3. Only(w, A) = of
      <3> HIDE DEF A, B
      <3>1. \A i \in 1..Len(w) : w[i] \in A <=> w[i] \in B
        BY <2>1, <2>2
      <3>2. QED
        BY <3>1, OnlySame
    <2>4. Only(w2, B) = IF c \in B THEN Append(of, c) ELSE of
      <3> HIDE DEF B
      <3>1. QED
        BY <1>3, OnlyAppend
    <2>5. of \in Seq(1..Len(d2)) /\ \A n : n \in ToSet(of) => n \in ToSet(w)
      <3> HIDE DEF B
      <3>1. QED
        BY <1>3, OnlyFacts
    <2> HIDE DEF A, B, of
    <2>6. Entries(d2, P2, of) = Entries(d, P, of)
      <3>1. \A i \in 1..Len(of) : of[i] \in ToSet(of)
        BY DEF ToSet
      <3>2. \A i \in 1..Len(of) : EntryIn(d2, P2, of[i]) = EntryIn(d, P, of[i])
        BY <1>2, <2>5, <3>1
      <3>3. QED
        BY <3>2, Zenon DEF Entries
    <2>7. Entries(d2, P2, Append(of, c)) = Append(Entries(d2, P2, of), EntryIn(d2, P2, c))
      <3> DEFINE more == Append(of, c)
                 f(i) == EntryIn(d2, P2, more[i])
                 new == EntryIn(d2, P2, c)
      <3>1. Len(of) \in Nat /\ Len(more) = Len(of) + 1 /\ more[Len(of) + 1] = c
            /\ \A i \in 1..Len(of) : more[i] = of[i]
        BY <2>5
      <3> HIDE DEF more
      <3>2. Entries(d2, P2, more) = [i \in 1..(Len(of) + 1) |-> EntryIn(d2, P2, more[i])]
        BY <3>1 DEF Entries
      <3>3. Entries(d2, P2, of) = [i \in 1..Len(of) |-> EntryIn(d2, P2, of[i])]
        BY DEF Entries
      <3> DEFINE E == [i \in 1..Len(of) |-> EntryIn(d2, P2, of[i])]
      <3>4. Append(E, new) = [i \in 1..(Len(of) + 1) |-> EntryIn(d2, P2, more[i])]
        <4>1. Len(E) = Len(of) /\ \A i \in 1..Len(of) : E[i] = EntryIn(d2, P2, more[i])
          BY <3>1
        <4>2. new = EntryIn(d2, P2, more[Len(of) + 1])
          BY <3>1
        <4> HIDE DEF new
        <4>3. Append(E, new) = [i \in 1..(Len(of) + 1) |-> IF i = Len(of) + 1 THEN new ELSE E[i]]
          <5>1. E = [i \in 1..Len(of) |-> E[i]]
            OBVIOUS
          <5> HIDE DEF E
          <5>2. QED
            BY <3>1, <5>1, AppendEntry
        <4>4. \A i \in 1..(Len(of) + 1) : i # Len(of) + 1 => i \in 1..Len(of)
          BY <3>1
        <4> HIDE DEF E
        <4>5. \A i \in 1..(Len(of) + 1) : (IF i = Len(of) + 1 THEN new ELSE E[i]) = EntryIn(d2, P2, more[i])
          BY <4>1, <4>2, <4>4
        <4>6. QED
          BY <4>3, <4>5
      <3>5. QED
        BY <3>2, <3>3, <3>4 DEF more
    <2>8. P[x] = Entries(d2, P2, of)
      BY <1>4, <2>3, <2>6 DEF SaidIn, A
    <2>9. P2[x] = Entries(d2, P2, IF c \in B THEN Append(of, c) ELSE of)
      BY <1>4, <2>4 DEF SaidIn, B
    <2>10. QED
      BY <2>7, <2>8, <2>9 DEF B
  <1>6. QED
    BY <1>5

-------------------------------------------------------------------------------
(* How the open elements lie in each other. *)

\* A document with one more node.
Longer1(d, d2, o, node) ==
    /\ GoesOn(d, d2) /\ Len(d2) = Len(d) + 1
    /\ d2[Len(d) + 1] = node /\ node.within = ToSet(o)

\* The nodes of a document that is being written.
Writes(d, o, w, sp) ==
    /\ IsTree(d)
    /\ o \in Seq(1..Len(d)) /\ w \in Seq(1..Len(d)) /\ sp \subseteq 1..Len(d)

LEMMA WritesFacts ==
    ASSUME NEW d, NEW o, NEW w, NEW sp, Writes(d, o, w, sp)
    PROVE  /\ IsTree(d) /\ Len(d) \in Nat /\ Len(o) \in Nat /\ Len(w) \in Nat
           /\ o \in Seq(1..Len(d)) /\ w \in Seq(1..Len(d)) /\ sp \subseteq 1..Len(d)
           /\ ToSet(o) \subseteq 1..Len(d) /\ ToSet(w) \subseteq 1..Len(d)
           /\ \A i \in 1..Len(o) : o[i] \in 1..Len(d) /\ o[i] \in ToSet(o)
           /\ \A x \in ToSet(o) : \E i \in 1..Len(o) : x = o[i]
  <1>1. Len(d) \in Nat /\ o \in Seq(1..Len(d)) /\ w \in Seq(1..Len(d)) /\ sp \subseteq 1..Len(d) /\ IsTree(d)
    <2>1. IsTree(d) /\ o \in Seq(1..Len(d)) /\ w \in Seq(1..Len(d)) /\ sp \subseteq 1..Len(d)
      BY Zenon DEF Writes
    <2>2. Len(d) \in Nat
      BY <2>1 DEF IsTree
    <2>3. QED
      BY <2>1, <2>2
  <1>2. ToSet(o) = {o[i] : i \in 1..Len(o)} /\ ToSet(w) = {w[i] : i \in 1..Len(w)}
    BY <1>1 DEF ToSet
  <1>3. QED
    BY <1>1, <1>2

\* The elements of a sequence with one more, and of one with one less.
LEMMA AppendElements ==
    ASSUME NEW U, NEW c \in Seq(U), NEW x
    PROVE  /\ Len(Append(c, x)) = Len(c) + 1 /\ Len(c) \in Nat
           /\ \A i \in 1..Len(c) : Append(c, x)[i] = c[i]
           /\ Append(c, x)[Len(c) + 1] = x
           /\ ToSet(Append(c, x)) = ToSet(c) \cup {x}
  <1> DEFINE b == Append(c, x)
  <1>1. Len(b) = Len(c) + 1 /\ Len(c) \in Nat /\ \A i \in 1..Len(c) : b[i] = c[i]
    OBVIOUS
  <1>2. b[Len(c) + 1] = x
    OBVIOUS
  <1> HIDE DEF b
  <1>3. ToSet(b) = {b[i] : i \in 1..(Len(c) + 1)} /\ ToSet(c) = {c[i] : i \in 1..Len(c)}
    BY <1>1 DEF ToSet
  <1>4. 1..(Len(c) + 1) = (1..Len(c)) \cup {Len(c) + 1}
    BY <1>1
  <1>5. ToSet(b) = ToSet(c) \cup {x}
    BY <1>1, <1>2, <1>3, <1>4
  <1>6. QED
    BY <1>1, <1>2, <1>5 DEF b

LEMMA NestsOlder ==
    ASSUME NEW d, NEW o, NEW w, NEW sp, Writes(d, o, w, sp), Nests(d, o, w, sp),
           NEW d2, NEW node, Longer1(d, d2, o, node), HasProperly(node)
    PROVE  Nests(d2, o, w, sp)
  <1> DEFINE N == Len(d) + 1
  <1>1. /\ Len(d) \in Nat /\ Len(d2) = N /\ \A i \in 1..Len(d) : d2[i] = d[i]
        /\ d2[N] = node
    BY DEF Longer1, GoesOn, IsTree
  <1>2. /\ ToSet(w) \subseteq 1..Len(d)
        /\ \A i \in 1..Len(o) : o[i] \in 1..Len(d)
    BY WritesFacts
  <1>3. Deepens(d2, o)
    BY <1>1, <1>2 DEF Nests, Deepens
  <1>4. EndsWhenClosed(d2, o, w)
    BY <1>1, <1>2 DEF Nests, EndsWhenClosed
  <1>5. \A n \in 1..Len(d2) : HasProperly(d2[n])
    <2>1. \A n \in 1..N : n \in 1..Len(d) \/ n = N
      BY <1>1
    <2>2. \A n \in 1..Len(d) : HasProperly(d2[n])
      BY <1>1 DEF Nests
    <2>3. QED
      BY <1>1, <2>1, <2>2
  <1>6. QED
    BY <1>3, <1>4, <1>5 DEF Nests

\* A new element that is open, and a new value.
LEMMA NestsOpen ==
    ASSUME NEW d, NEW o, NEW w, NEW sp, Writes(d, o, w, sp), Nests(d, o, w, sp),
           NEW d2, NEW node, Longer1(d, d2, o, node), HasProperly(node),
           node.kind \notin {"void", "text"}
    PROVE  Nests(d2, Append(o, Len(d) + 1), w, sp)
  <1> DEFINE N == Len(d) + 1
             b == Append(o, N)
             m == Len(o)
  <1>1. /\ Len(d) \in Nat /\ N \in Nat /\ Len(d2) = N /\ d2[N] = node /\ node.within = ToSet(o)
    BY DEF Longer1, GoesOn, IsTree
  <1>2. /\ ToSet(w) \subseteq 1..Len(d) /\ o \in Seq(1..Len(d)) /\ sp \subseteq 1..Len(d)
        /\ m \in Nat
        /\ \A i \in 1..m : o[i] \in 1..Len(d)
    BY WritesFacts
  <1>3. /\ Len(b) = m + 1 /\ \A i \in 1..m : b[i] = o[i]
        /\ b[m + 1] = N /\ ToSet(b) = ToSet(o) \cup {N}
    BY <1>2, AppendElements
  <1>4. Deepens(d2, o) /\ EndsWhenClosed(d2, o, w) /\ SpoilsOutwards(o, sp)
        /\ \A n \in 1..Len(d2) : HasProperly(d2[n])
    BY NestsOlder DEF Nests
  <1>5. ToSet(o) = {o[i] : i \in 1..m}
    BY DEF ToSet
  <1> HIDE DEF b, m
  <1>6. \A i \in 1..(m + 1) : i \in 1..m \/ i = m + 1
    BY <1>2
  <1>7. \A i, j \in 1..(m + 1) : i < j => b[i] < b[j]
    <2>1. ASSUME NEW i \in 1..(m + 1), NEW j \in 1..(m + 1), i < j PROVE b[i] < b[j]
      <3>1. i \in 1..m
        BY <1>2, <2>1
      <3>2. CASE j \in 1..m
        BY <1>3, <1>4, <3>1, <3>2, <2>1 DEF Deepens, m
      <3>3. CASE j = m + 1
        BY <1>1, <1>2, <1>3, <3>1, <3>3
      <3>4. QED
        BY <1>6, <3>2, <3>3
    <2>2. QED
      BY <2>1
  <1>8. ASSUME NEW i \in 1..(m + 1)
        PROVE  /\ d2[b[i]].within = {b[j] : j \in 1..(i - 1)}
               /\ d2[b[i]].kind \notin {"void", "text"}
    <2>1. \A j \in 1..(i - 1) : b[j] = o[j]
      <3>1. \A j \in 1..(i - 1) : j \in 1..m
        BY <1>2
      <3>2. QED
        BY <1>3, <3>1
    <2>2. {b[j] : j \in 1..(i - 1)} = {o[j] : j \in 1..(i - 1)}
      BY <2>1
    <2>3. CASE i \in 1..m
      BY <1>3, <1>4, <2>2, <2>3 DEF Deepens, m
    <2>4. CASE i = m + 1
      <3>1. i - 1 = m
        BY <1>2, <2>4
      <3>2. QED
        BY <1>1, <1>3, <1>5, <2>2, <2>4, <3>1
    <2>5. QED
      BY <1>6, <2>3, <2>4
  <1>9. Deepens(d2, b)
    BY <1>3, <1>7, <1>8 DEF Deepens
  <1>10. EndsWhenClosed(d2, b, w)
    <2>1. \A n \in ToSet(w) : n # N
      BY <1>1, <1>2
    <2>2. QED
      BY <1>3, <1>4, <2>1 DEF EndsWhenClosed
  <1>11. SpoilsOutwards(b, sp)
    <2>1. ASSUME NEW i \in 1..(m + 1), NEW j \in 1..(m + 1), i < j, b[j] \in sp PROVE b[i] \in sp
      <3>1. j # m + 1
        BY <1>1, <1>2, <1>3, <2>1
      <3>2. i \in 1..m /\ j \in 1..m
        BY <1>2, <1>6, <2>1, <3>1
      <3>3. QED
        BY <1>3, <1>4, <2>1, <3>2 DEF SpoilsOutwards, m
    <2>2. QED
      BY <1>3, <2>1 DEF SpoilsOutwards
  <1>12. QED
    BY <1>4, <1>9, <1>10, <1>11 DEF Nests, b

LEMMA NestsEnd ==
    ASSUME NEW d, NEW o, NEW w, NEW sp, Nests(d, o, w, sp), NEW w2,
           \A n \in ToSet(w2) : n \in ToSet(w) \/ d[n].kind = "attribute" \/ n \notin ToSet(o)
    PROVE  Nests(d, o, w2, sp)
  BY DEF Nests, EndsWhenClosed

\* Some of the innermost open elements end.
LEMMA NestsClose ==
    ASSUME NEW d, NEW o, NEW w, NEW sp, Writes(d, o, w, sp), Nests(d, o, w, sp),
           NEW o2, NEW m \in Nat, m <= Len(o), Len(o2) = m, \A i \in 1..m : o2[i] = o[i]
    PROVE  /\ Nests(d, o2, w, sp)
           /\ ToSet(o2) \subseteq ToSet(o)
           /\ \A i \in 1..Len(o) : m < i => o[i] \notin ToSet(o2)
  <1>1. \A i \in 1..m : i \in 1..Len(o)
    BY WritesFacts
  <1>2. Len(o) \in Nat /\ \A i \in 1..Len(o) : o[i] \in Nat
    BY WritesFacts
  <1>3. /\ \A i, j \in 1..Len(o) : i < j => o[i] < o[j]
        /\ \A i \in 1..Len(o) : /\ d[o[i]].within = {o[j] : j \in 1..(i - 1)}
                                /\ d[o[i]].kind \notin {"void", "text"}
    BY DEF Nests, Deepens
  <1>4. ToSet(o2) \subseteq ToSet(o)
    BY <1>1 DEF ToSet
  <1>5. Deepens(d, o2)
    <2>1. \A i, j \in 1..m : i < j => o2[i] < o2[j]
      BY <1>1, <1>3
    <2>2. ASSUME NEW i \in 1..m
          PROVE  /\ d[o2[i]].within = {o2[j] : j \in 1..(i - 1)}
                 /\ d[o2[i]].kind \notin {"void", "text"}
      <3>1. \A j \in 1..(i - 1) : o2[j] = o[j]
        <4>1. \A j \in 1..(i - 1) : j \in 1..m
          OBVIOUS
        <4>2. QED
          BY <4>1
      <3>2. {o2[j] : j \in 1..(i - 1)} = {o[j] : j \in 1..(i - 1)}
        BY <3>1
      <3>3. o2[i] = o[i] /\ i \in 1..Len(o)
        BY <1>1
      <3>4. QED
        BY <1>3, <3>2, <3>3
    <2>3. QED
      BY <2>1, <2>2 DEF Deepens
  <1>6. EndsWhenClosed(d, o2, w)
    BY <1>4 DEF Nests, EndsWhenClosed
  <1>7. SpoilsOutwards(o2, sp)
    BY <1>1 DEF Nests, SpoilsOutwards
  <1>8. ASSUME NEW i \in 1..Len(o), m < i PROVE o[i] \notin ToSet(o2)
    <2>1. \A j \in 1..m : o[j] < o[i]
      <3>1. \A j \in 1..m : j < i
        BY <1>2, <1>8
      <3>2. QED
        BY <1>1, <1>3, <3>1
    <2>2. \A j \in 1..m : o2[j] # o[i]
      BY <1>1, <1>2, <2>1
    <2>3. QED
      BY <2>2 DEF ToSet
  <1>9. QED
    BY <1>4, <1>5, <1>6, <1>7, <1>8 DEF Nests

LEMMA NestsSpoil ==
    ASSUME NEW d, NEW o, NEW w, NEW sp, NEW sp2, Nests(d, o, w, sp), ToSet(o) \subseteq sp2
    PROVE  Nests(d, o, w, sp2)
  <1>1. SpoilsOutwards(o, sp2)
    BY DEF SpoilsOutwards, ToSet
  <1>2. QED
    BY <1>1 DEF Nests

\* The innermost open element of a kind.
LEMMA OpenDeepest ==
    ASSUME NEW d, NEW o, NEW w, NEW sp, Writes(d, o, w, sp), NEW kind
    PROVE  /\ Deepest(d, ToSet(o), kind) \in ToSet(o) \cup {0}
           /\ Deepest(d, ToSet(o), kind) \in 0..Len(d)
           /\ Deepest(d, ToSet(o), kind) # 0 =>
                 Deepest(d, ToSet(o), kind) \in ToSet(o) /\ d[Deepest(d, ToSet(o), kind)].kind = kind
           /\ \A a \in ToSet(o) : d[a].kind = kind =>
                 Deepest(d, ToSet(o), kind) # 0 /\ a <= Deepest(d, ToSet(o), kind)
  <1> DEFINE S == ToSet(o)
             x == Deepest(d, S, kind)
             A == OfKind(d, S, kind)
  <1>1. Len(d) \in Nat /\ S \subseteq 1..Len(d)
    BY WritesFacts
  <1>2. \A a : a \in A <=> a \in S /\ d[a].kind = kind
    BY DEF OfKind
  <1> HIDE DEF S
  <1>3. /\ x \in 0..Len(d) /\ (x # 0 => x \in A)
        /\ \A a \in A : x >= a
        /\ A # {} => x # 0
    BY <1>1, DeepestFacts, Zenon
  <1> HIDE DEF x, A
  <1>4. ASSUME NEW a \in A PROVE x # 0 /\ a <= x
    <2>1. a \in S
      BY <1>2
    <2>2. a \in 1..Len(d)
      BY <1>1, <2>1
    <2>3. x >= a
      BY <1>3
    <2>4. x \in 0..Len(d)
      BY <1>3
    <2>5. QED
      BY <1>1, <2>2, <2>3, <2>4
  <1>5. QED
    BY <1>2, <1>3, <1>4 DEF x, S

LEMMA NewNodeFacts ==
    ASSUME NEW d, NEW o, NEW w, NEW sp, Writes(d, o, w, sp),
           NEW d2, NEW node, Longer1(d, d2, o, node)
    PROVE  /\ GoesOn(d, d2) /\ IsTree(d2)
           /\ Len(d) \in Nat /\ Len(d2) = Len(d) + 1 /\ d2[Len(d) + 1] = node
           /\ node.within = ToSet(o)
           /\ \A n \in 1..Len(d) : n \in 1..Len(d2) /\ d2[n] = d[n]
           /\ \A n \in ToSet(o) : n \in 1..Len(d) /\ d2[n] = d[n]
           /\ \A kind : Deepest(d2, ToSet(o), kind) = Deepest(d, ToSet(o), kind)
  <1>1. /\ GoesOn(d, d2) /\ IsTree(d2) /\ IsTree(d)
        /\ Len(d2) = Len(d) + 1 /\ d2[Len(d) + 1] = node
        /\ node.within = ToSet(o)
    BY DEF Longer1, GoesOn
  <1>2. Len(d) \in Nat /\ ToSet(o) \subseteq 1..Len(d)
    BY WritesFacts
  <1>3. \A n \in 1..Len(d) : n \in 1..Len(d2) /\ d2[n] = d[n]
    BY <1>1, <1>2 DEF GoesOn
  <1>4. \A n \in ToSet(o) : n \in 1..Len(d) /\ d2[n] = d[n]
    BY <1>2, <1>3
  <1>5. ASSUME NEW kind PROVE Deepest(d2, ToSet(o), kind) = Deepest(d, ToSet(o), kind)
    <2>1. \A a \in ToSet(o) : d2[a].kind = d[a].kind
      BY <1>4
    <2>2. QED
      BY <2>1, DeepestSame
  <1>6. QED
    BY <1>1, <1>2, <1>3, <1>4, <1>5

\* A piece of text belongs to the innermost open element with a text value.
LEMMA TextMore ==
    ASSUME NEW d, NEW o, NEW w, NEW sp, Writes(d, o, w, sp),
           NEW d2, NEW node, Longer1(d, d2, o, node)
    PROVE  /\ \A el \in 1..Len(d) :
                 TextIn(d2, el) = IF node.kind = "text" /\ Deepest(d, ToSet(o), "text_value") = el
                                  THEN TextIn(d, el) \cup {Len(d) + 1} ELSE TextIn(d, el)
           /\ TextIn(d2, Len(d) + 1) = {}
  <1> DEFINE N == Len(d) + 1
             top == Deepest(d, ToSet(o), "text_value")
  <1>1. /\ GoesOn(d, d2) /\ IsTree(d2) /\ Len(d) \in Nat /\ Len(d2) = N /\ d2[N] = node
        /\ node.within = ToSet(o)
        /\ Deepest(d2, ToSet(o), "text_value") = top
        /\ \A n \in 1..Len(d) : d2[n] = d[n]
    BY NewNodeFacts
  <1>2. \A n \in 1..Len(d) : Deepest(d2, d2[n].within, "text_value") = Deepest(d, d[n].within, "text_value")
    BY <1>1, OlderAncestors
  <1>3. 1..Len(d2) = (1..Len(d)) \cup {N}
    BY <1>1
  <1> HIDE DEF top, N
  <1>4. ASSUME NEW el \in 1..Len(d)
        PROVE  TextIn(d2, el) = IF node.kind = "text" /\ top = el
                                THEN TextIn(d, el) \cup {N} ELSE TextIn(d, el)
    <2>1. TextIn(d2, el) = {n \in (1..Len(d)) \cup {N} :
                               d2[n].kind = "text" /\ Deepest(d2, d2[n].within, "text_value") = el}
      BY <1>3 DEF TextIn
    <2>2. TextIn(d, el) = {n \in 1..Len(d) :
                               d[n].kind = "text" /\ Deepest(d, d[n].within, "text_value") = el}
      BY DEF TextIn
    <2>3. \A n \in 1..Len(d) : d2[n].kind = d[n].kind
      BY <1>1
    <2>4. d2[N].kind = node.kind /\ Deepest(d2, d2[N].within, "text_value") = top
      BY <1>1
    <2>5. QED
      BY <1>2, <2>1, <2>2, <2>3, <2>4
  <1>5. TextIn(d2, N) = {}
    <2>1. ASSUME NEW n \in 1..Len(d2) PROVE Deepest(d2, d2[n].within, "text_value") # N
      <3>1. Deepest(d2, d2[n].within, "text_value") < n /\ Deepest(d2, d2[n].within, "text_value") \in 0..(n - 1)
        BY <1>1, TreeFacts
      <3>2. QED
        BY <1>1, <3>1 DEF N
    <2>2. QED
      BY <2>1 DEF TextIn
  <1>6. QED
    BY <1>4, <1>5 DEF N, top

\* What is complete stays what it is.
LEMMA SettledNew ==
    ASSUME NEW d, NEW o, NEW w, NEW sp, Writes(d, o, w, sp), Nests(d, o, w, sp),
           NEW d2, NEW node, Longer1(d, d2, o, node),
           NEW v \in Seq({Len(d) + 1})
    PROVE  Settled(d, d2, w, v, ToSet(o) \cup {0})
  <1> DEFINE N == Len(d) + 1
             top == Deepest(d, ToSet(o), "text_value")
  <1>1. /\ d2[N] = node /\ node.within = ToSet(o)
        /\ Deepest(d2, ToSet(o), "scope") = Deepest(d, ToSet(o), "scope")
    BY NewNodeFacts
  <1>2. \A k \in 1..Len(v) : v[k] = N
    OBVIOUS
  <1>3. Deepest(d2, d2[N].within, "scope") \in ToSet(o) \cup {0}
    BY <1>1, OpenDeepest
  <1>4. \A k \in 1..Len(v) : Deepest(d2, d2[v[k]].within, "scope") \in ToSet(o) \cup {0}
    BY <1>2, <1>3
  <1>5. ASSUME NEW n \in ToSet(w)
        PROVE  IF d[n].kind = "scope" THEN n \notin ToSet(o) \cup {0} ELSE TextIn(d2, n) = TextIn(d, n)
    <2>1. n \in 1..Len(d)
      BY WritesFacts
    <2>2. d[n].kind = "attribute" \/ n \notin ToSet(o)
      BY DEF Nests, EndsWhenClosed
    <2>3. CASE d[n].kind = "scope"
      BY <2>1, <2>2, <2>3
    <2>4. top # n
      <3>1. top # 0 => top \in ToSet(o) /\ d[top].kind = "text_value"
        BY OpenDeepest
      <3> HIDE DEF top
      <3>2. QED
        BY <2>1, <2>2, <3>1
    <2>5. TextIn(d2, n) = TextIn(d, n)
      BY <2>1, <2>4, TextMore
    <2>6. QED
      BY <2>3, <2>5
  <1>6. QED
    BY <1>4, <1>5, Zenon DEF Settled

LEMMA SettledOld ==
    ASSUME NEW d, NEW o, NEW w, NEW sp, Writes(d, o, w, sp), Nests(d, o, w, sp),
           NEW v \in Seq(ToSet(o))
    PROVE  Settled(d, d, w, v, ToSet(o) \cup {0})
  <1>1. ASSUME NEW k \in 1..Len(v)
        PROVE  Deepest(d, d[v[k]].within, "scope") \in ToSet(o) \cup {0}
    <2>1. v[k] \in ToSet(o)
      OBVIOUS
    <2>2. PICK i \in 1..Len(o) : v[k] = o[i]
      <3>1. \A x \in ToSet(o) : \E i \in 1..Len(o) : x = o[i]
        BY WritesFacts
      <3>2. QED
        BY <2>1, <3>1
    <2> DEFINE S == d[v[k]].within
    <2>3. S = {o[j] : j \in 1..(i - 1)}
      BY <2>2 DEF Nests, Deepens
    <2>4. S \subseteq ToSet(o)
      <3>1. Len(o) \in Nat /\ \A j \in 1..Len(o) : o[j] \in ToSet(o)
        BY WritesFacts
      <3>2. \A j \in 1..(i - 1) : j \in 1..Len(o)
        BY <3>1
      <3>3. QED
        BY <2>3, <3>1, <3>2
    <2>5. Len(d) \in Nat /\ ToSet(o) \subseteq 1..Len(d)
      BY WritesFacts
    <2> HIDE DEF S
    <2>6. Deepest(d, S, "scope") # 0 => Deepest(d, S, "scope") \in OfKind(d, S, "scope")
      BY <2>4, <2>5, DeepestFacts
    <2>7. OfKind(d, S, "scope") \subseteq S
      BY DEF OfKind
    <2>8. QED
      BY <2>4, <2>6, <2>7 DEF S
  <1>2. ASSUME NEW n \in ToSet(w)
        PROVE  d[n].kind = "scope" => n \notin ToSet(o) \cup {0}
    <2>1. n \in 1..Len(d)
      BY WritesFacts
    <2>2. d[n].kind = "attribute" \/ n \notin ToSet(o)
      BY DEF Nests, EndsWhenClosed
    <2>3. QED
      BY <2>1, <2>2
  <1>3. QED
    BY <1>1, <1>2 DEF Settled

-------------------------------------------------------------------------------
(* The items that have ended. *)

\* A list and one that goes on from it.
Extends(c, b) == Len(c) <= Len(b) /\ \A i \in 1..Len(c) : b[i] = c[i]

LEMMA JoinedElements ==
    ASSUME NEW U, NEW w \in Seq(U), NEW V, NEW v \in Seq(V), NEW n \in ToSet(w \o v)
    PROVE  n \in ToSet(w) \/ \E k \in 1..Len(v) : n = v[k]
  <1> DEFINE s == w \o v
  <1>1. PICK i \in 1..Len(s) : n = s[i]
    <2>1. s \in Seq(U \cup V)
      OBVIOUS
    <2> HIDE DEF s
    <2>2. ToSet(s) = {s[i] : i \in 1..Len(s)}
      BY <2>1 DEF ToSet
    <2>3. n \in ToSet(s)
      BY DEF s
    <2>4. QED
      BY <2>2, <2>3
  <1>2. /\ Len(w) \in Nat /\ Len(v) \in Nat /\ Len(s) = Len(w) + Len(v)
        /\ \A j \in 1..Len(w) : s[j] = w[j]
        /\ \A j \in 1..Len(v) : s[Len(w) + j] = v[j]
    OBVIOUS
  <1> HIDE DEF s
  <1>3. CASE i \in 1..Len(w)
    <2>1. ToSet(w) = {w[j] : j \in 1..Len(w)}
      BY DEF ToSet
    <2>2. QED
      BY <1>1, <1>2, <1>3, <2>1
  <1>4. CASE i \notin 1..Len(w)
    <2>1. i - Len(w) \in 1..Len(v) /\ Len(w) + (i - Len(w)) = i
      BY <1>1, <1>2, <1>4
    <2>2. PICK j \in 1..Len(v) : Len(w) + j = i
      BY <2>1
    <2>3. s[Len(w) + j] = v[j]
      BY Zenon, <1>2
    <2>4. n = v[j]
      BY Zenon, <1>1, <2>2, <2>3
    <2>5. QED
      BY <2>4
  <1>5. QED
    BY <1>3, <1>4

LEMMA EndedGrows ==
    ASSUME NEW d, NEW d2, NEW w, NEW v, NEW P, NEW P2, NEW O, Reads(d, d2, w, v, P, P2, O),
           NEW sp, NEW sp2, sp \subseteq sp2, NEW n \in Ended(d2, w \o v, sp2)
    PROVE  /\ n \in StandsAlone(d2) /\ n \notin sp2
           /\ n \in Ended(d, w, sp) \/ \E k \in 1..Len(v) : n = v[k]
  <1>1. n \in StandsAlone(d2) /\ n \in ToSet(w \o v) /\ n \notin sp2
    BY DEF Ended
  <1>2. GoesOn(d, d2) /\ w \in Seq(1..Len(d)) /\ v \in Seq(1..Len(d2))
    BY Zenon DEF Reads
  <1>3. n \in ToSet(w) \/ \E k \in 1..Len(v) : n = v[k]
    BY <1>1, <1>2, JoinedElements
  <1>4. ASSUME n \in ToSet(w) PROVE n \in Ended(d, w, sp)
    <2>1. n \in 1..Len(d)
      BY <1>2, <1>4, OneMoreNode DEF GoesOn, IsTree
    <2>2. d2[n] = d[n]
      BY <1>2, <2>1 DEF GoesOn
    <2>3. n \in StandsAlone(d)
      BY <1>1, <2>1, <2>2 DEF StandsAlone
    <2>4. QED
      BY <1>1, <1>4, <2>3 DEF Ended
  <1>5. QED
    BY <1>1, <1>3, <1>4

LEMMA ItemsStay ==
    ASSUME NEW d, NEW d2, NEW w, NEW v, NEW P, NEW P2, NEW O, Reads(d, d2, w, v, P, P2, O),
           NEW sp, NEW items, ItemsAreRight(items, Ended(d, w, sp), P),
           NEW items2, Extends(items, items2)
    PROVE  ItemsAreRight(items2, Ended(d, w, sp), P2)
  <1>1. ASSUME NEW n \in Ended(d, w, sp)
        PROVE  \E i \in 1..Len(items2) : items2[i].el = n /\ items2[i].props = P2[n]
    <2>1. n \in 1..Len(d) /\ d[n].kind = "scope" /\ n \in ToSet(w)
      BY DEF Ended, StandsAlone
    <2>2. n \notin O
      BY <2>1 DEF Reads, Settled
    <2>3. P2[n] = P[n]
      <3>1. n \in 0..Len(d)
        BY <2>1
      <3>2. QED
        BY <2>2, <3>1, ClosedStay
    <2>4. PICK i \in 1..Len(items) : items[i].el = n /\ items[i].props = P[n]
      BY DEF ItemsAreRight
    <2>5. i \in 1..Len(items2) /\ items2[i] = items[i]
      BY <2>4 DEF Extends
    <2>6. QED
      BY <2>3, <2>4, <2>5
  <1>2. QED
    BY <1>1 DEF ItemsAreRight

\* After a departure in all that is open, only the items that have ended matter.
LEMMA Departed ==
    ASSUME NEW d, NEW d2, NEW w, NEW v, NEW P, NEW P2, NEW O, Reads(d, d2, w, v, P, P2, O),
           NEW sp, NEW sp2, sp \subseteq sp2,
           NEW p, ItemsAreRight(p.items, Ended(d, w, sp), P),
           NEW p2, Extends(p.items, p2.items),
           NEW o2, Len(o2) \in Nat, ToSet(o2) \subseteq sp2, \A i \in 1..Len(o2) : o2[i] \in ToSet(o2),
           \A k \in 1..Len(v) : v[k] \in sp2 \/ v[k] \notin StandsAlone(d2)
    PROVE  IsLocal(p2, d2, o2, w \o v, sp2, P2)
  <1>1. StackIsRight(p2.stack, d2, o2, sp2)
    <2>1. ASSUME NEW j \in 0..(Len(o2) - 1) PROVE FromTop(o2, j) \in sp2
      <3>1. Len(o2) - j \in 1..Len(o2)
        OBVIOUS
      <3>2. QED
        BY <3>1 DEF FromTop
    <2>2. QED
      BY <2>1 DEF StackIsRight
  <1>2. ScopesAreRight(p2.scopes, ToSet(o2) \ sp2, P2)
    BY DEF ScopesAreRight
  <1>3. ItemsAreRight(p2.items, Ended(d2, w \o v, sp2), P2)
    <2>1. ItemsAreRight(p2.items, Ended(d, w, sp), P2)
      BY ItemsStay
    <2>2. \A n \in Ended(d2, w \o v, sp2) : n \in Ended(d, w, sp)
      <3>1. ASSUME NEW n \in Ended(d2, w \o v, sp2) PROVE n \in Ended(d, w, sp)
        <4>1. /\ n \in StandsAlone(d2) /\ n \notin sp2
              /\ n \in Ended(d, w, sp) \/ \E k \in 1..Len(v) : n = v[k]
          BY EndedGrows
        <4>2. QED
          BY <4>1
      <3>2. QED
        BY <3>1
    <2>3. QED
      BY <2>1, <2>2 DEF ItemsAreRight
  <1>4. QED
    BY <1>1, <1>2, <1>3 DEF IsLocal

-------------------------------------------------------------------------------
(* The frames of the open elements. *)

LEMMA TopAppend ==
    ASSUME NEW U, NEW c \in Seq(U), NEW x
    PROVE  /\ FromTop(Append(c, x), 0) = x
           /\ \A j \in 1..Len(c) : FromTop(Append(c, x), j) = FromTop(c, j - 1)
  <1> DEFINE b == Append(c, x)
  <1>1. Len(b) = Len(c) + 1 /\ Len(c) \in Nat /\ b[Len(c) + 1] = x /\ \A i \in 1..Len(c) : b[i] = c[i]
    BY AppendElements
  <1> HIDE DEF b
  <1>2. FromTop(b, 0) = x
    BY <1>1 DEF FromTop
  <1>3. ASSUME NEW j \in 1..Len(c) PROVE FromTop(b, j) = FromTop(c, j - 1)
    <2>1. Len(b) - j = Len(c) - (j - 1) /\ Len(b) - j \in 1..Len(c)
      BY <1>1
    <2>2. QED
      BY <1>1, <2>1 DEF FromTop
  <1>4. QED
    BY <1>2, <1>3 DEF b

LEMMA TopFront ==
    ASSUME NEW U, NEW c \in Seq(U), c # <<>>
    PROVE  /\ FromTop(c, 0) = Last(c)
           /\ Len(Front(c)) = Len(c) - 1 /\ Len(c) \in Nat \ {0}
           /\ \A j \in 0..(Len(c) - 2) : FromTop(Front(c), j) = FromTop(c, j + 1)
  <1> DEFINE b == Front(c)
  <1>1. /\ Last(c) = c[Len(c)] /\ Len(b) = Len(c) - 1 /\ Len(c) \in 1..Len(c)
        /\ \A i \in 1..(Len(c) - 1) : b[i] = c[i]
    BY FrontFacts
  <1>2. Len(c) \in Nat \ {0}
    BY <1>1
  <1> HIDE DEF b
  <1>3. FromTop(c, 0) = Last(c)
    BY <1>1, <1>2 DEF FromTop
  <1>4. ASSUME NEW j \in 0..(Len(c) - 2) PROVE FromTop(b, j) = FromTop(c, j + 1)
    <2>1. Len(b) - j = Len(c) - (j + 1) /\ Len(b) - j \in 1..(Len(c) - 1)
      BY <1>1, <1>2
    <2>2. QED
      BY <1>1, <2>1 DEF FromTop
  <1>5. QED
    BY <1>1, <1>2, <1>3, <1>4 DEF b

\* Elements of the top of a sequence are elements of it.
LEMMA TopElements ==
    ASSUME NEW U, NEW c \in Seq(U)
    PROVE  /\ \A j \in 0..(Len(c) - 1) : FromTop(c, j) \in ToSet(c)
           /\ \A i \in 1..Len(c) : Len(c) - i \in 0..(Len(c) - 1) /\ FromTop(c, Len(c) - i) = c[i]
  <1>1. Len(c) \in Nat /\ \A i \in 1..Len(c) : c[i] \in ToSet(c)
    BY DEF ToSet
  <1>2. \A j \in 0..(Len(c) - 1) : Len(c) - j \in 1..Len(c)
    BY <1>1
  <1>3. ASSUME NEW i \in 1..Len(c)
        PROVE  Len(c) - i \in 0..(Len(c) - 1) /\ FromTop(c, Len(c) - i) = c[i]
    <2>1. Len(c) - (Len(c) - i) = i /\ Len(c) - i \in 0..(Len(c) - 1)
      BY <1>1
    <2>2. QED
      BY <2>1 DEF FromTop
  <1>4. QED
    BY <1>1, <1>2, <1>3 DEF FromTop

LEMMA StackSame ==
    ASSUME NEW d, NEW d2, NEW U, NEW o \in Seq(U), NEW sp, NEW stack,
           StackIsRight(stack, d, o, sp),
           \A el \in ToSet(o) : d2[el] = d[el] /\ TextIn(d2, el) = TextIn(d, el)
    PROVE  StackIsRight(stack, d2, o, sp)
  <1>1. ASSUME NEW j \in 0..(Len(o) - 1), FromTop(o, j) \notin sp
        PROVE  j < Len(stack) /\ Stands(FromTop(stack, j), d2, FromTop(o, j))
    <2> DEFINE el == FromTop(o, j)
               f == FromTop(stack, j)
    <2>1. el \in ToSet(o)
      BY TopElements
    <2>2. d2[el] = d[el] /\ TextIn(d2, el) = TextIn(d, el)
      BY <2>1
    <2>3. j < Len(stack) /\ Stands(f, d, el)
      BY <1>1 DEF StackIsRight
    <2> HIDE DEF el, f
    <2>4. Stands(f, d2, el)
      BY <2>2, <2>3, Zenon DEF Stands, Matches
    <2>5. QED
      BY <2>3, <2>4 DEF el, f
  <1>2. QED
    BY <1>1 DEF StackIsRight

LEMMA StackPush ==
    ASSUME NEW d, NEW U, NEW o \in Seq(U), NEW sp, NEW S, NEW stack \in Seq(S),
           StackIsRight(stack, d, o, sp), NEW f, NEW el, Stands(f, d, el)
    PROVE  StackIsRight(Append(stack, f), d, Append(o, el), sp)
  <1> DEFINE b == Append(stack, f)
             q == Append(o, el)
  <1>1. Len(b) = Len(stack) + 1 /\ Len(q) = Len(o) + 1 /\ Len(stack) \in Nat /\ Len(o) \in Nat
    OBVIOUS
  <1>2. /\ FromTop(b, 0) = f /\ FromTop(q, 0) = el
        /\ \A j \in 1..Len(stack) : FromTop(b, j) = FromTop(stack, j - 1)
        /\ \A j \in 1..Len(o) : FromTop(q, j) = FromTop(o, j - 1)
    BY TopAppend
  <1> HIDE DEF b, q
  <1>3. ASSUME NEW j \in 0..(Len(q) - 1), FromTop(q, j) \notin sp
        PROVE  j < Len(b) /\ Stands(FromTop(b, j), d, FromTop(q, j))
    <2>1. CASE j = 0
      BY <1>1, <1>2, <2>1
    <2>2. CASE j # 0
      <3>1. j \in 1..Len(o) /\ j - 1 \in 0..(Len(o) - 1)
        BY <1>1, <2>2
      <3>2. FromTop(q, j) = FromTop(o, j - 1)
        BY <1>2, <3>1
      <3>3. j - 1 < Len(stack) /\ Stands(FromTop(stack, j - 1), d, FromTop(o, j - 1))
        BY <1>3, <3>1, <3>2 DEF StackIsRight
      <3>4. j \in 1..Len(stack)
        BY <1>1, <3>1, <3>3
      <3>5. FromTop(b, j) = FromTop(stack, j - 1)
        BY <1>2, <3>4
      <3>6. QED
        BY <1>1, <3>2, <3>3, <3>4, <3>5
    <2>3. QED
      BY <2>1, <2>2
  <1>4. QED
    BY <1>3 DEF StackIsRight, b, q

LEMMA StackPop ==
    ASSUME NEW d, NEW U, NEW o \in Seq(U), NEW sp, NEW S, NEW stack \in Seq(S),
           StackIsRight(stack, d, o, sp), o # <<>>, stack # <<>>
    PROVE  /\ StackIsRight(Front(stack), d, Front(o), sp)
           /\ Last(o) \notin sp => Stands(Last(stack), d, Last(o))
  <1> DEFINE b == Front(stack)
             q == Front(o)
  <1>1. /\ Len(b) = Len(stack) - 1 /\ Len(q) = Len(o) - 1
        /\ Len(stack) \in Nat \ {0} /\ Len(o) \in Nat \ {0}
        /\ FromTop(stack, 0) = Last(stack) /\ FromTop(o, 0) = Last(o)
        /\ \A j \in 0..(Len(stack) - 2) : FromTop(b, j) = FromTop(stack, j + 1)
        /\ \A j \in 0..(Len(o) - 2) : FromTop(q, j) = FromTop(o, j + 1)
    BY TopFront
  <1> HIDE DEF b, q
  <1>2. ASSUME NEW j \in 0..(Len(q) - 1), FromTop(q, j) \notin sp
        PROVE  j < Len(b) /\ Stands(FromTop(b, j), d, FromTop(q, j))
    <2>1. j \in 0..(Len(o) - 2) /\ j + 1 \in 0..(Len(o) - 1)
      BY <1>1
    <2>2. FromTop(q, j) = FromTop(o, j + 1)
      BY <1>1, <2>1
    <2>3. j + 1 < Len(stack) /\ Stands(FromTop(stack, j + 1), d, FromTop(o, j + 1))
      BY <1>2, <2>1, <2>2 DEF StackIsRight
    <2>4. j \in 0..(Len(stack) - 2)
      BY <1>1, <2>1, <2>3
    <2>5. FromTop(b, j) = FromTop(stack, j + 1)
      BY <1>1, <2>4
    <2>6. QED
      BY <1>1, <2>2, <2>3, <2>4, <2>5
  <1>3. Last(o) \notin sp => Stands(Last(stack), d, Last(o))
    <2>1. 0 \in 0..(Len(o) - 1)
      BY <1>1
    <2>2. QED
      BY <1>1, <2>1 DEF StackIsRight
  <1>4. QED
    BY <1>2, <1>3 DEF StackIsRight, b, q

-------------------------------------------------------------------------------
(* The innermost open scope. *)

\* In a rising stack the greater element is the later one.
LEMMA RisingIndex ==
    ASSUME NEW s, IsRising(s), NEW p \in 1..Len(s), NEW q \in 1..Len(s), Len(s) \in Nat,
           s[p].el \in Nat, s[q].el \in Nat, s[p].el <= s[q].el
    PROVE  p <= q
  <1>1. q < p => s[q].el < s[p].el
    BY Zenon DEF IsRising
  <1>2. QED
    BY <1>1

\* From the frame of an open element without a departure upwards, the stack is that
\* of the open elements.
LEMMA TopFrames ==
    ASSUME NEW d, NEW o, NEW w, NEW sp, Writes(d, o, w, sp), Nests(d, o, w, sp),
           NEW S, NEW stack \in Seq(S), StackIsRight(stack, d, o, sp),
           NEW i \in 1..Len(o), o[i] \notin sp
    PROVE  /\ \A k \in i..Len(o) : /\ o[k] \notin sp
                                   /\ Len(stack) - (Len(o) - k) \in 1..Len(stack)
                                   /\ Stands(stack[Len(stack) - (Len(o) - k)], d, o[k])
           /\ \A q \in 1..Len(stack) : Len(stack) - (Len(o) - i) <= q =>
                 \E k \in i..Len(o) : q = Len(stack) - (Len(o) - k)
  <1>0. Len(o) \in Nat /\ Len(stack) \in Nat
    BY WritesFacts
  <1>1. ASSUME NEW k \in i..Len(o)
        PROVE  /\ o[k] \notin sp
               /\ Len(stack) - (Len(o) - k) \in 1..Len(stack)
               /\ Stands(stack[Len(stack) - (Len(o) - k)], d, o[k])
    <2>1. k \in 1..Len(o) /\ (i < k \/ k = i)
      BY <1>0
    <2>2. SpoilsOutwards(o, sp)
      BY DEF Nests
    <2>3. o[k] \notin sp
      BY Zenon, <2>1, <2>2 DEF SpoilsOutwards
    <2>4. PICK j \in 0..(Len(o) - 1) : j = Len(o) - k
      <3>1. Len(o) - k \in 0..(Len(o) - 1)
        BY <1>0, <2>1
      <3>2. QED
        BY Zenon, <3>1
    <2>5. Len(o) - j = k
      BY <1>0, <2>1, <2>4
    <2>6. FromTop(o, j) = o[k]
      BY Zenon, <2>5 DEF FromTop
    <2>7. j < Len(stack) /\ Stands(FromTop(stack, j), d, o[k])
      BY Zenon, <2>3, <2>6 DEF StackIsRight
    <2>8. Stands(stack[Len(stack) - (Len(o) - k)], d, o[k])
      BY Zenon, <2>4, <2>7 DEF FromTop
    <2>9. Len(stack) - (Len(o) - k) \in 1..Len(stack)
      BY <1>0, <2>1, <2>4, <2>7
    <2>10. QED
      BY <2>3, <2>8, <2>9
  <1>2. ASSUME NEW q \in 1..Len(stack), Len(stack) - (Len(o) - i) <= q
        PROVE  \E k \in i..Len(o) : q = Len(stack) - (Len(o) - k)
    <2>1. /\ q - Len(stack) + Len(o) \in i..Len(o)
          /\ q = Len(stack) - (Len(o) - (q - Len(stack) + Len(o)))
      BY <1>0, <1>2
    <2>2. QED
      BY <2>1
  <1>3. QED
    BY <1>1, <1>2

\* The elements of a stack of frames or of scopes are nodes.
LEMMA StackNodes ==
    ASSUME NEW n \in Nat, NEW stack \in Seq(Frames(n)), NEW scopes \in Seq(Scopes(n))
    PROVE  /\ Len(stack) \in Nat /\ Len(scopes) \in Nat
           /\ \A i \in 1..Len(stack) : stack[i].el \in 1..n /\ stack[i].el \in Nat
           /\ \A i \in 1..Len(scopes) : scopes[i].el \in 1..n /\ scopes[i].el \in Nat
  <1>1. \A i \in 1..Len(stack) : stack[i] \in Frames(n)
    OBVIOUS
  <1>2. \A i \in 1..Len(scopes) : scopes[i] \in Scopes(n)
    OBVIOUS
  <1>3. \A f \in Frames(n) : f.el \in 1..n /\ f.el \in Nat
    BY DEF Frames
  <1>4. \A f \in Scopes(n) : f.el \in 1..n /\ f.el \in Nat
    BY DEF Scopes
  <1>5. QED
    BY <1>1, <1>2, <1>3, <1>4

\* Two stacks that agree.
Rises(stack, scopes, n) ==
    /\ stack \in Seq(Frames(n)) /\ scopes \in Seq(Scopes(n))
    /\ IsRising(stack) /\ IsRising(scopes) /\ Els(scopes) = Opened(stack)

\* The last scope is that of the innermost open item, if that has no departure, and
\* it is so if the last scope is one of these elements.
LEMMA LastScope ==
    ASSUME NEW d, NEW o, NEW w, NEW sp, Writes(d, o, w, sp), Nests(d, o, w, sp),
           NEW n \in Nat, NEW stack, NEW scopes, Rises(stack, scopes, n),
           StackIsRight(stack, d, o, sp),
           NEW x, x = Deepest(d, ToSet(o), "scope")
    PROVE  /\ x # 0 /\ x \notin sp => scopes # <<>> /\ Last(scopes).el = x
           /\ scopes # <<>> /\ Last(scopes).el \in ToSet(o) \ sp => Last(scopes).el = x
  <1>0. /\ stack \in Seq(Frames(n)) /\ scopes \in Seq(Scopes(n))
        /\ IsRising(stack) /\ IsRising(scopes) /\ Els(scopes) = Opened(stack)
    BY DEF Rises
  <1>a. /\ Len(stack) \in Nat /\ Len(scopes) \in Nat
        /\ \A i \in 1..Len(stack) : stack[i].el \in 1..n /\ stack[i].el \in Nat
        /\ \A i \in 1..Len(scopes) : scopes[i].el \in 1..n /\ scopes[i].el \in Nat
    BY <1>0, StackNodes
  <1>b. /\ Len(d) \in Nat /\ Len(o) \in Nat /\ ToSet(o) \subseteq 1..Len(d)
        /\ \A i \in 1..Len(o) : o[i] \in 1..Len(d) /\ o[i] \in ToSet(o)
        /\ \A y \in ToSet(o) : \E i \in 1..Len(o) : y = o[i]
    BY WritesFacts
  <1>c. /\ x \in ToSet(o) \cup {0} /\ x \in 0..Len(d)
        /\ x # 0 => x \in ToSet(o) /\ d[x].kind = "scope"
        /\ \A a \in ToSet(o) : d[a].kind = "scope" => x # 0 /\ a <= x
    BY OpenDeepest
  <1>d. \A y \in Opened(stack) : \E q \in 1..Len(stack) : stack[q].el = y /\ stack[q].opened_scope
    BY DEF Opened
  <1>e. scopes # <<>> => /\ Last(scopes).el \in Els(scopes)
                         /\ \A y \in Els(scopes) : y <= Last(scopes).el
    BY <1>0, <1>a, RisingFront
  <1>f. \A i \in 1..Len(scopes) : scopes[i].el \in Els(scopes)
    BY DEF Els
  <1>1. ASSUME x # 0, x \notin sp
        PROVE  scopes # <<>> /\ Last(scopes).el = x
    <2>1. PICK i \in 1..Len(o) : x = o[i]
      BY <1>1, <1>b, <1>c
    <2> DEFINE p == Len(stack) - (Len(o) - i)
    <2>a. o[i] \notin sp
      BY <1>1, <2>1
    <2>b. /\ \A k \in i..Len(o) : /\ o[k] \notin sp
                                  /\ Len(stack) - (Len(o) - k) \in 1..Len(stack)
                                  /\ Stands(stack[Len(stack) - (Len(o) - k)], d, o[k])
          /\ \A q \in 1..Len(stack) : Len(stack) - (Len(o) - i) <= q =>
                \E k \in i..Len(o) : q = Len(stack) - (Len(o) - k)
      BY <1>0, <2>a, TopFrames, SMTT(30)
    <2>2. /\ \A k \in i..Len(o) : /\ o[k] \notin sp
                                  /\ Len(stack) - (Len(o) - k) \in 1..Len(stack)
                                  /\ Stands(stack[Len(stack) - (Len(o) - k)], d, o[k])
          /\ \A q \in 1..Len(stack) : p <= q =>
                \E k \in i..Len(o) : q = Len(stack) - (Len(o) - k)
      BY Zenon, <2>b
    <2>3. i \in i..Len(o)
      BY <1>b
    <2>4. p \in 1..Len(stack) /\ Stands(stack[p], d, x)
      BY Zenon, <2>1, <2>2, <2>3
    <2> HIDE DEF p
    <2>5. stack[p].el = x /\ stack[p].opened_scope
      BY <1>1, <1>c, <2>4 DEF Stands, Matches
    <2>6. x \in Els(scopes)
      BY <1>0, <2>4, <2>5 DEF Opened
    <2>7. scopes # <<>>
      BY <1>a, <2>6 DEF Els
    <2>8. PICK q \in 1..Len(stack) : stack[q].el = Last(scopes).el /\ stack[q].opened_scope
      BY Zenon, <1>0, <1>d, <1>e, <2>7
    <2>9. stack[p].el <= stack[q].el
      BY Zenon, <1>e, <2>5, <2>6, <2>7, <2>8
    <2>10. p <= q
      BY <1>0, <1>a, <2>4, <2>9, RisingIndex
    <2>11. PICK k \in i..Len(o) : q = Len(stack) - (Len(o) - k)
      BY Zenon, <2>2, <2>10
    <2>12. Stands(stack[q], d, o[k])
      BY Zenon, <2>2, <2>11
    <2>13. k \in 1..Len(o)
      BY <1>b
    <2>14. Last(scopes).el = o[k] /\ d[o[k]].kind = "scope"
      BY <2>8, <2>12 DEF Stands, Matches
    <2>15. o[k] <= x /\ o[k] \in Nat /\ x \in Nat
      BY <1>b, <1>c, <2>13, <2>14
    <2>16. x <= o[k]
      BY Zenon, <2>5, <2>8, <2>9, <2>14
    <2>17. QED
      BY <2>7, <2>14, <2>15, <2>16
  <1>2. ASSUME scopes # <<>>, Last(scopes).el \in ToSet(o) \ sp
        PROVE  Last(scopes).el = x
    <2> DEFINE y == Last(scopes).el
    <2>1. PICK i \in 1..Len(o) : y = o[i]
      BY <1>2, <1>b
    <2>2. PICK q \in 1..Len(stack) : stack[q].el = y /\ stack[q].opened_scope
      BY Zenon, <1>0, <1>2, <1>d, <1>e
    <2>3. \A k \in i..Len(o) : /\ o[k] \notin sp
                               /\ Len(stack) - (Len(o) - k) \in 1..Len(stack)
                               /\ Stands(stack[Len(stack) - (Len(o) - k)], d, o[k])
      <3>1. o[i] \notin sp
        BY <1>2, <2>1
      <3>2. QED
        BY <1>0, <3>1, TopFrames, SMTT(30)
    <2>4. i \in i..Len(o)
      BY <1>b
    <2>5. PICK p \in 1..Len(stack) : Stands(stack[p], d, y)
      BY Zenon, <2>1, <2>3, <2>4
    <2> HIDE DEF y
    <2>6. stack[p].el = y
      BY <2>5 DEF Stands, Matches
    <2>7. p <= q /\ q <= p
      <3>1. stack[p].el <= stack[q].el /\ stack[q].el <= stack[p].el
        BY <1>a, <2>2, <2>6
      <3>2. QED
        BY <1>0, <1>a, <3>1, RisingIndex
    <2>8. p = q
      BY <2>7
    <2>9. d[y].kind = "scope"
      BY <2>2, <2>5, <2>8 DEF Stands, Matches
    <2>10. y \in ToSet(o)
      BY <1>2 DEF y
    <2>11. x # 0 /\ y <= x /\ x \in ToSet(o)
      BY <1>c, <2>9, <2>10
    <2>12. PICK k \in 1..Len(o) : x = o[k]
      BY <1>b, <2>11
    <2>13. k < i => o[k] < o[i]
      BY Zenon DEF Nests, Deepens
    <2>14. k \in i..Len(o)
      BY <1>b, <2>1, <2>11, <2>12, <2>13
    <2>15. x \notin sp
      BY Zenon, <2>3, <2>12, <2>14
    <2>16. QED
      BY <1>1, <2>11, <2>15 DEF y
  <1>3. QED
    BY <1>1, <1>2

\* What is added to the last scope is what its item is said to have more, and that
\* is item x, if x is one of U.
Fits(c, U, x, P, P2, prop, v) ==
    /\ ScopesAreRight(c, U, P)
    /\ x \in U => c # <<>> /\ Last(c).el = x
    /\ c # <<>> /\ Last(c).el \in U => Last(c).el = x
    /\ \A u \in U : P2[u] = IF u = x /\ v # NoValue
                            THEN Append(P[u], [prop |-> prop, value |-> v]) ELSE P[u]

LEMMA AddRight ==
    ASSUME NEW n \in Nat, NEW c \in Seq(Scopes(n)), IsRising(c), NEW U, NEW x, NEW P, NEW P2,
           NEW prop \in Props, NEW v \in Values(n) \cup {NoValue}, Fits(c, U, x, P, P2, prop, v)
    PROVE  ScopesAreRight(Add(c, prop, v), U, P2)
  <1> DEFINE b == Add(c, prop, v)
             k == Len(c)
             new == [prop |-> prop, value |-> v]
  <1>1. /\ Len(c) \in Nat
        /\ \A i \in 1..Len(c) : c[i].el \in 1..n /\ c[i].el \in Nat
    <2>1. \A i \in 1..Len(c) : c[i] \in Scopes(n)
      OBVIOUS
    <2>2. \A f \in Scopes(n) : f.el \in 1..n /\ f.el \in Nat
      BY DEF Scopes
    <2>3. QED
      BY <2>1, <2>2
  <1>0. /\ ScopesAreRight(c, U, P)
        /\ x \in U => c # <<>> /\ Last(c).el = x
        /\ c # <<>> /\ Last(c).el \in U => Last(c).el = x
        /\ \A u \in U : P2[u] = IF u = x /\ v # NoValue
                                THEN Append(P[u], [prop |-> prop, value |-> v]) ELSE P[u]
    BY Zenon DEF Fits
  <1>2. Len(b) = k /\ \A i \in 1..k : b[i].el = c[i].el
    BY AddFacts
  <1>3. \A i \in 1..k : i # k \/ v = NoValue => b[i].props = c[i].props
    <2>1. CASE c = <<>> \/ v = NoValue
      BY <2>1 DEF Add
    <2>2. CASE ~ (c = <<>> \/ v = NoValue)
      <3>1. b = [c EXCEPT ![k].props = Append(@, new)]
        BY Zenon, <2>2 DEF Add
      <3>2. \A i \in 1..k : i # k => b[i] = c[i]
        BY <3>1
      <3>3. QED
        BY <2>2, <3>2
    <2>3. QED
      BY <2>1, <2>2
  <1>4. c # <<>> /\ v # NoValue => k \in 1..k /\ b[k].props = Append(c[k].props, new)
    <2>1. SUFFICES ASSUME c # <<>>, v # NoValue
                   PROVE  k \in 1..k /\ b[k].props = Append(c[k].props, new)
      OBVIOUS
    <2> DEFINE top == [c[k] EXCEPT !.props = Append(c[k].props, new)]
    <2>2. b = [c EXCEPT ![k] = top]
      BY <2>1 DEF Add
    <2>3. k \in 1..k
      BY <1>1, <2>1
    <2>4. b[k] = top
      <3> HIDE DEF top
      <3>1. QED
        BY <2>2, <2>3
    <2>5. c[k] \in Scopes(n)
      BY <2>3
    <2>6. top.props = Append(c[k].props, new)
      BY <2>5 DEF Scopes
    <2>7. QED
      BY <2>3, <2>4, <2>6
  <1>5. c # <<>> => Last(c) = c[k]
    BY FrontFacts
  <1> HIDE DEF b, k, new
  <1>6. SUFFICES ASSUME NEW j \in 1..Len(b), b[j].el \in U
                 PROVE  b[j].props = P2[b[j].el]
    BY DEF ScopesAreRight, b
  <1>7. j \in 1..k /\ j \in 1..Len(c) /\ c[j].el = b[j].el /\ c[j].el \in U /\ c # <<>>
    BY <1>2, <1>6, <1>1 DEF k
  <1>8. c[j].props = P[c[j].el]
    BY Zenon, <1>0, <1>7 DEF ScopesAreRight
  <1>9. CASE j = k
    <2>1. c[j].el = x
      BY Zenon, <1>0, <1>5, <1>7, <1>9
    <2>2. P2[x] = IF v # NoValue THEN Append(P[x], new) ELSE P[x]
      BY Zenon, <1>0, <1>7, <2>1 DEF new
    <2>3. CASE v = NoValue
      BY Zenon, <1>3, <1>7, <1>8, <2>1, <2>2, <2>3
    <2>4. CASE v # NoValue
      BY Zenon, <1>4, <1>7, <1>8, <1>9, <2>1, <2>2, <2>4
    <2>5. QED
      BY <2>3, <2>4
  <1>10. CASE j # k
    <2>1. j < k /\ k \in 1..Len(c)
      BY <1>1, <1>7, <1>10 DEF k
    <2>2. c[j].el < c[k].el
      BY Zenon, <1>7, <2>1 DEF IsRising
    <2>3. c[j].el # c[k].el
      BY <1>1, <1>7, <2>1, <2>2
    <2>4. c[j].el # x
      BY Zenon, <1>0, <1>5, <1>7, <2>3
    <2>5. P2[c[j].el] = P[c[j].el]
      BY Zenon, <1>0, <1>7, <2>4
    <2>6. QED
      BY Zenon, <1>3, <1>7, <1>8, <1>10, <2>5
  <1>11. QED
    BY <1>9, <1>10

-------------------------------------------------------------------------------
(* The steps. *)

Good(p, d, o, w, sp, P) ==
    /\ Writes(d, o, w, sp) /\ Nests(d, o, w, sp)
    /\ Agree(p, Len(d)) /\ IsSaid(P, d, w)
    /\ IsLocal(p, d, o, w, sp, P)

LEMMA GoodFacts ==
    ASSUME NEW p, NEW d, NEW o, NEW w, NEW sp, NEW P, Good(p, d, o, w, sp, P)
    PROVE  /\ Writes(d, o, w, sp) /\ Nests(d, o, w, sp)
           /\ IsTree(d) /\ Len(d) \in Nat /\ Len(o) \in Nat
           /\ o \in Seq(1..Len(d)) /\ w \in Seq(1..Len(d)) /\ ToSet(o) \subseteq 1..Len(d)
           /\ Agree(p, Len(d)) /\ IsSaid(P, d, w)
           /\ Rises(p.stack, p.scopes, Len(d))
           /\ p.stack \in Seq(Frames(Len(d))) /\ p.scopes \in Seq(Scopes(Len(d)))
           /\ IsRising(p.stack) /\ IsRising(p.scopes)
           /\ p.items \in Seq(Scopes(Len(d)))
           /\ StackIsRight(p.stack, d, o, sp)
           /\ ScopesAreRight(p.scopes, ToSet(o) \ sp, P)
           /\ ItemsAreRight(p.items, Ended(d, w, sp), P)
  <1>1. Writes(d, o, w, sp) /\ Nests(d, o, w, sp) /\ Agree(p, Len(d)) /\ IsSaid(P, d, w)
        /\ IsLocal(p, d, o, w, sp, P)
    BY DEF Good
  <1>2. /\ IsTree(d) /\ Len(d) \in Nat /\ Len(o) \in Nat
        /\ o \in Seq(1..Len(d)) /\ w \in Seq(1..Len(d)) /\ ToSet(o) \subseteq 1..Len(d)
    BY <1>1, WritesFacts
  <1>3. /\ p.stack \in Seq(Frames(Len(d))) /\ p.scopes \in Seq(Scopes(Len(d)))
        /\ p.items \in Seq(Scopes(Len(d)))
    BY <1>1 DEF Agree, Parsers
  <1>4. IsRising(p.stack) /\ IsRising(p.scopes) /\ Els(p.scopes) = Opened(p.stack)
    BY <1>1 DEF Agree
  <1>5. Rises(p.stack, p.scopes, Len(d))
    BY <1>3, <1>4 DEF Rises
  <1>6. QED
    BY <1>1, <1>2, <1>3, <1>4, <1>5 DEF IsLocal

\* A new node without a value changes nothing that has been said.
LEMMA SaidNone ==
    ASSUME NEW p, NEW d, NEW o, NEW w, NEW sp, NEW P, Good(p, d, o, w, sp, P),
           NEW d2, NEW node, Longer1(d, d2, o, node), NEW P2, IsSaid(P2, d2, w)
    PROVE  \A x \in 0..Len(d) : P2[x] = P[x]
  <1>1. GoesOn(d, d2)
    BY DEF Longer1
  <1>2. Writes(d, o, w, sp) /\ Nests(d, o, w, sp) /\ IsSaid(P, d, w) /\ w \in Seq(1..Len(d))
    BY GoodFacts
  <1>3. <<>> \in Seq({Len(d) + 1})
    OBVIOUS
  <1>4. Settled(d, d2, w, <<>>, ToSet(o) \cup {0})
    BY <1>2, <1>3, SettledNew
  <1>5. \A n \in ToSet(w) : d[n].kind = "scope" \/ TextIn(d2, n) = TextIn(d, n)
    BY Zenon, <1>4 DEF Settled
  <1>6. QED
    BY <1>1, <1>2, <1>5, SaysSame

\* A new node with a value in an attribute adds it to the innermost open item.
LEMMA SaidNew ==
    ASSUME NEW p, NEW d, NEW o, NEW w, NEW sp, NEW P, Good(p, d, o, w, sp, P),
           NEW d2, NEW node, Longer1(d, d2, o, node), node.kind \in {"void", "attribute"},
           NEW P2, IsSaid(P2, d2, Append(w, Len(d) + 1))
    PROVE  \A x \in 0..Len(d) :
              P2[x] = IF node.prop # NoProp /\ Deepest(d, ToSet(o), "scope") = x
                      THEN Append(P[x], [prop |-> node.prop, value |-> Value(Len(d) + 1, {})])
                      ELSE P[x]
  <1> DEFINE el == Len(d) + 1
  <1>1. Writes(d, o, w, sp) /\ Nests(d, o, w, sp) /\ IsSaid(P, d, w) /\ w \in Seq(1..Len(d))
    BY GoodFacts
  <1>2. /\ GoesOn(d, d2) /\ Len(d) \in Nat /\ Len(d2) = Len(d) + 1 /\ d2[el] = node
        /\ node.within = ToSet(o)
        /\ Deepest(d2, ToSet(o), "scope") = Deepest(d, ToSet(o), "scope")
    BY <1>1, NewNodeFacts
  <1>3. <<el>> \in Seq({el}) /\ el \in 1..Len(d2)
    BY <1>2
  <1>4. Settled(d, d2, w, <<el>>, ToSet(o) \cup {0})
    BY <1>1, <1>3, SettledNew
  <1>5. TextIn(d2, el) = {}
    BY <1>1, TextMore
  <1> HIDE DEF el
  <1>6. \A x \in 0..Len(d) :
           P2[x] = IF el \in HasIn(d2, P2, x) THEN Append(P[x], EntryIn(d2, P2, el)) ELSE P[x]
    <2>1. IsSaid(P2, d2, Append(w, el))
      BY DEF el
    <2>2. QED
      BY <1>1, <1>2, <1>3, <1>4, <2>1, SaysMore
  <1>7. ValueIn(d2, P2, el) = Value(el, {})
    BY <1>2, <1>5 DEF ValueIn
  <1>8. Value(el, {}) # NoValue
    BY <1>2, <1>3 DEF Value, NoValue, el
  <1>9. EntryIn(d2, P2, el) = [prop |-> node.prop, value |-> Value(el, {})]
    BY Zenon, <1>2, <1>7 DEF EntryIn
  <1>10. \A x : el \in HasIn(d2, P2, x)
                  <=> node.prop # NoProp /\ Deepest(d, ToSet(o), "scope") = x
    BY Zenon, <1>2, <1>3, <1>7, <1>8 DEF HasIn
  <1>11. QED
    BY Zenon, <1>6, <1>9, <1>10 DEF el

\* No item that stands alone ends.
LEMMA ItemsKept ==
    ASSUME NEW d, NEW d2, NEW w, NEW v, NEW P, NEW P2, NEW O, Reads(d, d2, w, v, P, P2, O),
           NEW sp, NEW items, ItemsAreRight(items, Ended(d, w, sp), P),
           \A k \in 1..Len(v) : v[k] \notin StandsAlone(d2)
    PROVE  ItemsAreRight(items, Ended(d2, w \o v, sp), P2)
  <1>1. ASSUME NEW n \in Ended(d2, w \o v, sp)
        PROVE  n \in Ended(d, w, sp)
    <2>1. n \in StandsAlone(d2) /\ (n \in Ended(d, w, sp) \/ \E k \in 1..Len(v) : n = v[k])
      <3>1. sp \subseteq sp
        OBVIOUS
      <3>2. QED
        BY <3>1, EndedGrows
    <2>2. QED
      BY <2>1
  <1>2. Extends(items, items)
    <2>1. Len(items) <= Len(items)
      OBVIOUS
    <2>2. QED
      BY <2>1 DEF Extends
  <1>3. ItemsAreRight(items, Ended(d, w, sp), P2)
    BY <1>2, ItemsStay
  <1>4. QED
    BY Zenon, <1>1, <1>3 DEF ItemsAreRight

\* A new node is read, whatever it is, if no text is.
LEMMA NewReads ==
    ASSUME NEW p, NEW d, NEW o, NEW w, NEW sp, NEW P, Good(p, d, o, w, sp, P),
           NEW d2, NEW node, Longer1(d, d2, o, node), NEW P2,
           NEW v \in Seq({Len(d) + 1}), IsSaid(P2, d2, w \o v)
    PROVE  Reads(d, d2, w, v, P, P2, ToSet(o) \cup {0})
  <1>1. Writes(d, o, w, sp) /\ Nests(d, o, w, sp) /\ IsSaid(P, d, w) /\ w \in Seq(1..Len(d))
    BY GoodFacts
  <1>2. GoesOn(d, d2) /\ Len(d2) = Len(d) + 1 /\ Len(d) \in Nat
    BY <1>1, NewNodeFacts
  <1>3. Settled(d, d2, w, v, ToSet(o) \cup {0})
    BY <1>1, SettledNew
  <1>4. v \in Seq(1..Len(d2))
    <2>1. Len(d) + 1 \in 1..Len(d2)
      BY <1>2
    <2>2. QED
      BY <2>1
  <1>5. QED
    BY <1>1, <1>2, <1>3, <1>4 DEF Reads

\* The stack when the document has one more element that is no text.
LEMMA StackNew ==
    ASSUME NEW p, NEW d, NEW o, NEW w, NEW sp, NEW P, Good(p, d, o, w, sp, P),
           NEW d2, NEW node, Longer1(d, d2, o, node), node.kind # "text"
    PROVE  /\ StackIsRight(p.stack, d2, o, sp)
           /\ \A f : Stands(f, d2, Len(d) + 1) =>
                 StackIsRight(Append(p.stack, f), d2, Append(o, Len(d) + 1), sp)
  <1>1. /\ Writes(d, o, w, sp) /\ o \in Seq(1..Len(d)) /\ p.stack \in Seq(Frames(Len(d)))
        /\ StackIsRight(p.stack, d, o, sp) /\ ToSet(o) \subseteq 1..Len(d)
    BY GoodFacts
  <1>2. \A a \in ToSet(o) : d2[a] = d[a]
    BY <1>1, NewNodeFacts
  <1>3. \A a \in ToSet(o) : TextIn(d2, a) = TextIn(d, a)
    BY <1>1, TextMore
  <1>4. StackIsRight(p.stack, d2, o, sp)
    BY <1>1, <1>2, <1>3, StackSame
  <1>5. ASSUME NEW f, Stands(f, d2, Len(d) + 1)
        PROVE  StackIsRight(Append(p.stack, f), d2, Append(o, Len(d) + 1), sp)
    BY <1>1, <1>4, <1>5, StackPush
  <1>6. QED
    BY <1>4, <1>5

\* The open scopes when there is a new node: none is its.
LEMMA ScopesWider ==
    ASSUME NEW c, NEW n \in Nat, Els(c) \subseteq 1..n, NEW U, NEW P, ScopesAreRight(c, U, P),
           NEW U2, U2 \subseteq U \cup {n + 1}
    PROVE  ScopesAreRight(c, U2, P)
  <1>1. ASSUME NEW i \in 1..Len(c) PROVE c[i].el # n + 1
    <2>1. c[i].el \in 1..n
      BY DEF Els
    <2>2. QED
      BY <2>1
  <1>2. QED
    BY <1>1 DEF ScopesAreRight

\* A value that is complete at once goes to the item it belongs to.
LEMMA ScopesNew ==
    ASSUME NEW p, NEW d, NEW o, NEW w, NEW sp, NEW P, Good(p, d, o, w, sp, P),
           NEW d2, NEW node, Longer1(d, d2, o, node), node.kind \in {"void", "attribute"},
           node.prop \in Itemprops, NEW P2, IsSaid(P2, d2, Append(w, Len(d) + 1)),
           NEW c, c = IF node.prop = NoProp THEN p.scopes
                      ELSE Add(p.scopes, node.prop, Value(Len(d) + 1, {})),
           NEW U2, U2 \subseteq (ToSet(o) \ sp) \cup {Len(d) + 1}
    PROVE  ScopesAreRight(c, U2, P2)
  <1> DEFINE el == Len(d) + 1
             U == ToSet(o) \ sp
             x == Deepest(d, ToSet(o), "scope")
             v == Value(el, {})
  <1>1. /\ Writes(d, o, w, sp) /\ Nests(d, o, w, sp) /\ ToSet(o) \subseteq 1..Len(d)
        /\ Rises(p.stack, p.scopes, Len(d)) /\ p.scopes \in Seq(Scopes(Len(d)))
        /\ IsRising(p.scopes) /\ StackIsRight(p.stack, d, o, sp)
        /\ ScopesAreRight(p.scopes, U, P) /\ Len(d) \in Nat
    BY GoodFacts
  <1>2. \A u \in 0..Len(d) :
           P2[u] = IF node.prop # NoProp /\ x = u
                   THEN Append(P[u], [prop |-> node.prop, value |-> v]) ELSE P[u]
    BY SaidNew
  <1>3. U \subseteq 0..Len(d)
    BY <1>1
  <1>4. Els(p.scopes) \subseteq 1..Len(d)
    BY <1>1, StackNodes DEF Els, Rises
  <1>5. CASE node.prop = NoProp
    <2>1. \A u \in U : P2[u] = P[u]
      BY <1>2, <1>3, <1>5
    <2>2. ScopesAreRight(p.scopes, U, P2)
      BY Zenon, <1>1, <2>1 DEF ScopesAreRight
    <2>3. ScopesAreRight(p.scopes, U2, P2)
      <3> HIDE DEF U
      <3>1. U2 \subseteq U \cup {Len(d) + 1}
        BY DEF U
      <3>2. QED
        BY <1>1, <1>4, <2>2, <3>1, ScopesWider
    <2>4. QED
      BY <1>5, <2>3
  <1>6. CASE node.prop # NoProp
    <2> DEFINE b == Add(p.scopes, node.prop, v)
    <2>1. el \in Nat /\ el \in 1..el /\ 1..Len(d) \subseteq 1..el /\ p.scopes \in Seq(Scopes(el))
      <3>1. el \in Nat /\ el \in 1..el /\ Len(d) <= el
        BY <1>1
      <3>2. Scopes(Len(d)) \subseteq Scopes(el) /\ 1..Len(d) \subseteq 1..el
        BY <1>1, <3>1, Monotone
      <3>3. QED
        BY <1>1, <3>1, <3>2
    <2>2. v \in Values(el) /\ v # NoValue
      BY <2>1 DEF Value, Values, NoValue
    <2>3. node.prop \in Props
      BY <1>6 DEF Itemprops
    <2>4. /\ x # 0 /\ x \notin sp => p.scopes # <<>> /\ Last(p.scopes).el = x
          /\ p.scopes # <<>> /\ Last(p.scopes).el \in U => Last(p.scopes).el = x
      BY <1>1, LastScope
    <2>5. x \in U => x # 0 /\ x \notin sp
      BY <1>1
    <2>6. \A u \in U : P2[u] = IF u = x /\ v # NoValue
                               THEN Append(P[u], [prop |-> node.prop, value |-> v]) ELSE P[u]
      BY <1>2, <1>3, <1>6, <2>2
    <2> HIDE DEF el, U, x, v
    <2>7. v \in Values(el) \cup {NoValue}
      BY <2>2
    <2>a. /\ x \in U => p.scopes # <<>> /\ Last(p.scopes).el = x
          /\ p.scopes # <<>> /\ Last(p.scopes).el \in U => Last(p.scopes).el = x
      BY <2>4, <2>5
    <2>b. ScopesAreRight(p.scopes, U, P) /\ IsRising(p.scopes) /\ el \in Nat
          /\ p.scopes \in Seq(Scopes(el))
      BY <1>1, <2>1
    <2>8. ScopesAreRight(b, U, P2)
      <3>1. Fits(p.scopes, U, x, P, P2, node.prop, v)
        BY Zenon, <1>1, <2>a, <2>6 DEF Fits
      <3>2. QED
        BY <1>1, <2>b, <2>3, <2>7, <3>1, AddRight
    <2>9. Els(b) = Els(p.scopes)
      BY <2>1, <2>3, <2>7, AddKeepsScopes
    <2>10. U2 \subseteq U \cup {Len(d) + 1}
      BY DEF U
    <2> HIDE DEF b
    <2>11. ScopesAreRight(b, U2, P2)
      BY <1>1, <1>4, <2>8, <2>9, <2>10, ScopesWider
    <2>12. QED
      BY <1>6, <2>11 DEF b, v, el
  <1>7. QED
    BY <1>5, <1>6

\* An item that starts has no properties yet.
LEMMA NewItemIsEmpty ==
    ASSUME NEW p, NEW d, NEW o, NEW w, NEW sp, NEW P, Good(p, d, o, w, sp, P),
           NEW d2, NEW node, Longer1(d, d2, o, node), NEW P2, IsSaid(P2, d2, w)
    PROVE  P2[Len(d) + 1] = <<>>
  <1> DEFINE el == Len(d) + 1
             A == HasIn(d2, P2, el)
  <1>1. Writes(d, o, w, sp) /\ w \in Seq(1..Len(d))
    BY GoodFacts
  <1>2. IsTree(d2) /\ Len(d) \in Nat /\ Len(d2) = el
    BY <1>1, NewNodeFacts
  <1>3. \A n : n \notin A
    <2>1. ASSUME NEW n \in 1..Len(d2) PROVE Deepest(d2, d2[n].within, "scope") # el
      <3>1. Deepest(d2, d2[n].within, "scope") < n /\ Deepest(d2, d2[n].within, "scope") \in 0..(n - 1)
        BY <1>2, TreeFacts
      <3>2. QED
        BY <1>2, <3>1
    <2>2. QED
      BY Zenon, <2>1 DEF HasIn
  <1> HIDE DEF A
  <1>4. Only(w, A) \in Seq(1..Len(d)) /\ \A n : n \notin ToSet(Only(w, A))
    BY <1>1, <1>3, OnlyFacts
  <1>5. Len(Only(w, A)) = 0
    BY <1>4 DEF ToSet
  <1>6. P2[el] = Entries(d2, P2, Only(w, A))
    <2>1. el \in 0..Len(d2)
      BY <1>2
    <2>2. P2[el] = SaidIn(d2, w, P2, el)
      BY Zenon, <2>1, SaidUnfolds
    <2>3. QED
      BY Zenon, <2>2 DEF SaidIn, A
  <1>7. Entries(d2, P2, Only(w, A)) = [i \in 1..0 |-> EntryIn(d2, P2, Only(w, A)[i])]
    BY Zenon, <1>5 DEF Entries
  <1>8. QED
    BY <1>6, <1>7

\* A start tag that is read where it is.
LEMMA StartLocal ==
    ASSUME NEW p, NEW d, NEW o, NEW w, NEW sp, NEW P, Good(p, d, o, w, sp, P),
           NEW e \in Elements, NEW d2, NEW node, Longer1(d, d2, o, node),
           node.kind = e.kind, node.prop = e.prop,
           NEW o2, o2 = IF e.kind = "void" THEN o ELSE Append(o, Len(d) + 1),
           NEW v, v = IF e.kind \in {"void", "attribute"} THEN <<Len(d) + 1>> ELSE <<>>,
           NEW P2, IsSaid(P2, d2, w \o v)
    PROVE  IsLocal(HandleStartTag(p, Len(d) + 1, e.kind, e.prop), d2, o2, w \o v, sp, P2)
  <1> DEFINE el == Len(d) + 1
             p2 == HandleStartTag(p, el, e.kind, e.prop)
             U == ToSet(o) \ sp
  <1>1. /\ Writes(d, o, w, sp) /\ Nests(d, o, w, sp) /\ o \in Seq(1..Len(d)) /\ w \in Seq(1..Len(d))
        /\ ToSet(o) \subseteq 1..Len(d) /\ p.scopes \in Seq(Scopes(Len(d)))
        /\ p.stack \in Seq(Frames(Len(d))) /\ p.items \in Seq(Scopes(Len(d)))
        /\ ScopesAreRight(p.scopes, U, P) /\ ItemsAreRight(p.items, Ended(d, w, sp), P)
        /\ Len(d) \in Nat /\ Agree(p, Len(d))
    BY GoodFacts
  <1>2. /\ e.kind \in Kinds /\ e.prop \in Itemprops
        /\ e.kind = "plain" => e.prop = NoProp
        /\ e.kind \in {"attribute", "text_value"} => e.prop # NoProp
    BY DEF Elements
  <1>3. /\ d2[el] = node /\ Len(d2) = el /\ el \in Nat
        /\ d2[el].kind = e.kind /\ d2[el].prop = e.prop /\ e.kind # "text"
    BY <1>1, <1>2, NewNodeFacts DEF Kinds
  <1>4. TextIn(d2, el) = {}
    BY <1>1, TextMore
  <1>5. w \o <<>> = w /\ w \o <<el>> = Append(w, el)
    BY <1>1
  <1>6. v \in Seq({el}) /\ \A k \in 1..Len(v) : v[k] = el /\ e.kind # "scope"
    <2>1. CASE e.kind \in {"void", "attribute"}
      BY <2>1
    <2>2. CASE e.kind \notin {"void", "attribute"}
      BY <2>2
    <2>3. QED
      BY <2>1, <2>2
  <1>7. /\ p2.items = p.items
        /\ e.kind = "void" => p2.stack = p.stack
        /\ e.kind = "scope" => p2.stack = Append(p.stack, Frame(el, TRUE, e.prop, NoProp))
        /\ e.kind \in {"attribute", "plain"} =>
              p2.stack = Append(p.stack, Frame(el, FALSE, NoProp, NoProp))
        /\ e.kind = "text_value" => p2.stack = Append(p.stack, Frame(el, FALSE, NoProp, e.prop))
        /\ e.kind \in {"void", "attribute"} =>
              p2.scopes = IF e.prop = NoProp THEN p.scopes ELSE Add(p.scopes, e.prop, Value(el, {}))
        /\ e.kind \in {"plain", "text_value"} => p2.scopes = p.scopes
        /\ e.kind = "scope" => p2.scopes = Append(p.scopes, [el |-> el, props |-> <<>>])
    <2>1. p \in [stack : Seq(Frames(Len(d))), scopes : Seq(Scopes(Len(d))),
                 items : Seq(Scopes(Len(d)))]
      BY <1>1 DEF Agree, Parsers
    <2> HIDE DEF el
    <2>2. CASE e.kind = "void"
      BY <2>1, <2>2 DEF HandleStartTag, HandleVoidTag
    <2>3. CASE e.kind = "attribute"
      BY <1>2, <2>1, <2>3 DEF HandleStartTag, HandleScopedTag
    <2>4. CASE e.kind = "text_value"
      BY <2>1, <2>4 DEF HandleStartTag, HandleScopedTag
    <2>5. CASE e.kind = "plain"
      BY <2>1, <2>5 DEF HandleStartTag, HandleScopedTag
    <2>6. CASE e.kind = "scope"
      BY <2>1, <2>6 DEF HandleStartTag, HandleScopedTag
    <2>7. QED
      BY <1>2, <2>2, <2>3, <2>4, <2>5, <2>6 DEF Kinds
  <1> HIDE DEF p2
  <1>8. StackIsRight(p2.stack, d2, o2, sp)
    <2>1. /\ StackIsRight(p.stack, d2, o, sp)
          /\ \A f : Stands(f, d2, el) => StackIsRight(Append(p.stack, f), d2, Append(o, el), sp)
      BY <1>3, StackNew
    <2>2. CASE e.kind = "void"
      BY Zenon, <1>7, <2>1, <2>2
    <2>3. CASE e.kind # "void"
      <3>1. CASE e.kind = "scope"
        <4>1. Stands(Frame(el, TRUE, e.prop, NoProp), d2, el)
          BY <1>3, <3>1 DEF Stands, Matches, Frame
        <4>2. QED
          BY Zenon, <1>7, <2>1, <2>3, <3>1, <4>1 DEF el
      <3>2. CASE e.kind \in {"attribute", "plain"}
        <4>1. Stands(Frame(el, FALSE, NoProp, NoProp), d2, el)
          BY <1>3, <3>2 DEF Stands, Matches, Frame
        <4>2. QED
          BY Zenon, <1>7, <2>1, <2>3, <3>2, <4>1 DEF el
      <3>3. CASE e.kind = "text_value"
        <4>1. Stands(Frame(el, FALSE, NoProp, e.prop), d2, el)
          BY <1>3, <1>4, <3>3 DEF Stands, Matches, Frame
        <4>2. QED
          BY Zenon, <1>7, <2>1, <2>3, <3>3, <4>1 DEF el
      <3>4. QED
        BY <1>2, <2>3, <3>1, <3>2, <3>3 DEF Kinds
    <2>4. QED
      BY <2>2, <2>3
  <1>9. ToSet(o2) \ sp \subseteq U \cup {el}
    BY <1>1, AppendElements
  <1>10. ScopesAreRight(p2.scopes, ToSet(o2) \ sp, P2)
    <2> DEFINE U2 == ToSet(o2) \ sp
    <2>0. U2 \subseteq U \cup {el}
      BY <1>9
    <2> HIDE DEF U2
    <2>1. CASE e.kind \in {"void", "attribute"}
      <3>1. IsSaid(P2, d2, Append(w, el))
        BY <1>5, <2>1
      <3>2. p2.scopes = IF node.prop = NoProp THEN p.scopes
                        ELSE Add(p.scopes, node.prop, Value(Len(d) + 1, {}))
        BY <1>7, <2>1
      <3>3. node.kind \in {"void", "attribute"} /\ node.prop \in Itemprops
        BY <1>2, <2>1
      <3>4. U2 \subseteq (ToSet(o) \ sp) \cup {Len(d) + 1}
        BY <2>0
      <3>5. IsSaid(P2, d2, Append(w, Len(d) + 1))
        BY <3>1
      <3> DEFINE c == p2.scopes
      <3>6. c = IF node.prop = NoProp THEN p.scopes
                ELSE Add(p.scopes, node.prop, Value(Len(d) + 1, {}))
        BY <3>2
      <3> HIDE DEF c
      <3>7. ScopesAreRight(c, U2, P2)
        BY <3>3, <3>4, <3>5, <3>6, ScopesNew
      <3>8. QED
        BY <3>7 DEF c, U2
    <2>2. CASE e.kind \notin {"void", "attribute"}
      <3>1. IsSaid(P2, d2, w)
        BY <1>5, <2>2
      <3>2. \A u \in U : P2[u] = P[u]
        <4>1. \A u \in 0..Len(d) : P2[u] = P[u]
          BY <3>1, SaidNone
        <4>2. U \subseteq 0..Len(d)
          BY <1>1
        <4>3. QED
          BY <4>1, <4>2
      <3>3. ScopesAreRight(p.scopes, U, P2)
        BY Zenon, <1>1, <3>2 DEF ScopesAreRight
      <3>4. Els(p.scopes) \subseteq 1..Len(d)
        BY <1>1, StackNodes DEF Els
      <3>5. ScopesAreRight(p.scopes, U2, P2)
        <4> HIDE DEF U
        <4>1. QED
          BY <1>1, <2>0, <3>3, <3>4, ScopesWider
      <3>6. CASE e.kind = "scope"
        <4>1. P2[el] = <<>>
          BY <3>1, NewItemIsEmpty
        <4> DEFINE new == [el |-> el, props |-> <<>>]
                   c == Append(p.scopes, new)
        <4>2. \A j \in 1..Len(c) : IF j = Len(p.scopes) + 1 THEN c[j] = new
                                  ELSE j \in 1..Len(p.scopes) /\ c[j] = p.scopes[j]
          <5> HIDE DEF new
          <5>1. Len(c) = Len(p.scopes) + 1 /\ Len(p.scopes) \in Nat
                /\ c[Len(p.scopes) + 1] = new /\ \A i \in 1..Len(p.scopes) : c[i] = p.scopes[i]
            BY <1>1, AppendElements
          <5> HIDE DEF c
          <5>2. QED
            BY <5>1
        <4>3. new.el = el /\ new.props = <<>>
          OBVIOUS
        <4> HIDE DEF c, new
        <4>4. ScopesAreRight(c, U2, P2)
          BY Zenon, <3>5, <4>1, <4>2, <4>3 DEF ScopesAreRight
        <4>5. QED
          BY Zenon, <1>7, <3>6, <4>4 DEF c, new, U2
      <3>7. CASE e.kind # "scope"
        BY <1>2, <1>7, <2>2, <3>5, <3>7 DEF Kinds, U2
      <3>8. QED
        BY <3>6, <3>7
    <2>3. QED
      BY <2>1, <2>2
  <1>11. ItemsAreRight(p2.items, Ended(d2, w \o v, sp), P2)
    <2>1. Reads(d, d2, w, v, P, P2, ToSet(o) \cup {0})
      BY <1>6, NewReads
    <2>2. \A k \in 1..Len(v) : v[k] \notin StandsAlone(d2)
      BY <1>3, <1>6 DEF StandsAlone
    <2>3. QED
      BY <1>1, <1>7, <2>1, <2>2, ItemsKept
  <1>12. QED
    BY <1>8, <1>10, <1>11 DEF IsLocal, p2

\* What handle_data does: only the last frame that captures text gets the piece.
OnePiece(i, s, t, piece) ==
    /\ i # 0 => Captures(s.stack[i])
    /\ \A q \in 1..Len(s.stack) : Captures(s.stack[q]) => i # 0 /\ q <= i
    /\ t.items = s.items /\ t.scopes = s.scopes /\ Len(t.stack) = Len(s.stack)
    /\ \A j \in 1..Len(s.stack) :
          t.stack[j] = IF j = i
                       THEN [s.stack[j] EXCEPT !.capture_parts = s.stack[j].capture_parts \cup {piece}]
                       ELSE s.stack[j]

LEMMA DataFacts ==
    ASSUME NEW n \in Nat, NEW s \in Parsers(n), NEW piece, NEW t, t = HandleData(s, piece)
    PROVE  \E i \in 0..Len(s.stack) : OnePiece(i, s, t, piece)
  <1> DEFINE I == {q \in 1..Len(s.stack) : Captures(s.stack[q])}
             i == SelectLastInSeq(s.stack, Captures)
  <1>1. i = IF I # {} THEN Max(I) ELSE 0
    BY DEF SelectLastInSeq
  <1>2. /\ s.stack \in Seq(Frames(n)) /\ Len(s.stack) \in Nat
        /\ s = [stack |-> s.stack, scopes |-> s.scopes, items |-> s.items]
    BY DEF Parsers
  <1>3. \A q : q \in I <=> q \in 1..Len(s.stack) /\ Captures(s.stack[q])
    BY Zenon
  <1>4. I \subseteq 1..Len(s.stack)
    OBVIOUS
  <1>7. t = IF i = 0 THEN s ELSE [s EXCEPT !.stack[i].capture_parts = @ \cup {piece}]
    BY DEF HandleData
  <1> HIDE DEF I, i
  <1>5. /\ i \in 0..Len(s.stack)
        /\ i # 0 => i \in I
        /\ \A q \in I : i # 0 /\ i >= q
    <2>1. CASE I = {}
      BY <1>1, <1>2, <2>1
    <2>2. CASE I # {}
      <3>1. i = Max(I)
        BY <1>1, <2>2
      <3>2. i \in I /\ \A q \in I : i >= q
        BY <1>2, <1>4, <2>2, <3>1, MaxFacts
      <3>3. QED
        BY <1>2, <1>4, <3>2
    <2>3. QED
      BY <2>1, <2>2
  <1>6. \A q \in 1..Len(s.stack) : Captures(s.stack[q]) => i # 0 /\ q <= i
    <2>1. ASSUME NEW q \in 1..Len(s.stack), Captures(s.stack[q]) PROVE i # 0 /\ i >= q
      BY Zenon, <1>3, <1>5, <2>1
    <2>2. QED
      BY <1>2, <1>5, <2>1
  <1>8. CASE i = 0
    BY <1>2, <1>3, <1>5, <1>6, <1>7, <1>8 DEF OnePiece
  <1>9. CASE i # 0
    <2> DEFINE top == s.stack[i]
               new == [top EXCEPT !.capture_parts = top.capture_parts \cup {piece}]
               stack == [s.stack EXCEPT ![i] = new]
    <2>1. t = [stack |-> stack, scopes |-> s.scopes, items |-> s.items]
      <3>1. t = [s EXCEPT !.stack = stack]
        BY <1>7, <1>9, Zenon
      <3> HIDE DEF stack
      <3>2. QED
        BY <1>2, <3>1
    <2> HIDE DEF new
    <2>2. /\ Len(stack) = Len(s.stack)
          /\ \A j \in 1..Len(s.stack) : stack[j] = IF j = i THEN new ELSE s.stack[j]
      BY <1>2
    <2> HIDE DEF stack
    <2>3. t.items = s.items /\ t.scopes = s.scopes /\ t.stack = stack
      BY <2>1
    <2>4. \A j \in 1..Len(s.stack) :
             t.stack[j] = IF j = i THEN [s.stack[j] EXCEPT !.capture_parts =
                                            s.stack[j].capture_parts \cup {piece}]
                          ELSE s.stack[j]
      BY Zenon, <2>2, <2>3 DEF new, top
    <2>5. Captures(s.stack[i])
      BY <1>3, <1>5, <1>9
    <2>6. QED
      BY <1>2, <1>5, <1>6, <2>2, <2>3, <2>4, <2>5 DEF OnePiece
  <1>10. QED
    BY <1>8, <1>9

\* A frame that captures text is that of an element whose value is its text.
LEMMA CapturesText ==
    ASSUME NEW d, NEW a, HasProperly(d[a]), NEW f, Stands(f, d, a)
    PROVE  Captures(f) <=> d[a].kind = "text_value"
  BY DEF HasProperly, Stands, Captures

\* Text is read where it is.
LEMMA TextLocal ==
    ASSUME NEW p, NEW d, NEW o, NEW w, NEW sp, NEW P, Good(p, d, o, w, sp, P),
           NEW d2, NEW node, Longer1(d, d2, o, node), node.kind = "text",
           NEW P2, IsSaid(P2, d2, w)
    PROVE  IsLocal(HandleData(p, Len(d) + 1), d2, o, w, sp, P2)
  <1> DEFINE el == Len(d) + 1
             t == HandleData(p, el)
             x == Deepest(d, ToSet(o), "text_value")
             N == Len(p.stack)
             U == ToSet(o) \ sp
  <1>1. /\ Writes(d, o, w, sp) /\ Nests(d, o, w, sp) /\ o \in Seq(1..Len(d)) /\ w \in Seq(1..Len(d))
        /\ ToSet(o) \subseteq 1..Len(d)
        /\ p.stack \in Seq(Frames(Len(d)))
        /\ ScopesAreRight(p.scopes, U, P) /\ ItemsAreRight(p.items, Ended(d, w, sp), P)
        /\ Len(d) \in Nat /\ Len(o) \in Nat /\ Agree(p, Len(d)) /\ StackIsRight(p.stack, d, o, sp)
    BY GoodFacts
  <1>c. PICK i \in 0..N : OnePiece(i, p, t, el)
    <2>1. p \in Parsers(Len(d))
      BY <1>1 DEF Agree
    <2> HIDE DEF t
    <2>2. t = HandleData(p, el)
      BY DEF t
    <2>3. QED
      BY <1>1, <2>1, <2>2, DataFacts
  <1> HIDE DEF t
  <1>2. /\ i \in 0..N /\ N \in Nat
        /\ i # 0 => Captures(p.stack[i])
        /\ \A q \in 1..N : Captures(p.stack[q]) => i # 0 /\ q <= i
        /\ t.items = p.items /\ t.scopes = p.scopes /\ Len(t.stack) = N
        /\ \A j \in 1..N :
              t.stack[j] = IF j = i
                           THEN [p.stack[j] EXCEPT !.capture_parts = p.stack[j].capture_parts \cup {el}]
                           ELSE p.stack[j]
    <2>1. N \in Nat
      BY <1>1
    <2>2. QED
      BY Zenon, <1>c, <2>1 DEF OnePiece
  <1>3. \A u \in 0..Len(d) : P2[u] = P[u]
    BY SaidNone
  <1>4. ScopesAreRight(t.scopes, U, P2)
    <2>1. \A u \in U : P2[u] = P[u]
      BY <1>1, <1>3
    <2> HIDE DEF U
    <2>2. ScopesAreRight(p.scopes, U, P)
      BY <1>1 DEF U
    <2>3. ScopesAreRight(p.scopes, U, P2)
      BY Zenon, <2>1, <2>2 DEF ScopesAreRight
    <2>4. QED
      BY <1>2, <2>3
  <1>5. ItemsAreRight(t.items, Ended(d2, w, sp), P2)
    <2>1. <<>> \in Seq({el}) /\ w \o <<>> = w
      BY <1>1
    <2>2. Reads(d, d2, w, <<>>, P, P2, ToSet(o) \cup {0})
      BY <2>1, NewReads
    <2>3. ItemsAreRight(p.items, Ended(d2, w \o <<>>, sp), P2)
      <3>1. \A k \in 1..Len(<<>>) : <<>>[k] \notin StandsAlone(d2)
        OBVIOUS
      <3>2. QED
        BY <1>1, <2>2, <3>1, ItemsKept
    <2>4. QED
      BY <1>2, <2>1, <2>3
  <1>6. \A a \in ToSet(o) : d2[a] = d[a] /\ HasProperly(d[a])
    <2>1. \A a \in ToSet(o) : d2[a] = d[a]
      BY <1>1, NewNodeFacts
    <2>2. \A n \in 1..Len(d) : HasProperly(d[n])
      BY <1>1 DEF Nests
    <2>3. QED
      BY <1>1, <2>1, <2>2
  <1>7. \A a \in ToSet(o) : TextIn(d2, a) = IF x = a THEN TextIn(d, a) \cup {el} ELSE TextIn(d, a)
    BY <1>1, TextMore
  <1>8. /\ x # 0 => x \in ToSet(o) /\ d[x].kind = "text_value"
        /\ \A a \in ToSet(o) : d[a].kind = "text_value" => x # 0 /\ a <= x
    BY <1>1, OpenDeepest
  <1>a. /\ \A k \in 1..Len(o) : o[k] \in 1..Len(d) /\ o[k] \in ToSet(o)
        /\ \A a \in ToSet(o) : \E k \in 1..Len(o) : a = o[k]
    BY <1>1, WritesFacts
  <1>b. \A k, l \in 1..Len(o) : k < l => o[k] < o[l]
    BY <1>1 DEF Nests, Deepens
  <1> DEFINE at(k) == N - (Len(o) - k)
  <1>9. ASSUME NEW k \in 1..Len(o), o[k] \notin sp
        PROVE  Stands(t.stack[at(k)], d2, o[k]) /\ at(k) \in 1..N
    <2>1. /\ \A l \in k..Len(o) : at(l) \in 1..N /\ Stands(p.stack[at(l)], d, o[l])
          /\ \A q \in 1..N : at(k) <= q => \E l \in k..Len(o) : q = at(l)
      <3>1. /\ \A l \in k..Len(o) : /\ o[l] \notin sp
                                     /\ Len(p.stack) - (Len(o) - l) \in 1..Len(p.stack)
                                     /\ Stands(p.stack[Len(p.stack) - (Len(o) - l)], d, o[l])
            /\ \A q \in 1..Len(p.stack) : Len(p.stack) - (Len(o) - k) <= q =>
                  \E l \in k..Len(o) : q = Len(p.stack) - (Len(o) - l)
        <4> DEFINE stack == p.stack
        <4>1. /\ Writes(d, o, w, sp) /\ Nests(d, o, w, sp) /\ StackIsRight(stack, d, o, sp)
              /\ stack \in Seq(Frames(Len(d)))
          BY <1>1
        <4> HIDE DEF stack
        <4>2. /\ \A l \in k..Len(o) : /\ o[l] \notin sp
                                       /\ Len(stack) - (Len(o) - l) \in 1..Len(stack)
                                       /\ Stands(stack[Len(stack) - (Len(o) - l)], d, o[l])
              /\ \A q \in 1..Len(stack) : Len(stack) - (Len(o) - k) <= q =>
                    \E l \in k..Len(o) : q = Len(stack) - (Len(o) - l)
          BY <1>9, <4>1, TopFrames, SMTT(30)
        <4>3. QED
          BY Zenon, <4>2 DEF stack
      <3>2. QED
        BY Zenon, <3>1
    <2>2. k \in k..Len(o) /\ \A l \in k..Len(o) : l \in 1..Len(o)
      BY <1>1
    <2>3. \A l \in k..Len(o) : Captures(p.stack[at(l)]) <=> d[o[l]].kind = "text_value"
      BY Zenon, <1>6, <1>a, <2>1, <2>2, CapturesText
    <2>4. \A l \in k..Len(o) : at(l) <= at(k) => l = k
      BY <1>1, <1>2
    <2>5. o[k] \in ToSet(o) /\ d2[o[k]] = d[o[k]]
      BY <1>6, <1>a
    <2>6. at(k) \in 1..N /\ Stands(p.stack[at(k)], d, o[k])
      BY Zenon, <2>1, <2>2
    <2> HIDE DEF at, x, N, el
    <2>7. CASE o[k] = x
      <3>1. at(k) = i
        <4>1. d[o[k]].kind = "text_value"
          <5>1. o[k] # 0
            BY <1>1, <1>a
          <5>2. QED
            BY <1>8, <2>7, <5>1
        <4>2. Captures(p.stack[at(k)])
          BY Zenon, <2>2, <2>3, <4>1
        <4>3. i # 0 /\ at(k) <= i
          BY Zenon, <1>2, <2>6, <4>2
        <4>4. i \in 1..N
          BY <1>2, <4>3
        <4>5. PICK l \in k..Len(o) : i = at(l)
          BY Zenon, <2>1, <4>3, <4>4
        <4>6. d[o[l]].kind = "text_value"
          BY Zenon, <1>2, <2>3, <4>3, <4>5
        <4>7. o[l] <= o[k] /\ l \in 1..Len(o)
          BY Zenon, <1>8, <1>a, <2>2, <2>7, <4>6
        <4>8. ~ (k < l)
          BY <1>1, <1>a, <1>b, <4>7
        <4>9. l = k
          BY <1>1, <4>7, <4>8
        <4>10. QED
          BY <4>5, <4>9
      <3> DEFINE f == p.stack[i]
                 g == [f EXCEPT !.capture_parts = f.capture_parts \cup {el}]
      <3>2. f \in Frames(Len(d)) /\ Stands(f, d, x)
        BY <1>1, <1>2, <2>6, <2>7, <3>1 DEF N
      <3>3. t.stack[i] = g
        BY Zenon, <1>2, <2>6, <3>1
      <3> HIDE DEF f
      <3>4. /\ g.el = f.el /\ g.opened_scope = f.opened_scope /\ g.nested_prop = f.nested_prop
            /\ g.capture_prop = f.capture_prop /\ g.capture_parts = f.capture_parts \cup {el}
        BY Zenon, <3>2 DEF Frames
      <3> HIDE DEF g
      <3>5. TextIn(d2, x) = TextIn(d, x) \cup {el} /\ d2[x] = d[x]
        BY <1>7, <2>5, <2>7
      <3>6. Matches(g, d2, x)
        BY Zenon, <3>2, <3>4, <3>5 DEF Stands, Matches
      <3>7. Stands(g, d2, x)
        BY Zenon, <3>2, <3>4, <3>5, <3>6 DEF Stands
      <3>8. QED
        BY <2>6, <2>7, <3>1, <3>3, <3>7
    <2>8. CASE o[k] # x
      <3>1. at(k) # i
        <4>1. SUFFICES ASSUME at(k) = i PROVE FALSE
          OBVIOUS
        <4>2. i # 0
          BY <1>2, <2>6, <4>1
        <4>3. d[o[k]].kind = "text_value"
          BY Zenon, <1>2, <2>2, <2>3, <4>1, <4>2
        <4>4. x # 0 /\ o[k] <= x /\ x \in ToSet(o) /\ d[x].kind = "text_value"
          BY <1>8, <2>5, <4>3
        <4>5. PICK l \in 1..Len(o) : x = o[l]
          BY <1>a, <4>4
        <4>6. ~ (l < k)
          <5>1. l < k => o[l] < o[k]
            BY Zenon, <1>b, <4>5
          <5>2. o[k] <= o[l] /\ o[k] \in Nat /\ o[l] \in Nat
            BY <1>a, <4>4, <4>5
          <5>3. QED
            BY <5>1, <5>2
        <4>7. l \in k..Len(o) /\ l # k
          BY <1>1, <2>8, <4>5, <4>6
        <4>8. Captures(p.stack[at(l)]) /\ at(l) \in 1..N
          BY Zenon, <2>1, <2>3, <4>4, <4>5, <4>7
        <4>9. at(l) <= at(k)
          BY Zenon, <1>2, <4>1, <4>8
        <4>10. QED
          BY Zenon, <2>4, <4>7, <4>9
      <3>2. t.stack[at(k)] = p.stack[at(k)]
        BY Zenon, <1>2, <2>6, <3>1
      <3>3. TextIn(d2, o[k]) = TextIn(d, o[k])
        BY <1>7, <2>5, <2>8
      <3> DEFINE f == p.stack[at(k)]
                 a == o[k]
      <3>4. Stands(f, d, a) /\ d2[a] = d[a] /\ TextIn(d2, a) = TextIn(d, a)
        BY Zenon, <2>5, <2>6, <3>3
      <3> HIDE DEF f, a
      <3>6. Stands(f, d2, a)
        BY <3>4 DEF Stands, Matches
      <3>5. QED
        BY Zenon, <2>6, <3>2, <3>6 DEF f, a
    <2>9. QED
      BY <2>7, <2>8
  <1>10. StackIsRight(t.stack, d2, o, sp)
    <2>1. SUFFICES ASSUME NEW j \in 0..(Len(o) - 1), FromTop(o, j) \notin sp
                   PROVE  j < Len(t.stack) /\ Stands(FromTop(t.stack, j), d2, FromTop(o, j))
      BY DEF StackIsRight
    <2>2. PICK k \in 1..Len(o) : Len(o) - j = k /\ j = Len(o) - k
      <3>1. Len(o) - j \in 1..Len(o) /\ j = Len(o) - (Len(o) - j)
        BY <1>1
      <3>2. QED
        BY Zenon, <3>1
    <2>3. o[k] \notin sp /\ FromTop(o, j) = o[k]
      BY Zenon, <2>1, <2>2 DEF FromTop
    <2>4. Stands(t.stack[at(k)], d2, o[k]) /\ at(k) \in 1..N
      BY <1>9, <2>3
    <2>5. at(k) = N - j
      BY <2>2
    <2>6. FromTop(t.stack, j) = t.stack[at(k)]
      BY Zenon, <1>2, <2>5 DEF FromTop
    <2>7. j < Len(t.stack)
      <3> HIDE DEF N
      <3>1. QED
        BY <1>2, <2>4, <2>5
    <2>8. QED
      BY Zenon, <2>3, <2>4, <2>6, <2>7
  <1>11. QED
    BY <1>4, <1>5, <1>10 DEF IsLocal, t

\* What handle_endtag does to a stack that is not empty.
LEMMA EndFacts ==
    ASSUME NEW n \in Nat, NEW s \in Parsers(n), NEW t, t = HandleEndTag(s), s.stack # <<>>,
           NEW frame, frame = Last(s.stack), NEW scope, scope = Last(s.scopes)
    PROVE  /\ t.stack = Front(s.stack)
           /\ ~ frame.opened_scope => t.items = s.items /\ t.scopes = Collected(s)
           /\ frame.opened_scope /\ frame.nested_prop = NoProp =>
                 t.scopes = Front(s.scopes) /\ t.items = Append(s.items, scope)
           /\ frame.opened_scope /\ frame.nested_prop # NoProp =>
                 /\ t.scopes = Add(Front(s.scopes), frame.nested_prop, Resolve(scope.props))
                 /\ t.items = s.items
  <1>1. s = [stack |-> s.stack, scopes |-> s.scopes, items |-> s.items]
    BY DEF Parsers
  <1>2. CASE ~ frame.opened_scope
    <2>1. t = [s EXCEPT !.stack = Front(s.stack), !.scopes = Collected(s)]
      BY Zenon, <1>2 DEF HandleEndTag
    <2>2. QED
      BY <1>1, <1>2, <2>1
  <1>3. CASE frame.opened_scope
    <2>1. t = [stack  |-> Front(s.stack),
               scopes |-> IF frame.nested_prop = NoProp THEN Front(s.scopes)
                          ELSE Add(Front(s.scopes), frame.nested_prop, Resolve(scope.props)),
               items  |-> IF frame.nested_prop = NoProp THEN Append(s.items, scope)
                          ELSE s.items]
      BY Zenon, <1>3 DEF HandleEndTag
    <2>2. QED
      BY <1>3, <2>1
  <1>4. QED
    BY <1>2, <1>3

\* It only adds to the items.
LEMMA EndExtends ==
    ASSUME NEW n \in Nat, NEW s \in Parsers(n)
    PROVE  Extends(s.items, HandleEndTag(s).items)
  <1> DEFINE t == HandleEndTag(s)
             scope == Last(s.scopes)
  <1>1. s.items \in Seq(Scopes(n))
    BY DEF Parsers
  <1>2. t.items = s.items \/ t.items = Append(s.items, scope)
    <2>1. CASE s.stack = <<>>
      BY <2>1 DEF HandleEndTag
    <2>2. CASE s.stack # <<>>
      <3> DEFINE frame == Last(s.stack)
      <3>1. /\ ~ frame.opened_scope => t.items = s.items
            /\ frame.opened_scope /\ frame.nested_prop = NoProp => t.items = Append(s.items, scope)
            /\ frame.opened_scope /\ frame.nested_prop # NoProp => t.items = s.items
        <4> HIDE DEF t, frame, scope
        <4>1. t = HandleEndTag(s) /\ frame = Last(s.stack) /\ scope = Last(s.scopes)
          BY DEF t, frame, scope
        <4>2. QED
          BY <2>2, <4>1, EndFacts
      <3> HIDE DEF t, frame, scope
      <3>2. QED
        BY <3>1
    <2>3. QED
      BY <2>1, <2>2
  <1> HIDE DEF t, scope
  <1>3. CASE t.items = s.items
    <2>1. Len(s.items) <= Len(s.items)
      BY <1>1
    <2>2. QED
      BY <1>3, <2>1 DEF Extends, t
  <1>4. CASE t.items = Append(s.items, scope)
    <2>1. /\ Len(Append(s.items, scope)) = Len(s.items) + 1 /\ Len(s.items) \in Nat
          /\ \A i \in 1..Len(s.items) : Append(s.items, scope)[i] = s.items[i]
      BY <1>1, AppendElements
    <2>2. Len(s.items) <= Len(Append(s.items, scope))
      BY <2>1
    <2>3. QED
      BY <1>4, <2>1, <2>2 DEF Extends, t
  <1>5. QED
    BY <1>2, <1>3, <1>4

\* The innermost open element ends: c, which leaves o2 open and ends the values v.
Closes(d, o, c, o2, v) ==
    /\ o # <<>> /\ c = Last(o) /\ o2 = Front(o)
    /\ v = IF d[c].kind = "attribute" THEN <<>> ELSE <<c>>

LEMMA LastOpen ==
    ASSUME NEW d, NEW o, NEW w, NEW sp, Writes(d, o, w, sp), Nests(d, o, w, sp),
           NEW c, NEW o2, NEW v, Closes(d, o, c, o2, v)
    PROVE  /\ c \in 1..Len(d) /\ c \in ToSet(o) /\ d[c].kind \notin {"void", "text"}
           /\ HasProperly(d[c])
           /\ o2 \in Seq(1..Len(d)) /\ Len(o2) = Len(o) - 1 /\ Len(o) \in Nat \ {0}
           /\ d[c].within = ToSet(o2) /\ ToSet(o2) \subseteq ToSet(o) /\ c \notin ToSet(o2)
           /\ ToSet(o) = ToSet(o2) \cup {c}
           /\ Nests(d, o2, w, sp) /\ Writes(d, o2, w, sp)
           /\ c \in sp => ToSet(o) \subseteq sp
  <1>1. /\ o \in Seq(1..Len(d)) /\ Len(o) \in Nat /\ Len(d) \in Nat
        /\ \A i \in 1..Len(o) : o[i] \in 1..Len(d) /\ o[i] \in ToSet(o)
        /\ \A x \in ToSet(o) : \E i \in 1..Len(o) : x = o[i]
    BY WritesFacts
  <1>0. o # <<>> /\ c = Last(o) /\ o2 = Front(o)
    BY DEF Closes
  <1> DEFINE k == Len(o)
             m == k - 1
  <1>2. /\ c = o[k] /\ k \in 1..Len(o) /\ o2 \in Seq(1..Len(d)) /\ Len(o2) = m
        /\ \A i \in 1..m : o2[i] = o[i]
    BY <1>0, <1>1, FrontFacts
  <1>3. m \in Nat /\ m <= Len(o) /\ k = m + 1 /\ Len(o) \in Nat \ {0}
    BY <1>1, <1>2
  <1>4. /\ Nests(d, o2, w, sp)
        /\ ToSet(o2) \subseteq ToSet(o)
        /\ \A i \in 1..Len(o) : m < i => o[i] \notin ToSet(o2)
    <2> HIDE DEF m
    <2>1. QED
      BY <1>2, <1>3, NestsClose
  <1>5. c \notin ToSet(o2)
    BY <1>2, <1>3, <1>4
  <1>6. d[c].within = {o[j] : j \in 1..m} /\ d[c].kind \notin {"void", "text"}
    BY <1>2 DEF Nests, Deepens
  <1>7. ToSet(o2) = {o[j] : j \in 1..m}
    <2> HIDE DEF m
    <2>1. ToSet(o2) = {o2[j] : j \in 1..m}
      BY <1>2 DEF ToSet
    <2>2. QED
      BY <1>2, <2>1
  <1>8. ToSet(o) = ToSet(o2) \cup {c}
    <2>1. ASSUME NEW x \in ToSet(o) PROVE x \in ToSet(o2) \cup {c}
      <3>1. PICK i \in 1..Len(o) : x = o[i]
        BY <1>1
      <3>2. CASE i = k
        BY <1>2, <3>1, <3>2
      <3>3. CASE i # k
        <4>1. i \in 1..m
          BY <1>1, <3>3
        <4>2. QED
          BY <1>7, <3>1, <4>1
      <3>4. QED
        BY <3>2, <3>3
    <2>2. QED
      BY <1>1, <1>2, <1>4, <2>1
  <1>9. HasProperly(d[c])
    <2>1. c \in 1..Len(d)
      BY <1>1, <1>2
    <2>2. QED
      BY <2>1 DEF Nests
  <1>10. Writes(d, o2, w, sp)
    BY <1>2 DEF Writes
  <1>11. ASSUME c \in sp PROVE ToSet(o) \subseteq sp
    <2>1. ASSUME NEW i \in 1..Len(o) PROVE o[i] \in sp
      <3>1. i < k => o[i] \in sp
        BY Zenon, <1>2, <1>11 DEF Nests, SpoilsOutwards
      <3>2. QED
        BY <1>1, <1>2, <1>11, <3>1
    <2>2. QED
      BY <1>1, <2>1
  <1>12. QED
    BY <1>1, <1>2, <1>3, <1>4, <1>5, <1>6, <1>7, <1>8, <1>9, <1>10, <1>11

\* The value of the element that ends goes to the item it belongs to.
GoesTo(d, c, P, P2, x) ==
    P2[x] = IF /\ d[c].kind # "attribute" /\ d[c].prop # NoProp
               /\ Deepest(d, d[c].within, "scope") = x
               /\ ValueIn(d, P, c) # NoValue
            THEN Append(P[x], EntryIn(d, P, c)) ELSE P[x]

LEMMA SaidEnd ==
    ASSUME NEW p, NEW d, NEW o, NEW w, NEW sp, NEW P, Good(p, d, o, w, sp, P),
           NEW c, NEW o2, NEW v, Closes(d, o, c, o2, v), NEW P2, IsSaid(P2, d, w \o v)
    PROVE  /\ Reads(d, d, w, v, P, P2, ToSet(o) \cup {0})
           /\ P2[c] = P[c]
           /\ \A x \in 0..Len(d) : GoesTo(d, c, P, P2, x)
  <1> DEFINE O == ToSet(o) \cup {0}
  <1>1. /\ Writes(d, o, w, sp) /\ Nests(d, o, w, sp) /\ IsSaid(P, d, w) /\ w \in Seq(1..Len(d))
        /\ IsTree(d) /\ Len(d) \in Nat
    BY GoodFacts
  <1>2. c \in 1..Len(d) /\ c \in ToSet(o)
    BY <1>1, LastOpen
  <1>b. v = IF d[c].kind = "attribute" THEN <<>> ELSE <<c>>
    BY Zenon DEF Closes
  <1>3. GoesOn(d, d)
    BY <1>1 DEF GoesOn
  <1>4. /\ <<>> \in Seq(ToSet(o)) /\ <<c>> \in Seq(ToSet(o)) /\ w \o <<>> = w
        /\ <<>> \in Seq(1..Len(d)) /\ <<c>> \in Seq(1..Len(d)) /\ w \o <<c>> = Append(w, c)
    BY <1>1, <1>2
  <1>5. Settled(d, d, w, <<>>, O) /\ Settled(d, d, w, <<c>>, O)
    BY <1>1, <1>4, SettledOld
  <1> HIDE DEF O
  <1>6. Reads(d, d, w, v, P, P2, O)
    <2>1. v \in Seq(1..Len(d)) /\ Settled(d, d, w, v, O)
      BY <1>4, <1>5, <1>b
    <2>2. QED
      BY Zenon, <1>1, <1>3, <2>1 DEF Reads
  <1>7. CASE d[c].kind = "attribute"
    <2>1. IsSaid(P2, d, w)
      BY <1>4, <1>7, <1>b
    <2>2. \A n \in ToSet(w) : d[n].kind = "scope" \/ TextIn(d, n) = TextIn(d, n)
      OBVIOUS
    <2>3. \A x \in 0..Len(d) : P2[x] = P[x]
      BY <1>1, <1>3, <2>1, <2>2, SaysSame
    <2>4. c \in 0..Len(d)
      BY <1>1, <1>2
    <2>5. QED
      BY <1>6, <1>7, <2>3, <2>4 DEF O, GoesTo
  <1>8. CASE d[c].kind # "attribute"
    <2>1. IsSaid(P2, d, Append(w, c))
      BY <1>4, <1>8, <1>b
    <2>2. \A x \in 0..Len(d) :
             P2[x] = IF c \in HasIn(d, P2, x) THEN Append(P[x], EntryIn(d, P2, c)) ELSE P[x]
      BY <1>1, <1>2, <1>3, <1>5, <2>1, SaysMore
    <2>3. \A x : c \in HasIn(d, P2, x) <=> /\ d[c].prop # NoProp
                                           /\ Deepest(d, d[c].within, "scope") = x
                                           /\ ValueIn(d, P2, c) # NoValue
      BY Zenon, <1>2 DEF HasIn
    <2>4. Deepest(d, d[c].within, "scope") # c
      <3>1. Deepest(d, d[c].within, "scope") < c /\ Deepest(d, d[c].within, "scope") \in 0..(c - 1)
        BY <1>1, <1>2, TreeFacts
      <3>2. QED
        BY <1>1, <1>2, <3>1
    <2>5. c \in 0..Len(d)
      BY <1>1, <1>2
    <2>6. P2[c] = P[c]
      BY Zenon, <2>2, <2>3, <2>4, <2>5
    <2>7. ValueIn(d, P2, c) = ValueIn(d, P, c)
      BY <2>6 DEF ValueIn
    <2>8. EntryIn(d, P2, c) = EntryIn(d, P, c)
      BY <2>7 DEF EntryIn
    <2>9. \A x \in 0..Len(d) :
             P2[x] = IF /\ d[c].prop # NoProp
                        /\ Deepest(d, d[c].within, "scope") = x
                        /\ ValueIn(d, P, c) # NoValue
                     THEN Append(P[x], EntryIn(d, P, c)) ELSE P[x]
      BY Zenon, <2>2, <2>3, <2>7, <2>8
    <2>11. \A x \in 0..Len(d) : GoesTo(d, c, P, P2, x)
      BY Zenon, <1>8, <2>9 DEF GoesTo
    <2>10. QED
      BY <1>6, <1>8, <2>6, <2>11 DEF O
  <1>9. QED
    BY <1>7, <1>8

\* An end tag without a departure in its element: the frame and the scope it closes
\* are those of the element.
LEMMA EndClean ==
    ASSUME NEW p, NEW d, NEW o, NEW w, NEW sp, NEW P, Good(p, d, o, w, sp, P),
           NEW c, NEW o2, NEW v, Closes(d, o, c, o2, v), c \notin sp
    PROVE  /\ p.stack # <<>>
           /\ Stands(Last(p.stack), d, c)
           /\ StackIsRight(Front(p.stack), d, o2, sp)
  <1>0. o # <<>> /\ c = Last(o) /\ o2 = Front(o)
    BY DEF Closes
  <1>1. /\ o \in Seq(1..Len(d)) /\ p.stack \in Seq(Frames(Len(d))) /\ StackIsRight(p.stack, d, o, sp)
        /\ Len(o) \in Nat
    BY GoodFacts
  <1>2. Len(o) \in 1..Len(o) /\ FromTop(o, 0) = c /\ 0 \in 0..(Len(o) - 1)
    <2>1. Last(o) = o[Len(o)] /\ Len(o) \in 1..Len(o)
      BY <1>0, <1>1, FrontFacts
    <2>2. FromTop(o, 0) = Last(o)
      BY <1>0, <1>1, TopFront
    <2>3. QED
      BY <1>0, <1>1, <2>1, <2>2
  <1>3. 0 < Len(p.stack)
    BY Zenon, <1>1, <1>2 DEF StackIsRight
  <1>4. p.stack # <<>>
    BY <1>3
  <1> DEFINE stack == p.stack
  <1>5. stack \in Seq(Frames(Len(d))) /\ StackIsRight(stack, d, o, sp) /\ stack # <<>>
    BY <1>1, <1>4
  <1> HIDE DEF stack
  <1>6. /\ StackIsRight(Front(stack), d, Front(o), sp)
        /\ Last(o) \notin sp => Stands(Last(stack), d, Last(o))
    BY <1>0, <1>1, <1>5, StackPop
  <1>7. QED
    BY <1>0, <1>4, <1>6 DEF stack

\* The scopes after the end of an element with its value in its text or in an
\* attribute, or with none.
LEMMA EndScopes ==
    ASSUME NEW p, NEW d, NEW o, NEW w, NEW sp, NEW P, Good(p, d, o, w, sp, P),
           NEW c, NEW o2, NEW v, Closes(d, o, c, o2, v), c \notin sp, d[c].kind # "scope",
           d[c].prop \in Itemprops, d[c].kind \in Kinds \cup {"text"},
           NEW P2, IsSaid(P2, d, w \o v)
    PROVE  ScopesAreRight(Collected(p), ToSet(o) \ sp, P2)
  <1> DEFINE n == Len(d)
             U == ToSet(o) \ sp
             x == Deepest(d, ToSet(o), "scope")
             frame == Last(p.stack)
             prop == d[c].prop
             val == Value(c, TextIn(d, c))
  <1>1. /\ Writes(d, o, w, sp) /\ Nests(d, o, w, sp) /\ ToSet(o) \subseteq 1..Len(d)
        /\ Rises(p.stack, p.scopes, n) /\ p.scopes \in Seq(Scopes(n))
        /\ IsRising(p.scopes) /\ StackIsRight(p.stack, d, o, sp)
        /\ ScopesAreRight(p.scopes, U, P) /\ n \in Nat
    BY GoodFacts
  <1>2. Stands(frame, d, c)
    BY EndClean
  <1>b. \A u \in 0..Len(d) : GoesTo(d, c, P, P2, u)
    BY SaidEnd
  <1>3. \A u \in 0..n :
           P2[u] = IF /\ d[c].kind # "attribute" /\ d[c].prop # NoProp
                      /\ Deepest(d, d[c].within, "scope") = u
                      /\ ValueIn(d, P, c) # NoValue
                   THEN Append(P[u], EntryIn(d, P, c)) ELSE P[u]
    BY Zenon, <1>b DEF GoesTo
  <1>4. /\ c \in 1..n /\ HasProperly(d[c]) /\ d[c].kind \notin {"void", "text"}
        /\ d[c].within = ToSet(o2) /\ ToSet(o) = ToSet(o2) \cup {c}
    BY <1>1, LastOpen
  <1>5. U \subseteq 0..n
    BY <1>1
  <1>6. CASE d[c].kind # "text_value"
    <2>1. ~ Captures(frame)
      BY Zenon, <1>2, <1>4, <1>6, CapturesText
    <2>2. Collected(p) = p.scopes
      BY <2>1 DEF Collected
    <2>3. d[c].kind = "plain" \/ d[c].kind = "attribute"
      BY <1>4, <1>6 DEF Kinds
    <2>4. \A u \in U : P2[u] = P[u]
      BY <1>3, <1>4, <1>5, <2>3 DEF HasProperly
    <2> HIDE DEF U
    <2>5. ScopesAreRight(p.scopes, U, P)
      BY <1>1
    <2>6. ScopesAreRight(p.scopes, U, P2)
      BY Zenon, <2>4, <2>5 DEF ScopesAreRight
    <2>7. QED
      BY <2>2, <2>6 DEF U
  <1>7. CASE d[c].kind = "text_value"
    <2>1. Captures(frame)
      BY Zenon, <1>2, <1>4, <1>7, CapturesText
    <2>2. frame.capture_prop = prop /\ frame.el = c /\ frame.capture_parts = TextIn(d, c)
      BY <1>2, <1>7 DEF Stands, Matches
    <2>3. Collected(p) = Add(p.scopes, prop, val)
      BY Zenon, <2>1, <2>2 DEF Collected
    <2>4. prop # NoProp /\ prop \in Props
      BY <1>4, <1>7 DEF HasProperly, Itemprops
    <2>5. val \in Values(n) /\ val # NoValue
      BY <1>1, <1>4 DEF Value, Values, NoValue, TextIn
    <2>6. ValueIn(d, P, c) = val
      BY <1>7 DEF ValueIn
    <2>7. EntryIn(d, P, c) = [prop |-> prop, value |-> val]
      BY <2>6 DEF EntryIn
    <2>8. Deepest(d, d[c].within, "scope") = x
      <3>1. /\ \A a \in ToSet(o2) : d[a].kind = d[a].kind
            /\ ToSet(o2) \subseteq ToSet(o) /\ \A a \in ToSet(o) \ ToSet(o2) : d[a].kind # "scope"
        BY <1>4, <1>7
      <3>2. Deepest(d, ToSet(o), "scope") = Deepest(d, ToSet(o2), "scope")
        BY <3>1, DeepestSame
      <3>3. QED
        BY <1>4, <3>2
    <2> DEFINE scopes == p.scopes
               stack == p.stack
    <2>9. /\ Rises(stack, scopes, n) /\ StackIsRight(stack, d, o, sp)
          /\ scopes \in Seq(Scopes(n)) /\ IsRising(scopes) /\ ScopesAreRight(scopes, U, P)
      BY <1>1
    <2> HIDE DEF scopes, stack, n
    <2>10. /\ x # 0 /\ x \notin sp => scopes # <<>> /\ Last(scopes).el = x
           /\ scopes # <<>> /\ Last(scopes).el \in U => Last(scopes).el = x
      BY <1>1, <2>9, LastScope
    <2>11. x \in U => x # 0 /\ x \notin sp
      BY <1>1
    <2> HIDE DEF U, x, prop, val
    <2>12. \A u \in U : P2[u] = IF u = x /\ val # NoValue
                                THEN Append(P[u], [prop |-> prop, value |-> val]) ELSE P[u]
      <3>1. ASSUME NEW u \in U
            PROVE  P2[u] = IF u = x /\ val # NoValue
                           THEN Append(P[u], [prop |-> prop, value |-> val]) ELSE P[u]
        <4>1. u \in 0..n
          BY <1>5
        <4>2. P2[u] = IF x = u THEN Append(P[u], [prop |-> prop, value |-> val]) ELSE P[u]
          BY Zenon, <1>3, <1>7, <2>4, <2>5, <2>6, <2>7, <2>8, <4>1 DEF prop
        <4>3. QED
          BY Zenon, <2>5, <4>2
      <3>2. QED
        BY Zenon, <3>1
    <2>13. Fits(scopes, U, x, P, P2, prop, val)
      BY Zenon, <2>9, <2>10, <2>11, <2>12 DEF Fits
    <2>14. ScopesAreRight(Add(scopes, prop, val), U, P2)
      BY <1>1, <2>4, <2>5, <2>9, <2>13, AddRight
    <2>15. QED
      BY <2>3, <2>14 DEF scopes, U
  <1>8. QED
    BY <1>6, <1>7

\* An item ends.
LEMMA EndItem ==
    ASSUME NEW p, NEW d, NEW o, NEW w, NEW sp, NEW P, Good(p, d, o, w, sp, P),
           NEW c, NEW o2, NEW v, Closes(d, o, c, o2, v), c \notin sp, d[c].kind = "scope",
           d[c].prop \in Itemprops, NEW P2, IsSaid(P2, d, w \o v),
           NEW t, t = HandleEndTag(p)
    PROVE  /\ ScopesAreRight(t.scopes, ToSet(o2) \ sp, P2)
           /\ t.items = IF d[c].prop = NoProp THEN Append(p.items, Last(p.scopes)) ELSE p.items
           /\ Last(p.scopes).el = c /\ Last(p.scopes).props = P[c]
  <1> DEFINE n == Len(d)
             U == ToSet(o2) \ sp
             x == Deepest(d, ToSet(o2), "scope")
             frame == Last(p.stack)
             scope == Last(p.scopes)
             prop == d[c].prop
             val == Resolve(scope.props)
             stack == p.stack
             scopes == p.scopes
  <1>1. /\ Writes(d, o, w, sp) /\ Nests(d, o, w, sp) /\ ToSet(o) \subseteq 1..n
        /\ Rises(stack, scopes, n) /\ scopes \in Seq(Scopes(n)) /\ stack \in Seq(Frames(n))
        /\ IsRising(scopes) /\ IsRising(stack) /\ StackIsRight(stack, d, o, sp)
        /\ ScopesAreRight(scopes, ToSet(o) \ sp, P) /\ n \in Nat /\ Agree(p, n)
    BY GoodFacts
  <1>2. stack # <<>> /\ Stands(frame, d, c) /\ StackIsRight(Front(stack), d, o2, sp)
    BY EndClean
  <1>3. frame.opened_scope /\ frame.nested_prop = prop /\ frame.el = c
    BY <1>2 DEF Stands, Matches
  <1>4. /\ c \in 1..n /\ d[c].within = ToSet(o2) /\ ToSet(o2) \subseteq ToSet(o) /\ c \in ToSet(o)
        /\ Nests(d, o2, w, sp) /\ Writes(d, o2, w, sp)
    BY <1>1, LastOpen
  <1>b. \A u \in 0..Len(d) : GoesTo(d, c, P, P2, u)
    BY SaidEnd
  <1>5. Els(scopes) = Opened(stack)
    BY <1>1 DEF Rises
  <1>6. scopes # <<>> /\ scope.el = c
    <2>1. scope.el = frame.el
      BY <1>1, <1>2, <1>3, TopScope
    <2>2. \A i \in 1..Len(stack) : stack[i].el \in Nat
      BY <1>1, StackNodes
    <2> HIDE DEF stack, scopes
    <2>3. Last(stack).opened_scope => Last(stack).el \in Opened(stack)
      BY <1>1, <1>2, <2>2, RisingFront
    <2>4. Opened(stack) # {}
      BY <1>3, <2>3 DEF stack
    <2>5. scopes # <<>>
      BY <1>1, <1>5, <2>4 DEF Els
    <2>6. QED
      BY <1>3, <2>1, <2>5
  <1>7. scope \in Scopes(n) /\ scope.props = P[c]
    <2> HIDE DEF scopes, n
    <2>1. Last(scopes) = scopes[Len(scopes)] /\ Len(scopes) \in 1..Len(scopes) /\ Last(scopes) \in Scopes(n)
      BY <1>1, <1>6, FrontFacts
    <2>2. scopes[Len(scopes)].el = c
      BY <1>6, <2>1 DEF scopes
    <2>3. scopes[Len(scopes)].el \in ToSet(o) \ sp
      BY <1>4, <2>2
    <2>4. scopes[Len(scopes)].props = P[c]
      BY Zenon, <1>1, <2>1, <2>2, <2>3 DEF ScopesAreRight
    <2>5. QED
      BY <2>1, <2>4 DEF scopes
  <1>8. val \in Values(n) \cup {NoValue} /\ val = ValueIn(d, P, c)
    <2>1. scope.props \in Seq([prop : Props, value : Values(n)])
      BY <1>7 DEF Scopes
    <2>2. val \in Values(n) \cup {NoValue}
      <3> DEFINE props == scope.props
      <3>1. props \in Seq([prop : Props, value : Values(n)])
        BY <2>1
      <3> HIDE DEF props
      <3>2. QED
        BY <1>1, <3>1, ResolveFacts DEF props
    <2>3. ValueIn(d, P, c) = Resolve(P[c])
      BY DEF ValueIn
    <2>4. QED
      BY <1>7, <2>2, <2>3
  <1>9. EntryIn(d, P, c) = [prop |-> prop, value |-> val]
    BY Zenon, <1>8 DEF EntryIn
  <1> DEFINE f == Front(scopes)
             g == Front(stack)
  <1>10. /\ f \in Seq(Scopes(n)) /\ IsRising(f) /\ Rises(g, f, n) /\ ScopesAreRight(f, U, P)
    <2>1. /\ \A i \in 1..Len(stack) : stack[i].el \in 1..n /\ stack[i].el \in Nat
          /\ \A i \in 1..Len(scopes) : scopes[i].el \in 1..n /\ scopes[i].el \in Nat
      BY <1>1, StackNodes
    <2>a. Last(stack).el = c /\ Last(scopes).el = c
      BY <1>3, <1>6
    <2> HIDE DEF stack, scopes, n, U
    <2>2. /\ f \in Seq(Scopes(n)) /\ Len(f) = Len(scopes) - 1 /\ Len(scopes) \in 1..Len(scopes)
          /\ \A i \in 1..(Len(scopes) - 1) : f[i] = scopes[i]
      BY <1>1, <1>6, FrontFacts
    <2>3. g \in Seq(Frames(n))
      BY <1>1, <1>2, FrontFacts
    <2>4. IsRising(f) /\ Els(f) = Els(scopes) \ {c}
      BY <1>1, <1>6, <2>1, <2>a, RisingFront
    <2>5. IsRising(g) /\ Opened(g) = Opened(stack) \ {c}
      BY <1>1, <1>2, <2>1, <2>a, RisingFront
    <2>6. Rises(g, f, n)
      BY <1>5, <2>2, <2>3, <2>4, <2>5 DEF Rises
    <2>7. ScopesAreRight(f, U, P)
      <3>1. \A i \in 1..Len(f) : i \in 1..Len(scopes) /\ f[i] = scopes[i]
        BY <2>2
      <3>2. U \subseteq ToSet(o) \ sp
        BY <1>4 DEF U
      <3>3. QED
        BY Zenon, <1>1, <3>1, <3>2 DEF ScopesAreRight
    <2>8. QED
      BY <2>2, <2>4, <2>6, <2>7
  <1>11. /\ prop = NoProp => t.scopes = f /\ t.items = Append(p.items, scope)
         /\ prop # NoProp => t.scopes = Add(f, prop, val) /\ t.items = p.items
    <2>1. p \in Parsers(n) /\ p.stack # <<>>
      BY <1>1, <1>2 DEF Agree
    <2>2. /\ frame.opened_scope /\ frame.nested_prop = NoProp =>
                t.scopes = Front(p.scopes) /\ t.items = Append(p.items, scope)
          /\ frame.opened_scope /\ frame.nested_prop # NoProp =>
                /\ t.scopes = Add(Front(p.scopes), frame.nested_prop, Resolve(scope.props))
                /\ t.items = p.items
      <3>1. PICK fr, sc : fr = frame /\ sc = scope
        OBVIOUS
      <3>2. /\ fr.opened_scope /\ fr.nested_prop = NoProp =>
                  t.scopes = Front(p.scopes) /\ t.items = Append(p.items, sc)
            /\ fr.opened_scope /\ fr.nested_prop # NoProp =>
                  /\ t.scopes = Add(Front(p.scopes), fr.nested_prop, Resolve(sc.props))
                  /\ t.items = p.items
        BY <1>1, <2>1, <3>1, EndFacts
      <3>3. QED
        BY <3>1, <3>2
    <2>3. QED
      BY Zenon, <1>3, <2>2
  <1>12. U \subseteq 0..n
    BY <1>1, <1>4
  <1>13. CASE prop = NoProp
    <2>1. \A u \in U : P2[u] = P[u]
      BY Zenon, <1>b, <1>12, <1>13 DEF GoesTo
    <2> HIDE DEF U, f
    <2>2. ScopesAreRight(f, U, P2)
      BY Zenon, <1>10, <2>1 DEF ScopesAreRight
    <2>3. ScopesAreRight(t.scopes, U, P2)
      BY <1>11, <1>13, <2>2
    <2>4. QED
      BY <1>6, <1>7, <1>11, <1>13, <2>3 DEF U
  <1>14. CASE prop # NoProp
    <2>1. prop \in Props
      BY <1>14 DEF Itemprops
    <2>2. \A u \in U : P2[u] = IF u = x /\ val # NoValue
                               THEN Append(P[u], [prop |-> prop, value |-> val]) ELSE P[u]
      <3>1. ASSUME NEW u \in U
            PROVE  P2[u] = IF u = x /\ val # NoValue
                           THEN Append(P[u], [prop |-> prop, value |-> val]) ELSE P[u]
        <4>1. GoesTo(d, c, P, P2, u)
          BY <1>b, <1>12
        <4>2. P2[u] = IF Deepest(d, d[c].within, "scope") = u /\ ValueIn(d, P, c) # NoValue
                      THEN Append(P[u], EntryIn(d, P, c)) ELSE P[u]
          BY <1>14, <4>1 DEF GoesTo
        <4> HIDE DEF val, prop
        <4>3. P2[u] = IF x = u /\ val # NoValue
                      THEN Append(P[u], [prop |-> prop, value |-> val]) ELSE P[u]
          BY Zenon, <1>4, <1>8, <1>9, <4>2
        <4> HIDE DEF x
        <4>4. QED
          BY Zenon, <4>3
      <3>2. QED
        BY Zenon, <3>1
    <2>3. StackIsRight(g, d, o2, sp)
      BY <1>2
    <2> HIDE DEF f, g, x, n, val, prop
    <2>4. /\ x # 0 /\ x \notin sp => f # <<>> /\ Last(f).el = x
          /\ f # <<>> /\ Last(f).el \in U => Last(f).el = x
      BY <1>1, <1>4, <1>10, <2>3, LastScope DEF x
    <2>5. x \in U => x # 0 /\ x \notin sp
      BY <1>1, <1>12, <1>4 DEF n
    <2> HIDE DEF U
    <2>6. Fits(f, U, x, P, P2, prop, val)
      BY Zenon, <1>10, <2>2, <2>4, <2>5 DEF Fits
    <2>7. ScopesAreRight(Add(f, prop, val), U, P2)
      BY <1>1, <1>8, <1>10, <2>1, <2>6, AddRight
    <2>8. ScopesAreRight(t.scopes, U, P2)
      BY <1>11, <1>14, <2>7
    <2>9. QED
      BY <1>6, <1>7, <1>11, <1>14, <2>8 DEF U, prop
  <1>15. QED
    BY <1>13, <1>14

\* An end tag that is read where it is.
LEMMA EndLocal ==
    ASSUME NEW p, NEW d, NEW o, NEW w, NEW sp, NEW P, Good(p, d, o, w, sp, P),
           NEW c, NEW o2, NEW v, Closes(d, o, c, o2, v), NEW P2, IsSaid(P2, d, w \o v)
    PROVE  IsLocal(HandleEndTag(p), d, o2, w \o v, sp, P2)
  <1> DEFINE n == Len(d)
             O == ToSet(o) \cup {0}
  <1>0. PICK t : t = HandleEndTag(p)
    OBVIOUS
  <1>1. /\ Writes(d, o, w, sp) /\ Nests(d, o, w, sp) /\ IsTree(d) /\ n \in Nat /\ Agree(p, n)
        /\ ItemsAreRight(p.items, Ended(d, w, sp), P) /\ p.items \in Seq(Scopes(n))
        /\ p \in Parsers(n)
    BY GoodFacts DEF Agree
  <1>2. /\ c \in 1..n /\ ToSet(o2) \subseteq ToSet(o) /\ o2 \in Seq(1..n) /\ Writes(d, o2, w, sp)
        /\ c \in ToSet(o)
        /\ c \in sp => ToSet(o) \subseteq sp
    BY <1>1, LastOpen
  <1>3. d[c].prop \in Itemprops /\ d[c].kind \in Kinds \cup {"text"}
    <2>1. d \in Seq(Nodes) /\ c \in 1..Len(d)
      BY <1>1, <1>2 DEF IsTree
    <2>2. d[c] \in Nodes
      BY <2>1
    <2>3. QED
      BY <2>2 DEF Nodes
  <1>4. v = IF d[c].kind = "attribute" THEN <<>> ELSE <<c>>
    BY Zenon DEF Closes
  <1>5. \A k \in 1..Len(v) : v[k] = c
    <2>1. CASE d[c].kind = "attribute"
      BY <1>4, <2>1
    <2>2. CASE d[c].kind # "attribute"
      BY <1>4, <2>2
    <2>3. QED
      BY <2>1, <2>2
  <1>6. Reads(d, d, w, v, P, P2, O) /\ P2[c] = P[c]
    <2>1. Reads(d, d, w, v, P, P2, ToSet(o) \cup {0})
      BY SaidEnd
    <2>2. /\ Reads(d, d, w, v, P, P2, ToSet(o) \cup {0})
          /\ P2[c] = P[c]
          /\ \A x \in 0..Len(d) : GoesTo(d, c, P, P2, x)
      BY SaidEnd
    <2>3. QED
      BY <2>1, <2>2
  <1>7. Extends(p.items, t.items)
    BY <1>0, <1>1, EndExtends
  <1> HIDE DEF O
  <1>8. CASE c \in sp
    <2>1. /\ Len(o2) \in Nat /\ ToSet(o2) \subseteq sp /\ \A i \in 1..Len(o2) : o2[i] \in ToSet(o2)
      BY <1>2, <1>8, WritesFacts
    <2>2. \A k \in 1..Len(v) : v[k] \in sp \/ v[k] \notin StandsAlone(d)
      BY <1>5, <1>8
    <2>3. sp \subseteq sp
      OBVIOUS
    <2>4. IsLocal(t, d, o2, w \o v, sp, P2)
      BY <1>1, <1>6, <1>7, <2>1, <2>2, <2>3, Departed
    <2>5. QED
      BY <1>0, <2>4
  <1>9. CASE c \notin sp
    <2>1. p.stack # <<>> /\ Stands(Last(p.stack), d, c) /\ StackIsRight(Front(p.stack), d, o2, sp)
      BY <1>9, EndClean
    <2>2. PICK fr, sc : fr = Last(p.stack) /\ sc = Last(p.scopes)
      OBVIOUS
    <2>3. /\ t.stack = Front(p.stack)
          /\ ~ fr.opened_scope => t.items = p.items /\ t.scopes = Collected(p)
      BY <1>0, <1>1, <2>1, <2>2, EndFacts
    <2>4. fr.opened_scope <=> d[c].kind = "scope"
      BY <2>1, <2>2 DEF Stands, Matches
    <2>5. StackIsRight(t.stack, d, o2, sp)
      BY <2>1, <2>3
    <2>6. CASE d[c].kind # "scope"
      <3>1. t.items = p.items /\ t.scopes = Collected(p)
        BY <2>3, <2>4, <2>6
      <3>2. ScopesAreRight(Collected(p), ToSet(o) \ sp, P2)
        BY <1>3, <1>9, <2>6, EndScopes
      <3>3. ToSet(o2) \ sp \subseteq ToSet(o) \ sp
        BY <1>2
      <3>4. ScopesAreRight(t.scopes, ToSet(o2) \ sp, P2)
        BY <3>1, <3>2, <3>3 DEF ScopesAreRight
      <3>5. \A k \in 1..Len(v) : v[k] \notin StandsAlone(d)
        BY <1>5, <2>6 DEF StandsAlone
      <3>6. ItemsAreRight(t.items, Ended(d, w \o v, sp), P2)
        BY <1>1, <1>6, <3>1, <3>5, ItemsKept
      <3>7. QED
        BY <1>0, <2>5, <3>4, <3>6 DEF IsLocal
    <2>7. CASE d[c].kind = "scope"
      <3>1. /\ ScopesAreRight(t.scopes, ToSet(o2) \ sp, P2)
            /\ t.items = IF d[c].prop = NoProp THEN Append(p.items, Last(p.scopes)) ELSE p.items
            /\ Last(p.scopes).el = c /\ Last(p.scopes).props = P[c]
        <4>1. d[c].prop \in Itemprops
          BY <1>3
        <4>2. QED
          BY <1>0, <1>9, <2>7, <4>1, EndItem
      <3>2. CASE d[c].prop # NoProp
        <4>1. \A k \in 1..Len(v) : v[k] \notin StandsAlone(d)
          BY <1>5, <3>2 DEF StandsAlone
        <4>2. t.items = p.items
          BY <3>1, <3>2
        <4>3. ItemsAreRight(t.items, Ended(d, w \o v, sp), P2)
          BY <1>1, <1>6, <4>1, <4>2, ItemsKept
        <4>4. QED
          BY <1>0, <2>5, <3>1, <4>3 DEF IsLocal
      <3>3. CASE d[c].prop = NoProp
        <4>1. t.items = Append(p.items, sc) /\ sc.el = c /\ sc.props = P2[c]
          BY <1>6, <2>2, <3>1, <3>3
        <4>2. Len(p.items) + 1 \in 1..Len(t.items) /\ t.items[Len(p.items) + 1] = sc
          BY <1>1, <4>1, AppendElements
        <4>3. ItemsAreRight(t.items, Ended(d, w, sp), P2)
          BY <1>1, <1>6, <1>7, ItemsStay
        <4>4. ASSUME NEW m \in Ended(d, w \o v, sp)
              PROVE  \E i \in 1..Len(t.items) : t.items[i].el = m /\ t.items[i].props = P2[m]
          <5>1. m \in Ended(d, w, sp) \/ \E k \in 1..Len(v) : m = v[k]
            <6>1. sp \subseteq sp
              OBVIOUS
            <6>2. QED
              BY <1>6, <6>1, EndedGrows
          <5>2. CASE m \in Ended(d, w, sp)
            BY Zenon, <4>3, <5>2 DEF ItemsAreRight
          <5>3. CASE m = c
            BY Zenon, <4>1, <4>2, <5>3
          <5>4. QED
            BY <1>5, <5>1, <5>2, <5>3
        <4>5. ItemsAreRight(t.items, Ended(d, w \o v, sp), P2)
          BY Zenon, <4>4 DEF ItemsAreRight
        <4>6. QED
          BY <1>0, <2>5, <3>1, <4>5 DEF IsLocal
      <3>4. QED
        BY <3>2, <3>3
    <2>8. QED
      BY <2>6, <2>7
  <1>10. QED
    BY <1>8, <1>9

-------------------------------------------------------------------------------
(* The invariant. *)

LEMMA TreeWrites ==
    ASSUME Tree
    PROVE  /\ Writes(doc, open, order, spoiled) /\ IsTree(doc)
           /\ open \in Seq(1..Len(doc)) /\ order \in Seq(1..Len(doc)) /\ Len(doc) \in Nat
           /\ ToSet(open) \subseteq 1..Len(doc) /\ Len(open) \in Nat
  <1>1. Writes(doc, open, order, spoiled)
    BY DEF Tree, Writes, IsTree
  <1>2. QED
    BY <1>1, WritesFacts

LEMMA TreeWritesNext ==
    ASSUME Tree'
    PROVE  /\ IsTree(doc') /\ order' \in Seq(1..Len(doc'))
           /\ open' \in Seq(1..Len(doc')) /\ Len(doc') \in Nat
  BY DEF Tree, IsTree

\* A document with one more node.
LEMMA OneMore1 ==
    ASSUME Tree, NEW e, e \in Elements \/ e = [kind |-> "text", prop |-> NoProp],
           doc' = Append(doc, Node(e))
    PROVE  /\ Longer1(doc, doc', open, Node(e)) /\ HasProperly(Node(e))
           /\ Node(e).kind = e.kind /\ Node(e).prop = e.prop
           /\ Len(doc') = Len(doc) + 1 /\ Len(doc) \in Nat
           /\ \A i \in 1..Len(doc) : doc'[i] = doc[i]
           /\ doc'[Len(doc) + 1] = Node(e)
  <1>1. /\ e.kind \in Kinds \cup {"text"} /\ e.prop \in Itemprops
        /\ e.kind \in {"text", "plain"} => e.prop = NoProp
        /\ e.kind = "text_value" => e.prop # NoProp
    BY DEF Elements, Kinds, Itemprops
  <1>2. ToSet(open) \in SUBSET Nat
    BY TreeWrites
  <1>3. Node(e).kind = e.kind /\ Node(e).prop = e.prop /\ Node(e).within = ToSet(open)
    BY DEF Node
  <1>4. Node(e) \in Nodes
    BY <1>1, <1>2 DEF Node, Nodes
  <1>5. /\ doc' \in Seq(Nodes) /\ Len(doc') = Len(doc) + 1 /\ Len(doc) \in Nat
        /\ \A i \in 1..Len(doc) : doc'[i] = doc[i]
        /\ doc'[Len(doc) + 1] = Node(e)
        /\ \A i \in 1..Len(doc') : doc'[i].within \subseteq 1..(i - 1)
    BY <1>4, NodeIsInside
  <1>6. IsTree(doc) /\ IsTree(doc')
    BY <1>5, TreeWrites DEF IsTree
  <1>7. Len(doc) <= Len(doc')
    BY <1>5
  <1>8. GoesOn(doc, doc')
    BY <1>5, <1>6, <1>7 DEF GoesOn
  <1>9. Longer1(doc, doc', open, Node(e))
    BY <1>3, <1>5, <1>8 DEF Longer1
  <1>10. HasProperly(Node(e))
    BY <1>1, <1>3 DEF HasProperly
  <1>11. QED
    BY <1>3, <1>5, <1>9, <1>10

\* The nodes whose values end with the k innermost open elements.
EndedWith(k) ==
    Reverse(Only(SubSeq(open, Len(open) - k + 1, Len(open)),
                 {el \in 1..Len(doc) : doc[el].kind # "attribute"}))

LEMMA EndedWithFacts ==
    ASSUME Tree, NEW k, Close(k)
    PROVE  /\ EndedWith(k) \in Seq(ToSet(open))
           /\ \A j \in 1..Len(EndedWith(k)) :
                 \E i \in 1..Len(open) : Len(open) - k < i /\ EndedWith(k)[j] = open[i]
           /\ order' = order \o EndedWith(k)
           /\ Len(open') = Len(open) - k /\ Len(open) - k \in Nat /\ k \in 1..Len(open)
           /\ \A i \in 1..(Len(open) - k) : open'[i] = open[i]
           /\ doc' = doc
  <1> DEFINE S == {el \in 1..Len(doc) : doc[el].kind # "attribute"}
             m == Len(open) - k
             c == SubSeq(open, m + 1, Len(open))
             V == {open[i] : i \in (m + 1)..Len(open)}
             r == Only(c, S)
             v == Reverse(r)
  <1>1. /\ k \in 1..Len(open) /\ open' = SubSeq(open, 1, m) /\ order' = order \o v /\ doc' = doc
    BY DEF Close
  <1>2. Writes(doc, open, order, spoiled) /\ Len(open) \in Nat /\ open \in Seq(1..Len(doc))
    BY TreeWrites
  <1>3. m \in Nat /\ m < Len(open) /\ m + 1 \in 1..Len(open)
    BY <1>1, <1>2
  <1> HIDE DEF m, S
  <1>4. Len(c) = Len(open) - m /\ \A i \in 1..(Len(open) - m) : c[i] = open[m + i]
    BY <1>2, <1>3
  <1>5. c \in Seq(V)
    <2>1. c \in Seq(1..Len(doc))
      BY <1>2, <1>3
    <2>2. \A i \in 1..(Len(open) - m) : m + i \in (m + 1)..Len(open)
      BY <1>2, <1>3
    <2> HIDE DEF c
    <2>3. \A i \in 1..Len(c) : c[i] \in V
      BY <1>4, <2>2
    <2> HIDE DEF V
    <2>4. QED
      BY <2>1, <2>3
  <1> HIDE DEF c, V
  <1>6. r \in Seq(V)
    BY <1>5, OnlyFacts
  <1> HIDE DEF r
  <1>7. v \in Seq(V)
    <2>1. Len(r) \in Nat /\ \A i \in 1..Len(r) : (Len(r) - i) + 1 \in 1..Len(r)
      BY <1>6
    <2>2. \A i \in 1..Len(r) : r[(Len(r) - i) + 1] \in V
      BY <1>6, <2>1
    <2>3. QED
      BY <2>1, <2>2 DEF Reverse
  <1> HIDE DEF v
  <1>8. ASSUME NEW j \in 1..Len(v)
        PROVE  \E i \in 1..Len(open) : m < i /\ v[j] = open[i]
    <2>1. v[j] \in V
      BY <1>7
    <2>2. PICK i \in (m + 1)..Len(open) : v[j] = open[i]
      BY <2>1 DEF V
    <2>3. i \in 1..Len(open) /\ m < i
      BY <1>2, <1>3
    <2>4. QED
      BY <2>2, <2>3
  <1>9. v \in Seq(ToSet(open))
    <2>1. \A i \in 1..Len(open) : open[i] \in ToSet(open)
      BY <1>2, WritesFacts
    <2>2. \A j \in 1..Len(v) : v[j] \in ToSet(open)
      BY <1>8, <2>1
    <2>3. QED
      BY <1>7, <2>2
  <1>10. Len(open') = m /\ \A i \in 1..m : open'[i] = open[i]
    BY <1>1, <1>2, <1>3
  <1>11. v = EndedWith(k)
    BY DEF v, r, c, S, m, EndedWith
  <1>12. QED
    BY <1>1, <1>3, <1>8, <1>9, <1>10, <1>11 DEF m

LEMMA NestingGrows ==
    ASSUME Tree, Nesting, NEW e \in Elements, Grow(e)
    PROVE  Nests(doc', open', order', spoiled)
  <1> DEFINE el == Len(doc) + 1
             node == Node(e)
  <1>1. /\ doc' = Append(doc, node)
        /\ open' = IF e.kind = "void" THEN open ELSE Append(open, el)
        /\ order' = IF e.kind \in {"void", "attribute"} THEN Append(order, el) ELSE order
    BY DEF Grow
  <1>2. /\ Longer1(doc, doc', open, node) /\ HasProperly(node) /\ node.kind = e.kind
        /\ doc'[el] = node /\ Len(doc) \in Nat
    BY <1>1, OneMore1
  <1>3. /\ Writes(doc, open, order, spoiled) /\ order \in Seq(1..Len(doc))
        /\ ToSet(open) \subseteq 1..Len(doc)
    BY TreeWrites
  <1>4. Nests(doc, open, order, spoiled)
    BY DEF Nesting
  <1>5. e.kind # "text"
    BY DEF Elements, Kinds
  <1>6. Nests(doc', open', order, spoiled)
    <2>1. CASE e.kind = "void"
      <3>1. Nests(doc', open, order, spoiled)
        BY <1>2, <1>3, <1>4, NestsOlder
      <3>2. QED
        BY <1>1, <2>1, <3>1
    <2>2. CASE e.kind # "void"
      <3>1. Nests(doc', Append(open, Len(doc) + 1), order, spoiled)
        <4>1. node.kind \notin {"void", "text"}
          BY <1>2, <1>5, <2>2
        <4> HIDE DEF node
        <4>2. QED
          BY <1>2, <1>3, <1>4, <4>1, NestsOpen
      <3>2. QED
        BY <1>1, <2>2, <3>1
    <2>3. QED
      BY <2>1, <2>2
  <1>7. \A n \in ToSet(order') :
           n \in ToSet(order) \/ doc'[n].kind = "attribute" \/ n \notin ToSet(open')
    <2>1. CASE e.kind \in {"void", "attribute"}
      <3>1. ToSet(order') = ToSet(order) \cup {el}
        BY <1>1, <1>3, <2>1, AppendElements
      <3>2. doc'[el].kind = "attribute" \/ el \notin ToSet(open')
        <4>1. CASE e.kind = "attribute"
          BY <1>2, <4>1
        <4>2. CASE e.kind = "void"
          BY <1>1, <1>2, <1>3, <4>2
        <4>3. QED
          BY <2>1, <4>1, <4>2
      <3>3. QED
        BY <3>1, <3>2
    <2>2. CASE e.kind \notin {"void", "attribute"}
      BY <1>1, <2>2
    <2>3. QED
      BY <2>1, <2>2
  <1>8. QED
    BY <1>6, <1>7, NestsEnd

LEMMA NestingCloses ==
    ASSUME Tree, Nesting, NEW k, Close(k)
    PROVE  Nests(doc', open', order', spoiled) /\ ToSet(open') \subseteq ToSet(open)
  <1> DEFINE m == Len(open) - k
             v == EndedWith(k)
  <1>1. /\ v \in Seq(ToSet(open))
        /\ \A j \in 1..Len(v) : \E i \in 1..Len(open) : m < i /\ v[j] = open[i]
        /\ order' = order \o v
        /\ Len(open') = m /\ m \in Nat /\ k \in 1..Len(open)
        /\ \A i \in 1..m : open'[i] = open[i]
        /\ doc' = doc
    BY EndedWithFacts
  <1>2. Writes(doc, open, order, spoiled) /\ order \in Seq(1..Len(doc)) /\ Len(open) \in Nat
    BY TreeWrites
  <1>3. m <= Len(open)
    BY <1>1, <1>2
  <1>4. Nests(doc, open, order, spoiled)
    BY DEF Nesting
  <1> HIDE DEF m, v
  <1>5. /\ Nests(doc, open', order, spoiled)
        /\ ToSet(open') \subseteq ToSet(open)
        /\ \A i \in 1..Len(open) : m < i => open[i] \notin ToSet(open')
    BY <1>1, <1>2, <1>3, <1>4, NestsClose
  <1>6. ASSUME NEW n \in ToSet(order')
        PROVE  n \in ToSet(order) \/ n \notin ToSet(open')
    <2>1. n \in ToSet(order) \/ \E j \in 1..Len(v) : n = v[j]
      BY <1>1, <1>2, <1>6, JoinedElements
    <2>2. QED
      BY <1>1, <1>5, <2>1
  <1>7. Nests(doc, open', order', spoiled)
    <2>1. \A n \in ToSet(order') :
             n \in ToSet(order) \/ doc[n].kind = "attribute" \/ n \notin ToSet(open')
      BY <1>6
    <2>2. QED
      BY <1>5, <2>1, NestsEnd
  <1>8. QED
    BY <1>1, <1>5, <1>7

LEMMA NestingNext ==
    ASSUME Tree, Nesting, [Next]_vars
    PROVE  Nesting'
  <1>1. ASSUME NEW e \in Elements, StartTag(e) PROVE Nesting'
    <2>1. Grow(e) /\ spoiled' = spoiled
      BY <1>1 DEF StartTag
    <2>2. Nests(doc', open', order', spoiled)
      BY <2>1, NestingGrows
    <2>3. QED
      BY <2>1, <2>2 DEF Nesting
  <1>2. ASSUME NEW e \in Elements, SlashedTag(e) PROVE Nesting'
    <2>1. Grow(e) /\ spoiled' = spoiled \cup ToSet(open')
      BY <1>2 DEF SlashedTag, Depart
    <2>2. Nests(doc', open', order', spoiled)
      BY <2>1, NestingGrows
    <2>3. ToSet(open') \subseteq spoiled'
      BY <2>1
    <2>4. Nests(doc', open', order', spoiled')
      BY <2>2, <2>3, NestsSpoil
    <2>5. QED
      BY <2>4 DEF Nesting
  <1>3. CASE Text
    <2> DEFINE e == [kind |-> "text", prop |-> NoProp]
    <2>1. /\ doc' = Append(doc, Node(e)) /\ open' = open /\ order' = order /\ spoiled' = spoiled
      BY <1>3 DEF Text
    <2>2. e = [kind |-> "text", prop |-> NoProp]
      OBVIOUS
    <2> HIDE DEF e
    <2>3. Longer1(doc, doc', open, Node(e)) /\ HasProperly(Node(e))
      BY <2>1, <2>2, OneMore1
    <2>4. Nests(doc', open, order, spoiled)
      BY <2>3, TreeWrites, NestsOlder DEF Nesting
    <2>5. QED
      BY <2>1, <2>4 DEF Nesting
  <1>4. CASE EndTag
    <2>1. Close(1) /\ spoiled' = spoiled
      BY <1>4 DEF EndTag
    <2>2. Nests(doc', open', order', spoiled)
      BY <2>1, NestingCloses
    <2>3. QED
      BY <2>1, <2>2 DEF Nesting
  <1>5. ASSUME NEW k, OmittedEndTags(k) PROVE Nesting'
    <2>1. Close(k) /\ spoiled' = spoiled \cup ToSet(open)
      BY <1>5 DEF OmittedEndTags, Depart
    <2>2. Nests(doc', open', order', spoiled) /\ ToSet(open') \subseteq ToSet(open)
      BY <2>1, NestingCloses
    <2>3. ToSet(open') \subseteq spoiled'
      BY <2>1, <2>2
    <2>4. Nests(doc', open', order', spoiled')
      BY <2>2, <2>3, NestsSpoil
    <2>5. QED
      BY <2>4 DEF Nesting
  <1>a. ASSUME NEW k, ImpliedEnds(k) PROVE Nesting'
    <2>1. Close(k) /\ spoiled' = spoiled \cup ToSet(open)
      BY <1>a DEF ImpliedEnds, Depart
    <2>2. Nests(doc', open', order', spoiled) /\ ToSet(open') \subseteq ToSet(open)
      BY <2>1, NestingCloses
    <2>3. ToSet(open') \subseteq spoiled'
      BY <2>1, <2>2
    <2>4. Nests(doc', open', order', spoiled')
      BY <2>2, <2>3, NestsSpoil
    <2>5. QED
      BY <2>4 DEF Nesting
  <1>6. CASE StrayEndTag
    <2>1. doc' = doc /\ open' = open /\ order' = order /\ spoiled' = spoiled \cup ToSet(open)
      BY <1>6 DEF StrayEndTag, Depart
    <2>2. ToSet(open) \subseteq spoiled'
      BY <2>1
    <2>3. Nests(doc, open, order, spoiled')
      BY <2>2, NestsSpoil DEF Nesting
    <2>4. QED
      BY <2>1, <2>3 DEF Nesting
  <1>7. CASE UNCHANGED vars
    BY <1>7 DEF vars, documentVars, Nesting
  <1>8. QED
    BY <1>1, <1>2, <1>3, <1>4, <1>5, <1>6, <1>7, <1>a DEF Next

LEMMA NestingInit == Init => Nesting
  <1> SUFFICES ASSUME Init PROVE Nesting
    OBVIOUS
  <1>1. doc = <<>> /\ open = <<>> /\ order = <<>> /\ spoiled = {}
    BY DEF Init
  <1>2. QED
    BY <1>1 DEF Nesting, Nests, Deepens, EndsWhenClosed, SpoilsOutwards, ToSet

LocalInvariant == StacksAgree /\ Tree /\ Nesting /\ LocalInv

LEMMA StateIsGood ==
    ASSUME LocalInvariant
    PROVE  /\ Good(parser, doc, open, order, spoiled, PropertiesOf)
           /\ parser \in Parsers(Len(doc))
           /\ ItemsAreRight(parser.items, Ended(doc, order, spoiled), PropertiesOf)
  <1>1. Writes(doc, open, order, spoiled) /\ IsTree(doc) /\ order \in Seq(1..Len(doc))
    BY TreeWrites DEF LocalInvariant
  <1>2. IsSaid(PropertiesOf, doc, order)
    BY <1>1, PropertiesAreSaid
  <1>3. Agree(parser, Len(doc)) /\ Nests(doc, open, order, spoiled)
    BY DEF LocalInvariant, StacksAgree, Nesting
  <1>4. IsLocal(parser, doc, open, order, spoiled, PropertiesOf)
    BY DEF LocalInvariant, LocalInv
  <1>5. Good(parser, doc, open, order, spoiled, PropertiesOf)
    BY <1>1, <1>2, <1>3, <1>4 DEF Good
  <1>6. QED
    BY <1>3, <1>4, <1>5 DEF Agree, IsLocal

\* The values that a start tag ends.
Begun(e) == IF e.kind \in {"void", "attribute"} THEN <<Len(doc) + 1>> ELSE <<>>

LEMMA BegunFacts ==
    ASSUME Tree, NEW e \in Elements, Grow(e)
    PROVE  /\ order' = order \o Begun(e)
           /\ Begun(e) \in Seq({Len(doc) + 1})
           /\ \A k \in 1..Len(Begun(e)) : Begun(e)[k] \notin StandsAlone(doc')
  <1> DEFINE el == Len(doc) + 1
  <1>1. /\ doc' = Append(doc, Node(e))
        /\ order' = IF e.kind \in {"void", "attribute"} THEN Append(order, el) ELSE order
    BY DEF Grow
  <1>2. doc'[el] = Node(e) /\ Node(e).kind = e.kind
    BY <1>1, OneMore1
  <1>3. order \in Seq(1..Len(doc)) /\ Len(doc) \in Nat
    BY TreeWrites
  <1>4. order \o <<>> = order /\ order \o <<el>> = Append(order, el)
    BY <1>3
  <1>5. CASE e.kind \in {"void", "attribute"}
    <2>1. Begun(e) = <<el>>
      BY <1>5 DEF Begun
    <2>2. el \notin StandsAlone(doc')
      BY <1>2, <1>5 DEF StandsAlone
    <2>3. order' = order \o Begun(e)
      BY <1>1, <1>4, <1>5, <2>1
    <2> HIDE DEF el
    <2>4. <<el>> \in Seq({el}) /\ \A k \in 1..Len(<<el>>) : <<el>>[k] = el
      OBVIOUS
    <2>5. Begun(e) \in Seq({el}) /\ \A k \in 1..Len(Begun(e)) : Begun(e)[k] \notin StandsAlone(doc')
      BY Zenon, <2>1, <2>2, <2>4
    <2>6. QED
      BY <2>3, <2>5 DEF el
  <1>6. CASE e.kind \notin {"void", "attribute"}
    <2>1. Begun(e) = <<>>
      BY <1>6 DEF Begun
    <2>2. QED
      BY <1>1, <1>4, <1>6, <2>1
  <1>7. QED
    BY <1>5, <1>6

LEMMA LocalStart ==
    ASSUME LocalInvariant, Tree', NEW e \in Elements, StartTag(e)
    PROVE  LocalInv'
  <1> DEFINE node == Node(e)
             v == Begun(e)
  <1>0. Tree
    BY DEF LocalInvariant
  <1>1. Grow(e) /\ spoiled' = spoiled /\ parser' = HandleStartTag(parser, Len(doc) + 1, e.kind, e.prop)
    BY DEF StartTag
  <1>2. doc' = Append(doc, node) /\ open' = IF e.kind = "void" THEN open ELSE Append(open, Len(doc) + 1)
    BY <1>1 DEF Grow
  <1>3. Longer1(doc, doc', open, node) /\ node.kind = e.kind /\ node.prop = e.prop
    BY <1>0, <1>2, OneMore1
  <1>4. order' = order \o v
    BY <1>0, <1>1, BegunFacts
  <1>5. v = IF e.kind \in {"void", "attribute"} THEN <<Len(doc) + 1>> ELSE <<>>
    BY DEF Begun
  <1>6. IsSaid(PropertiesOf', doc', order')
    BY TreeWritesNext, PropertiesAreSaidNext
  <1>7. Good(parser, doc, open, order, spoiled, PropertiesOf)
    BY StateIsGood
  <1> HIDE DEF node, v
  <1>8. IsSaid(PropertiesOf', doc', order \o v)
    BY <1>4, <1>6
  <1>9. IsLocal(HandleStartTag(parser, Len(doc) + 1, e.kind, e.prop), doc', open', order \o v,
                spoiled, PropertiesOf')
    BY <1>2, <1>3, <1>5, <1>7, <1>8, StartLocal
  <1>10. IsLocal(parser', doc', open', order', spoiled', PropertiesOf')
    BY <1>1, <1>4, <1>9
  <1>11. QED
    BY <1>10 DEF LocalInv

LEMMA LocalText ==
    ASSUME LocalInvariant, Tree', Text
    PROVE  LocalInv'
  <1> DEFINE e == [kind |-> "text", prop |-> NoProp]
  <1>0. Tree
    BY DEF LocalInvariant
  <1>1. /\ doc' = Append(doc, Node(e)) /\ open' = open /\ order' = order /\ spoiled' = spoiled
        /\ parser' = HandleData(parser, Len(doc) + 1)
    BY DEF Text
  <1>2. e = [kind |-> "text", prop |-> NoProp] /\ e.kind = "text"
    OBVIOUS
  <1> HIDE DEF e
  <1>3. Longer1(doc, doc', open, Node(e)) /\ Node(e).kind = "text"
    BY <1>0, <1>1, <1>2, OneMore1
  <1>4. IsSaid(PropertiesOf', doc', order)
    BY <1>1, TreeWritesNext, PropertiesAreSaidNext
  <1>5. Good(parser, doc, open, order, spoiled, PropertiesOf)
    BY StateIsGood
  <1>6. IsLocal(HandleData(parser, Len(doc) + 1), doc', open, order, spoiled, PropertiesOf')
    BY <1>3, <1>4, <1>5, TextLocal
  <1>7. IsLocal(parser', doc', open', order', spoiled', PropertiesOf')
    BY <1>1, <1>6
  <1>8. QED
    BY <1>7 DEF LocalInv

LEMMA LocalEnd ==
    ASSUME LocalInvariant, Tree', EndTag
    PROVE  LocalInv'
  <1> DEFINE c == Last(open)
             v == IF doc[c].kind = "attribute" THEN <<>> ELSE <<c>>
  <1>0. Tree
    BY DEF LocalInvariant
  <1>1. Close(1) /\ parser' = HandleEndTag(parser) /\ doc' = doc /\ spoiled' = spoiled
    BY DEF EndTag, Close
  <1>2. /\ open # <<>> /\ open' = Front(open)
        /\ order' = IF doc[c].kind = "attribute" THEN order ELSE Append(order, c)
    BY <1>0, <1>1, CloseOne
  <1>3. order \in Seq(1..Len(doc)) /\ open \in Seq(1..Len(doc))
    BY <1>0, TreeWrites
  <1>4. c \in 1..Len(doc)
    BY <1>2, <1>3, FrontFacts
  <1>5. order' = order \o v
    <2>1. order \o <<>> = order /\ order \o <<c>> = Append(order, c)
      BY <1>3, <1>4
    <2>2. QED
      BY <1>2, <2>1
  <1>6. Closes(doc, open, c, open', v)
    BY <1>2 DEF Closes
  <1>7. IsSaid(PropertiesOf', doc, order')
    BY <1>1, TreeWritesNext, PropertiesAreSaidNext
  <1>8. Good(parser, doc, open, order, spoiled, PropertiesOf)
    BY StateIsGood
  <1> HIDE DEF c, v
  <1>9. IsSaid(PropertiesOf', doc, order \o v)
    BY <1>5, <1>7
  <1>10. IsLocal(HandleEndTag(parser), doc, open', order \o v, spoiled, PropertiesOf')
    BY <1>6, <1>8, <1>9, EndLocal
  <1>11. IsLocal(parser', doc', open', order', spoiled', PropertiesOf')
    BY <1>1, <1>5, <1>10
  <1>12. QED
    BY <1>11 DEF LocalInv

\* A departure: the parser has the items it had, and nothing else matters.
LEMMA LocalDeparts ==
    ASSUME LocalInvariant, Tree', NEW v, NEW O,
           Reads(doc, doc', order, v, PropertiesOf, PropertiesOf', O), order' = order \o v,
           spoiled \subseteq spoiled', Extends(parser.items, parser'.items),
           ToSet(open') \subseteq spoiled',
           \A k \in 1..Len(v) : v[k] \in spoiled' \/ v[k] \notin StandsAlone(doc')
    PROVE  LocalInv'
  <1>1. ItemsAreRight(parser.items, Ended(doc, order, spoiled), PropertiesOf)
    BY StateIsGood
  <1>2. Len(open') \in Nat /\ \A i \in 1..Len(open') : open'[i] \in ToSet(open')
    <2>1. open' \in Seq(1..Len(doc'))
      BY TreeWritesNext
    <2>2. QED
      BY <2>1 DEF ToSet
  <1>3. IsLocal(parser', doc', open', order \o v, spoiled', PropertiesOf')
    BY <1>1, <1>2, Departed
  <1>4. IsLocal(parser', doc', open', order', spoiled', PropertiesOf')
    BY <1>3
  <1>5. QED
    BY <1>4 DEF LocalInv

LEMMA LocalSlash ==
    ASSUME LocalInvariant, Tree', NEW e \in Elements, SlashedTag(e)
    PROVE  LocalInv'
  <1> DEFINE n == Len(doc)
             v == Begun(e)
             t == HandleStartTag(parser, n + 1, e.kind, e.prop)
  <1>0. Tree
    BY DEF LocalInvariant
  <1>1. Grow(e) /\ spoiled' = spoiled \cup ToSet(open') /\ parser' = HandleEndTag(t)
    BY DEF SlashedTag, Depart
  <1>2. doc' = Append(doc, Node(e))
    BY <1>1 DEF Grow
  <1>3. Longer1(doc, doc', open, Node(e)) /\ n \in Nat
    BY <1>0, <1>2, OneMore1
  <1>4. /\ order' = order \o v /\ v \in Seq({Len(doc) + 1})
        /\ \A k \in 1..Len(v) : v[k] \notin StandsAlone(doc')
    BY <1>0, <1>1, BegunFacts
  <1>5. IsSaid(PropertiesOf', doc', order')
    BY TreeWritesNext, PropertiesAreSaidNext
  <1>6. Good(parser, doc, open, order, spoiled, PropertiesOf) /\ parser \in Parsers(n)
    BY StateIsGood
  <1>7. Agree(parser, n)
    BY DEF LocalInvariant, StacksAgree
  <1>8. t \in Parsers(n + 1) /\ t.items = parser.items
    <2>1. Agree(t, n + 1)
      BY <1>3, <1>7, StartTagAgrees
    <2>2. Pushes(t, parser, n + 1, e.kind, e.prop)
      BY <1>3, <1>6, StartTagPushes
    <2>3. QED
      BY <2>1, <2>2 DEF Agree, Pushes
  <1> HIDE DEF t, v
  <1>9. n + 1 \in Nat
    BY <1>3
  <1>10. Extends(parser.items, parser'.items)
    <2>1. Extends(t.items, HandleEndTag(t).items)
      BY <1>8, <1>9, EndExtends
    <2>2. QED
      BY <1>1, <1>8, <2>1
  <1>11. Reads(doc, doc', order, v, PropertiesOf, PropertiesOf', ToSet(open) \cup {0})
    <2>1. IsSaid(PropertiesOf', doc', order \o v)
      BY <1>4, <1>5
    <2>2. QED
      BY <1>3, <1>4, <1>6, <2>1, NewReads
  <1>12. spoiled \subseteq spoiled' /\ ToSet(open') \subseteq spoiled'
    BY <1>1
  <1>13. \A k \in 1..Len(v) : v[k] \in spoiled' \/ v[k] \notin StandsAlone(doc')
    BY <1>4
  <1>14. QED
    BY <1>4, <1>10, <1>11, <1>12, <1>13, LocalDeparts

\* Values of open elements end, and no node is new.
LEMMA OldReads ==
    ASSUME LocalInvariant, Tree', doc' = doc, NEW v \in Seq(ToSet(open)), order' = order \o v
    PROVE  Reads(doc, doc', order, v, PropertiesOf, PropertiesOf', ToSet(open) \cup {0})
  <1>1. /\ Writes(doc, open, order, spoiled) /\ IsTree(doc) /\ order \in Seq(1..Len(doc))
        /\ Len(doc) \in Nat /\ ToSet(open) \subseteq 1..Len(doc)
    BY TreeWrites DEF LocalInvariant
  <1>2. Nests(doc, open, order, spoiled)
    BY DEF LocalInvariant, Nesting
  <1>3. Settled(doc, doc, order, v, ToSet(open) \cup {0})
    BY <1>1, <1>2, SettledOld
  <1>4. GoesOn(doc, doc)
    BY <1>1 DEF GoesOn
  <1>5. v \in Seq(1..Len(doc))
    BY <1>1
  <1>6. IsSaid(PropertiesOf, doc, order)
    BY <1>1, PropertiesAreSaid
  <1>7. IsSaid(PropertiesOf', doc, order \o v)
    BY TreeWritesNext, PropertiesAreSaidNext
  <1>8. Reads(doc, doc, order, v, PropertiesOf, PropertiesOf', ToSet(open) \cup {0})
    BY <1>1, <1>3, <1>4, <1>5, <1>6, <1>7 DEF Reads
  <1>9. QED
    BY <1>8

LEMMA LocalOmitted ==
    ASSUME LocalInvariant, Tree', NEW k, OmittedEndTags(k) \/ ImpliedEnds(k)
    PROVE  LocalInv'
  <1> DEFINE v == EndedWith(k)
  <1>0. Tree /\ Nesting
    BY DEF LocalInvariant
  <1>1. /\ Close(k) /\ spoiled' = spoiled \cup ToSet(open)
        /\ parser' = parser \/ parser' = HandleEndTag(parser)
    BY DEF OmittedEndTags, ImpliedEnds, Depart
  <1>2. v \in Seq(ToSet(open)) /\ order' = order \o v /\ doc' = doc
    BY <1>0, <1>1, EndedWithFacts
  <1>3. ToSet(open') \subseteq ToSet(open)
    BY <1>0, <1>1, NestingCloses
  <1>4. Extends(parser.items, parser'.items)
    <2>1. parser \in Parsers(Len(doc)) /\ Len(doc) \in Nat
      BY <1>0, StateIsGood, TreeWrites
    <2>2. Extends(parser.items, HandleEndTag(parser).items)
      BY <2>1, EndExtends
    <2>3. Extends(parser.items, parser.items)
      BY DEF Extends
    <2>4. QED
      BY <1>1, <2>2, <2>3
  <1> HIDE DEF v
  <1>5. Reads(doc, doc', order, v, PropertiesOf, PropertiesOf', ToSet(open) \cup {0})
    BY <1>2, OldReads
  <1>6. spoiled \subseteq spoiled' /\ ToSet(open') \subseteq spoiled'
    BY <1>1, <1>3
  <1>7. \A j \in 1..Len(v) : v[j] \in spoiled' \/ v[j] \notin StandsAlone(doc')
    BY <1>1, <1>2
  <1>8. QED
    BY <1>2, <1>4, <1>5, <1>6, <1>7, LocalDeparts

LEMMA LocalStray ==
    ASSUME LocalInvariant, Tree', StrayEndTag
    PROVE  LocalInv'
  <1> DEFINE v == <<>>
  <1>0. Tree
    BY DEF LocalInvariant
  <1>1. /\ doc' = doc /\ open' = open /\ order' = order /\ parser' = HandleEndTag(parser)
        /\ spoiled' = spoiled \cup ToSet(open)
    BY DEF StrayEndTag, Depart
  <1>2. v \in Seq(ToSet(open)) /\ order' = order \o v /\ \A j \in 1..Len(v) : v[j] \in spoiled'
    <2>1. order \in Seq(1..Len(doc))
      BY <1>0, TreeWrites
    <2>2. QED
      BY <1>1, <2>1
  <1>3. Extends(parser.items, parser'.items)
    <2>1. parser \in Parsers(Len(doc)) /\ Len(doc) \in Nat
      BY <1>0, StateIsGood, TreeWrites
    <2>2. QED
      BY <1>1, <2>1, EndExtends
  <1> HIDE DEF v
  <1>4. Reads(doc, doc', order, v, PropertiesOf, PropertiesOf', ToSet(open) \cup {0})
    BY <1>1, <1>2, OldReads
  <1>5. spoiled \subseteq spoiled' /\ ToSet(open') \subseteq spoiled'
    BY <1>1
  <1>6. QED
    BY <1>2, <1>3, <1>4, <1>5, LocalDeparts

LEMMA LocalUnchanged ==
    ASSUME LocalInvariant, Tree', UNCHANGED vars
    PROVE  LocalInv'
  <1>0. Tree
    BY DEF LocalInvariant
  <1>1. /\ doc' = doc /\ open' = open /\ order' = order /\ parser' = parser /\ spoiled' = spoiled
    BY DEF vars, documentVars
  <1>2. IsTree(doc) /\ order \in Seq(1..Len(doc))
    BY <1>0, TreeWrites
  <1>3. IsSaid(PropertiesOf, doc, order) /\ IsSaid(PropertiesOf', doc, order)
    BY <1>1, <1>2, TreeWritesNext, PropertiesAreSaid, PropertiesAreSaidNext
  <1>4. GoesOn(doc, doc)
    BY <1>2, <1>0, TreeWrites DEF GoesOn
  <1>5. \A x \in 0..Len(doc) : PropertiesOf'[x] = PropertiesOf[x]
    <2>1. \A n \in ToSet(order) : doc[n].kind = "scope" \/ TextIn(doc, n) = TextIn(doc, n)
      OBVIOUS
    <2>2. QED
      BY <1>2, <1>3, <1>4, <2>1, SaysSame
  <1>6. PropertiesOf' = PropertiesOf
    <2>1. /\ PropertiesOf = [x \in 0..Len(doc) |-> SaidIn(doc, order, PropertiesOf, x)]
          /\ PropertiesOf' = [x \in 0..Len(doc) |-> SaidIn(doc, order, PropertiesOf', x)]
      BY Zenon, <1>3 DEF IsSaid
    <2>2. \A x \in 0..Len(doc) : SaidIn(doc, order, PropertiesOf', x) = SaidIn(doc, order, PropertiesOf, x)
      BY Zenon, <1>3, <1>5, SaidUnfolds
    <2>3. QED
      BY Zenon, <2>1, <2>2
  <1>7. IsLocal(parser, doc, open, order, spoiled, PropertiesOf)
    BY DEF LocalInvariant, LocalInv
  <1>8. IsLocal(parser', doc', open', order', spoiled', PropertiesOf')
    BY <1>1, <1>6, <1>7
  <1>9. QED
    BY <1>8 DEF LocalInv

LEMMA LocalInit == Init => LocalInv
  <1> SUFFICES ASSUME Init PROVE LocalInv
    OBVIOUS
  <1>1. /\ doc = <<>> /\ open = <<>> /\ order = <<>> /\ spoiled = {}
        /\ parser = [stack |-> <<>>, scopes |-> <<>>, items |-> <<>>]
    BY DEF Init
  <1>2. parser.scopes = <<>> /\ parser.items = <<>> /\ Len(open) = 0
    BY <1>1
  <1>3. StackIsRight(parser.stack, doc, open, spoiled)
    <2>1. 0..(Len(open) - 1) = {}
      BY <1>2
    <2>2. QED
      BY <2>1 DEF StackIsRight
  <1>4. ScopesAreRight(parser.scopes, ToSet(open) \ spoiled, PropertiesOf)
    BY <1>2 DEF ScopesAreRight
  <1>5. Ended(doc, order, spoiled) = {}
    BY <1>1 DEF Ended, StandsAlone
  <1>6. ItemsAreRight(parser.items, Ended(doc, order, spoiled), PropertiesOf)
    BY <1>5 DEF ItemsAreRight
  <1>7. QED
    BY <1>3, <1>4, <1>6 DEF LocalInv, IsLocal

LEMMA LocalNext ==
    ASSUME LocalInvariant, [Next]_vars
    PROVE  LocalInvariant'
  <1>1. StacksAgree' /\ Tree' /\ Nesting'
    BY NextAgrees, TreeNext, NestingNext DEF LocalInvariant
  <1>2. LocalInv'
    <2>1. ASSUME NEW e \in Elements, StartTag(e) PROVE LocalInv'
      BY <1>1, <2>1, LocalStart
    <2>2. ASSUME NEW e \in Elements, SlashedTag(e) PROVE LocalInv'
      BY <1>1, <2>2, LocalSlash
    <2>3. CASE Text
      BY <1>1, <2>3, LocalText
    <2>4. CASE EndTag
      BY <1>1, <2>4, LocalEnd
    <2>5. ASSUME NEW k, OmittedEndTags(k) \/ ImpliedEnds(k) PROVE LocalInv'
      BY <1>1, <2>5, LocalOmitted
    <2>6. CASE StrayEndTag
      BY <1>1, <2>6, LocalStray
    <2>7. CASE UNCHANGED vars
      BY <1>1, <2>7, LocalUnchanged
    <2>8. QED
      BY <2>1, <2>2, <2>3, <2>4, <2>5, <2>6, <2>7 DEF Next
  <1>3. QED
    BY <1>1, <1>2 DEF LocalInvariant

(***************************************************************************)
(* Damage stays local, in documents of any length with any number of       *)
(* departures from balanced tags: a standalone item without a departure in *)
(* its content is in the list of the parser with exactly its properties,   *)
(* in the order in which their values end.                                 *)
(***************************************************************************)
THEOREM DamageStaysLocal == Spec => []DamageIsLocal
  <1>1. ASSUME LocalInvariant
        PROVE  DamageIsLocal
    <2> SUFFICES ASSUME NEW n \in ToSet(Standalone) \ spoiled
                 PROVE  \E i \in 1..Len(parser.items) : parser.items[i] = Item(n)
      BY DEF DamageIsLocal
    <2>1. order \in Seq(1..Len(doc))
      BY <1>1, TreeWrites DEF LocalInvariant
    <2>2. Standalone = Only(order, StandsAlone(doc))
      BY DEF Standalone, StandsAlone
    <2>3. n \in StandsAlone(doc) /\ n \in ToSet(order)
      BY <2>1, <2>2, OnlyFacts
    <2>4. n \in Ended(doc, order, spoiled)
      BY <2>3 DEF Ended
    <2>5. /\ ItemsAreRight(parser.items, Ended(doc, order, spoiled), PropertiesOf)
          /\ parser.items \in Seq(Scopes(Len(doc)))
      BY <1>1, StateIsGood DEF Parsers
    <2>6. PICK i \in 1..Len(parser.items) :
             parser.items[i].el = n /\ parser.items[i].props = PropertiesOf[n]
      BY Zenon, <2>4, <2>5 DEF ItemsAreRight
    <2>7. parser.items[i] \in Scopes(Len(doc))
      BY <2>5
    <2> DEFINE scope == parser.items[i]
               props == PropertiesOf[n]
    <2>8. scope \in Scopes(Len(doc)) /\ scope.el = n /\ scope.props = props
      BY <2>6, <2>7
    <2> HIDE DEF scope, props
    <2>9. scope = [el |-> n, props |-> props]
      BY <2>8 DEF Scopes
    <2>10. QED
      BY Zenon, <2>9 DEF Item, scope, props
  <1>2. Init => LocalInvariant
    BY InitAgrees, TreeInit, NestingInit, LocalInit DEF LocalInvariant
  <1>3. QED
    BY LocalNext, <1>1, <1>2, PTL DEF Spec
===============================================================================
