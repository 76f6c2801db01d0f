-------------------------- MODULE DocSearchProofs ---------------------------
(* What TLAPS proves of DocSearch, for every index, every set of texts and *)
(* any number of changes and Enters.                                       *)
EXTENDS DocSearch, FiniteSetTheorems, TLAPS

-----------------------------------------------------------------------------
(* What a query lists *)

LEMMA TypeTerms ==
  ASSUME NEW t, NEW query
  PROVE  TypeResult(t, query).terms \subseteq Range(query)
BY DEF TypeResult

LEMMA MemberTerms ==
  ASSUME NEW m, NEW query
  PROVE  MemberResult(m, query).terms \subseteq Range(query)
BY DEF MemberResult

LEMMA ResultTerms ==
  ASSUME NEW query, NEW r \in RunQuery(query)
  PROVE  r.terms \subseteq Range(query)
<1>1. \/ \E t \in Types : r = TypeResult(t, query)
      \/ \E m \in Members : r = MemberResult(m, query)
  BY DEF RunQuery
<1> QED BY <1>1, TypeTerms, MemberTerms

LEMMA RangeFinite ==
  ASSUME NEW S, NEW s \in Seq(S)
  PROVE  IsFiniteSet(Range(s))
<1>1. /\ Len(s) \in Nat /\ DOMAIN s = 1 .. Len(s)
  OBVIOUS
<1>2. s \in Surjection(1 .. Len(s), Range(s))
  BY <1>1 DEF Range, Surjection
<1>3. IsFiniteSet(1 .. Len(s))
  BY <1>1, FS_Interval
<1> QED BY <1>2, <1>3, FS_Surjection

LEMMA ResultsFinite ==
  ASSUME NEW query
  PROVE  IsFiniteSet(RunQuery(query))
<1> DEFINE ofTypes == [t \in Types |-> TypeResult(t, query)]
           ofMembers == [m \in Members |-> MemberResult(m, query)]
<1>1. ofTypes \in Surjection(Types, {TypeResult(t, query) : t \in Types})
  BY DEF Surjection
<1>2. ofMembers \in Surjection(Members, {MemberResult(m, query) : m \in Members})
  BY DEF Surjection
<1>3. IsFiniteSet({TypeResult(t, query) : t \in Types}
                  \cup {MemberResult(m, query) : m \in Members})
  BY <1>1, <1>2, FS_Surjection, FS_Union, IndexAssumption DEF IndexAssumption
<1>4. RunQuery(query) \subseteq {TypeResult(t, query) : t \in Types}
                         \cup {MemberResult(m, query) : m \in Members}
  BY DEF RunQuery
<1> QED BY <1>3, <1>4, FS_Subset

(* Each element that is kept has a place of its own. *)
UpTo(P, m) == {k \in P : k <= m}

LEMMA KeptRanks ==
  ASSUME NEW n \in Nat, NEW P \in SUBSET (1 .. n)
  PROVE  /\ IsFiniteSet(P) /\ Cardinality(P) \in Nat
         /\ \A i \in P : Cardinality(UpTo(P, i)) \in 1 .. Cardinality(P)
         /\ \A i, j \in P : i < j => Cardinality(UpTo(P, i)) < Cardinality(UpTo(P, j))
         /\ \A k \in 1 .. Cardinality(P) : \E i \in P : Cardinality(UpTo(P, i)) = k
<1>1. IsFiniteSet(P) /\ Cardinality(P) \in Nat
  <2>1. IsFiniteSet(1 .. n)
    BY FS_Interval
  <2> QED BY <2>1, FS_Subset, FS_CardinalityType
<1>2. ASSUME NEW i \in P
      PROVE  /\ IsFiniteSet(UpTo(P, i)) /\ UpTo(P, i) \in SUBSET P /\ i \in UpTo(P, i)
             /\ Cardinality(UpTo(P, i)) \in 1 .. Cardinality(P)
  <2>1. UpTo(P, i) \in SUBSET P /\ i \in UpTo(P, i)
    BY DEF UpTo
  <2>2. /\ IsFiniteSet(UpTo(P, i)) /\ Cardinality(UpTo(P, i)) \in Nat
        /\ Cardinality(UpTo(P, i)) <= Cardinality(P)
    BY <1>1, <2>1, FS_Subset, FS_CardinalityType
  <2>3. Cardinality(UpTo(P, i)) # 0
    BY <2>1, <2>2, FS_EmptySet
  <2> QED BY <1>1, <2>1, <2>2, <2>3
<1>3. ASSUME NEW i \in P, NEW j \in P, i < j
      PROVE  Cardinality(UpTo(P, i)) < Cardinality(UpTo(P, j))
  <2>1. i \in Int /\ j \in Int /\ P \subseteq Int
    OBVIOUS
  <2>2. \A m \in P : m <= i => m <= j
    BY <1>3, <2>1
  <2>3. UpTo(P, i) \in SUBSET UpTo(P, j) /\ j \notin UpTo(P, i)
    <3>1. UpTo(P, i) \in SUBSET UpTo(P, j)
      BY <2>2 DEF UpTo
    <3>2. ~(j <= i)
      BY <1>3, <2>1
    <3> QED BY <3>1, <3>2 DEF UpTo
  <2>4. /\ Cardinality(UpTo(P, i)) <= Cardinality(UpTo(P, j))
        /\ Cardinality(UpTo(P, i)) # Cardinality(UpTo(P, j))
    BY <1>2, <2>3, FS_Subset
  <2>5. Cardinality(UpTo(P, i)) \in Nat /\ Cardinality(UpTo(P, j)) \in Nat
    BY <1>2
  <2> QED BY <2>4, <2>5
<1>4. ASSUME NEW k \in 1 .. Cardinality(P)
      PROVE  \E i \in P : Cardinality(UpTo(P, i)) = k
  <2> DEFINE rank == [i \in P |-> Cardinality(UpTo(P, i))]
  <2>1. rank \in Injection(P, 1 .. Cardinality(P))
    <3>1. rank \in [P -> 1 .. Cardinality(P)]
      BY <1>2
    <3>2. ASSUME NEW i \in P, NEW j \in P, rank[i] = rank[j] PROVE i = j
      <4>1. ~(i < j) /\ ~(j < i)
        BY <1>2, <1>3, <3>2
      <4> QED BY <4>1
    <3> QED BY <3>1, <3>2 DEF Injection, IsInjective
  <2>2. IsFiniteSet(1 .. Cardinality(P)) /\ Cardinality(1 .. Cardinality(P)) = Cardinality(P)
    BY <1>1, FS_Interval
  <2>3. rank \in Surjection(P, 1 .. Cardinality(P))
    BY <2>1, <2>2, FS_Injection
  <2> QED BY <2>3 DEF Surjection
<1> QED BY <1>1, <1>2, <1>3, <1>4

Before(s, n, x, y) == \E i, j \in 1 .. n : i < j /\ x = s[i] /\ y = s[j]

(* Kept loses no element, adds none, and keeps the order. *)
LEMMA KeptElements ==
  ASSUME NEW S, NEW n \in Nat, NEW s \in [1 .. n -> S], NEW P \in SUBSET (1 .. n)
  PROVE  /\ Kept(s, P) \in Seq(S)
         /\ \A i \in P : s[i] \in Range(Kept(s, P))
         /\ \A k, l \in DOMAIN Kept(s, P) :
              k < l => Before(s, n, Kept(s, P)[k], Kept(s, P)[l])
<1> DEFINE nth(k) == CHOOSE i \in P : Cardinality(UpTo(P, i)) = k
<1>1. /\ Cardinality(P) \in Nat /\ P \subseteq Int
      /\ \A i, j \in P : i < j => Cardinality(UpTo(P, i)) < Cardinality(UpTo(P, j))
  <2>1. P \subseteq Int
    OBVIOUS
  <2>2. ASSUME NEW i \in P, NEW j \in P, i < j
        PROVE  Cardinality(UpTo(P, i)) < Cardinality(UpTo(P, j))
    BY <2>2, KeptRanks
  <2>3. Cardinality(P) \in Nat
    BY KeptRanks
  <2> QED BY <2>1, <2>2, <2>3
<1>2. /\ DOMAIN Kept(s, P) = 1 .. Cardinality(P)
      /\ \A k \in 1 .. Cardinality(P) : Kept(s, P)[k] = s[nth(k)]
  BY DEF Kept, UpTo
<1>3. ASSUME NEW k \in 1 .. Cardinality(P)
      PROVE  nth(k) \in P /\ Cardinality(UpTo(P, nth(k))) = k
  <2>1. \E i \in P : Cardinality(UpTo(P, i)) = k
    BY KeptRanks
  <2> QED BY <2>1
<1> HIDE DEF nth
<1>4. Kept(s, P) \in Seq(S)
  <2>1. Kept(s, P) \in [1 .. Cardinality(P) -> S]
    BY <1>2, <1>3 DEF Kept
  <2> QED BY <1>1, <2>1
<1>5. ASSUME NEW i \in P PROVE s[i] \in Range(Kept(s, P))
  <2>1. PICK k \in 1 .. Cardinality(P) : k = Cardinality(UpTo(P, i))
    BY KeptRanks
  <2>2. PICK j \in P : j = nth(k) /\ Cardinality(UpTo(P, j)) = k
    BY <1>3
  <2>3. ~(i < j) /\ ~(j < i)
    BY <1>1, <2>1, <2>2
  <2>4. i = j
    BY <1>1, <2>3
  <2> QED BY <1>2, <2>2, <2>4 DEF Range
<1>6. ASSUME NEW k \in DOMAIN Kept(s, P), NEW l \in DOMAIN Kept(s, P), k < l
      PROVE  Before(s, n, Kept(s, P)[k], Kept(s, P)[l])
  <2>1. PICK i \in P, j \in P : i = nth(k) /\ j = nth(l)
    BY <1>2, <1>3
  <2>2. Cardinality(UpTo(P, i)) = k /\ Cardinality(UpTo(P, j)) = l
    BY <1>2, <1>3, <2>1
  <2>3. ~(j < i) /\ j # i
    <3>1. k \in Nat /\ l \in Nat
      BY <1>1, <1>2
    <3> QED BY <1>1, <1>6, <2>2, <3>1
  <2>4. i < j /\ i \in 1 .. n /\ j \in 1 .. n
    BY <1>1, <2>3
  <2> QED BY <1>2, <2>1, <2>4 DEF Before
<1> QED BY <1>4, <1>5, <1>6

(* A list that is not full has whatever matches each term of the query.    *)
LEMMA SearchFacts ==
  ASSUME NEW t \in Texts, NEW s \in Search(Query[t])
  PROVE  /\ Len(s) \in Nat
         /\ Len(s) < MaxResultsDisplay =>
              \A r \in RunQuery(Query[t]) :
                r.terms = Range(Query[t]) => r \in Range(s)
<1> DEFINE found == RunQuery(Query[t])
           n == Cardinality(found)
<1>1. IsFiniteSet(found) /\ n \in Nat
  BY ResultsFinite, FS_CardinalityType
<1>2. PICK p \in SetToSeqs(found) : s = Displayed(Relevant(p))
  BY DEF Search, RankResults
<1>3. p \in Injection(1 .. n, found)
  BY <1>2 DEF SetToSeqs, Injection, IsInjective
<1>4. p \in Surjection(1 .. n, found)
  <2>1. Cardinality(1 .. n) = n
    BY <1>1, FS_Interval
  <2> QED BY <1>1, <1>3, <2>1, FS_Injection
<1> DEFINE P == {i \in 1 .. n :
                   Cardinality(p[i].terms) + 1 >= Cardinality(p[1].terms)}
<1>5. p \in [1 .. n -> found] /\ Relevant(p) = Kept(p, P)
  BY <1>3 DEF Relevant, Injection
<1>6. /\ Relevant(p) \in Seq(found)
      /\ \A i \in P : p[i] \in Range(Relevant(p))
  <2>1. P \in SUBSET (1 .. n)
    OBVIOUS
  <2> HIDE DEF P, found, n
  <2>2. Kept(p, P) \in Seq(found) /\ \A i \in P : p[i] \in Range(Kept(p, P))
    BY <1>1, <1>5, <2>1, KeptElements
  <2> QED BY <1>5, <2>2
<1>7. Len(s) \in Nat /\ (Len(s) < MaxResultsDisplay => s = Relevant(p))
  BY <1>2, <1>6, DocSearchAssumption DEF Displayed, Take, DocSearchAssumption
<1>8. ASSUME NEW r \in found, r.terms = Range(Query[t])
      PROVE  r \in Range(Relevant(p))
  <2>1. PICK i \in 1 .. n : p[i] = r
    BY <1>4 DEF Surjection
  <2>2. p[1] \in found /\ p[1].terms \subseteq Range(Query[t])
    <3>1. 1 \in 1 .. n
      BY <1>1, <2>1
    <3> QED BY <1>5, <3>1, ResultTerms
  <2>3. IsFiniteSet(Range(Query[t]))
    BY RangeFinite, DocSearchAssumption DEF DocSearchAssumption, Finite
  <2>4. /\ Cardinality(p[1].terms) <= Cardinality(r.terms)
        /\ Cardinality(p[1].terms) \in Nat /\ Cardinality(r.terms) \in Nat
    BY <1>8, <2>2, <2>3, FS_Subset, FS_CardinalityType
  <2>5. i \in P
    BY <2>1, <2>4
  <2> QED BY <1>6, <2>1, <2>5
<1> QED BY <1>7, <1>8

-----------------------------------------------------------------------------
QueueTyped == queue \in Seq(Texts) /\ input \in Texts

(* Every text that may be searched has a list. *)
LEMMA SearchGivesList ==
  ASSUME NEW text \in Texts, Perform(text)
  PROVE  /\ listed' # None /\ listed'.text = text
         /\ Elements(listed') \in Nat
<1>1. PICK results \in Lists[text] :
        listed' = [text |-> text, results |-> results]
  BY DEF Perform
<1>2. results \in Search(Query[text])
  BY DEF Lists
<1> QED BY <1>1, <1>2, SearchFacts, DocSearchAssumption DEF Elements

LEMMA QueueTypedStep == QueueTyped /\ [Next]_vars => QueueTyped'
<1> SUFFICES ASSUME QueueTyped, [Next]_vars PROVE QueueTyped'
  OBVIOUS
<1> USE DEF QueueTyped
<1>1. CASE SearchTimer
  BY <1>1 DEF SearchTimer, SearchFor
<1>2. CASE Load
  BY <1>2 DEF Load
<1>3. CASE Type
  BY <1>3 DEF Type, search
<1>4. CASE OpenTimer \/ KeyUp \/ Enter \/ Escape \/ \E up \in BOOLEAN : Move(up)
  BY <1>4 DEF OpenTimer, KeyUp, Enter, Escape, Move, page, search
<1>5. CASE SidebarEnter \/ ShortEscape \/ ShortHelp \/ ShortSearch \/ HideModal \/ Click
  BY <1>5 DEF SidebarEnter, ShortEscape, ShortHelp, ShortSearch, HideModal, Click, page, search
<1>6. CASE UNCHANGED vars
  BY <1>6 DEF vars, page, search
<1> QED BY <1>1, <1>2, <1>3, <1>4, <1>5, <1>6 DEF Next

-----------------------------------------------------------------------------
(* No busy flag is left behind by a text that is not empty: whenever Enter *)
(* is put off, a timer or the index is still to come (performingSearch of  *)
(* _navigator.js, the three branches of the timer in doc.js).              *)
THEOREM DelayIsFinite == Spec => []DelayEnds
<1>1. Init => QueueTyped /\ DelayEnds
  BY DEF Init, QueueTyped, DelayEnds
<1>2. QueueTyped /\ DelayEnds /\ [Next]_vars => DelayEnds'
  <2> SUFFICES ASSUME QueueTyped, DelayEnds, [Next]_vars PROVE DelayEnds'
    OBVIOUS
  <2> USE DEF QueueTyped, DelayEnds
  <2>1. CASE SearchTimer
    <3>1. CASE input = Empty
      BY <2>1, <3>1 DEF SearchTimer
    <3>2. CASE input # Empty /\ SameText(input)
      BY <2>1, <3>2 DEF SearchTimer
    <3>3. CASE input # Empty /\ ~SameText(input)
      <4>1. SearchFor(input)
        BY <2>1, <3>3 DEF SearchTimer
      <4>2. CASE loaded
        BY <4>1, <4>2 DEF SearchFor, Perform
      <4>3. CASE ~loaded
        BY <4>1, <4>3 DEF SearchFor
      <4> QED BY <4>2, <4>3
    <3> QED BY <3>1, <3>2, <3>3
  <2>2. CASE Load
    <3>1. CASE queue = <<>>
      BY <2>2, <3>1 DEF Load
    <3>2. CASE queue # <<>>
      BY <2>2, <3>2 DEF Load, Perform
    <3> QED BY <3>1, <3>2
  <2>3. CASE Type \/ KeyUp \/ ShortSearch
    BY <2>3 DEF Type, KeyUp, ShortSearch, PerformSearch
  <2>4. CASE OpenTimer \/ Enter \/ Escape \/ \E up \in BOOLEAN : Move(up)
    BY <2>4 DEF OpenTimer, Enter, Escape, Move, page, search, keys
  <2>5. CASE SidebarEnter \/ ShortEscape \/ ShortHelp \/ HideModal \/ Click
    BY <2>5 DEF SidebarEnter, ShortEscape, ShortHelp, HideModal, Click, page, search, keys
  <2>6. CASE UNCHANGED vars
    BY <2>6 DEF vars, page, search, keys
  <2> QED BY <2>1, <2>2, <2>3, <2>4, <2>5, <2>6 DEF Next
<1> QED BY <1>1, <1>2, QueueTypedStep, PTL DEF Spec

(* Before the first timer nothing was searched: this is what is known of   *)
(* the list when the first text is one like false.                         *)
SearchedInv ==
  /\ ShownIsLastSearch
  /\ lastSearchText = None => NothingSearched

(* The list, or what is queued for it, is that of lastSearchText; unless   *)
(* this is a text like false and nothing was searched at all (the timer of *)
(* performSearch in doc.js, and the queue of CrystalDocs.search).          *)
THEOREM ListIsOfLastSearch == Spec => []ShownIsLastSearch
<1>1. Init => QueueTyped /\ SearchedInv
  BY DEF Init, QueueTyped, SearchedInv, ShownIsLastSearch, NothingSearched
<1>2. QueueTyped /\ SearchedInv /\ [Next]_vars => SearchedInv'
  <2> SUFFICES ASSUME QueueTyped, SearchedInv, [Next]_vars PROVE SearchedInv'
    OBVIOUS
  <2> USE DEF QueueTyped, SearchedInv, ShownIsLastSearch, NothingSearched
  <2>1. CASE SearchTimer
    <3>1. CASE input = Empty
      BY <2>1, <3>1, DocSearchAssumption DEF SearchTimer
    <3>2. CASE input # Empty /\ SameText(input)
      <4>1. UNCHANGED <<listed, queue, loaded>> /\ lastSearchText' = input
        BY <2>1, <3>2 DEF SearchTimer, list
      <4>2. CASE lastSearchText = None
        BY <3>2, <4>1, <4>2, DocSearchAssumption DEF SameText
      <4>3. CASE lastSearchText # None
        BY <3>2, <4>1, <4>3 DEF SameText
      <4> QED BY <4>2, <4>3
    <3>3. CASE input # Empty /\ ~SameText(input)
      <4>1. SearchFor(input) /\ lastSearchText' = input /\ loaded' = loaded
        BY <2>1, <3>3 DEF SearchTimer
      <4> input # None
        BY DocSearchAssumption
      <4>2. CASE loaded
        BY <4>1, <4>2, SearchGivesList DEF SearchFor
      <4>3. CASE ~loaded
        <5>1. queue' = Append(queue, input)
          BY <4>1, <4>3 DEF SearchFor
        <5>2. queue' # <<>> /\ Last(queue') = input
          BY <5>1 DEF Last
        <5> QED BY <4>1, <4>3, <5>2
      <4> QED BY <4>2, <4>3
    <3> QED BY <3>1, <3>2, <3>3
  <2>2. CASE Load
    <3>1. ~loaded /\ loaded' /\ lastSearchText' = lastSearchText
      BY <2>2 DEF Load
    <3>2. CASE queue = <<>>
      BY <2>2, <3>1, <3>2 DEF Load, list
    <3>3. CASE queue # <<>>
      <4>1. Last(queue) \in Texts
        BY <3>3 DEF Last
      <4>2. Perform(Last(queue))
        BY <2>2, <3>3 DEF Load, Queued
      <4>3. listed' # None /\ listed'.text = Last(queue)
        BY <4>1, <4>2, SearchGivesList
      <4> QED BY <3>1, <3>3, <4>3
    <3> QED BY <3>2, <3>3
  <2>3. CASE Type \/ KeyUp \/ ShortSearch
    BY <2>3 DEF Type, KeyUp, ShortSearch, list
  <2>4. CASE OpenTimer \/ Enter \/ Escape \/ \E up \in BOOLEAN : Move(up)
    BY <2>4 DEF OpenTimer, Enter, Escape, Move, LeaveSearchScope, search, list
  <2>5. CASE SidebarEnter \/ ShortEscape \/ ShortHelp \/ HideModal \/ Click
    BY <2>5 DEF SidebarEnter, ShortEscape, ShortHelp, HideModal, Click,
       LeaveSearchScope, search, list
  <2>6. CASE UNCHANGED vars
    BY <2>6 DEF vars, search, list
  <2> QED BY <2>1, <2>2, <2>3, <2>4, <2>5, <2>6 DEF Next
<1>3. SearchedInv => ShownIsLastSearch
  BY DEF SearchedInv
<1> QED BY <1>1, <1>2, <1>3, QueueTypedStep, PTL DEF Spec

(* Nothing is listed or highlighted before the index is there, and what is *)
(* highlighted has a place.                                                *)
HighlightInv ==
  /\ ~loaded => listed = None /\ current = None
  /\ Elements(listed) \in Nat
  /\ current # None =>
       /\ current = [at |-> current.at, attached |-> current.attached]
       /\ current.at \in Nat /\ current.attached \in BOOLEAN
  /\ HighlightIsShown

(* A list that comes detaches what was highlighted, and the first element  *)
(* of a list is highlighted if there is one.                               *)
LEMMA DetachedFacts ==
  ASSUME HighlightInv, Detached # None
  PROVE  /\ Detached = [at |-> current.at, attached |-> FALSE]
         /\ current.at \in Nat
BY DEF HighlightInv, Detached

LEMMA HighlightStep ==
  QueueTyped /\ HighlightInv /\ [Next]_vars => HighlightInv'
<1> SUFFICES ASSUME QueueTyped, HighlightInv, [Next]_vars PROVE HighlightInv'
  OBVIOUS
<1>1. ASSUME loaded', NEW text \in Texts, Perform(text),
             current' = HighlightFirst(listed', Detached)
      PROVE  HighlightInv'
  <2>1. listed' # None /\ Elements(listed') \in Nat
    BY <1>1, SearchGivesList
  <2>2. CASE Elements(listed') = 0
    <3>1. current' = Detached
      BY <1>1, <2>2 DEF HighlightFirst
    <3>2. current' # None =>
            current' = [at |-> current.at, attached |-> FALSE]
            /\ current.at \in Nat
      BY <3>1, DetachedFacts
    <3>3. current' # None =>
            /\ current' = [at |-> current'.at, attached |-> current'.attached]
            /\ current'.at \in Nat /\ current'.attached = FALSE
      BY <3>2
    <3> QED BY <1>1, <2>1, <2>2, <3>3 DEF HighlightInv, HighlightIsShown
  <2>3. CASE Elements(listed') # 0
    <3>1. current' = [at |-> 1, attached |-> TRUE]
      BY <1>1, <2>3 DEF HighlightFirst
    <3>2. 1 \in 1 .. Elements(listed')
      BY <2>1, <2>3
    <3> QED BY <1>1, <2>1, <3>1, <3>2 DEF HighlightInv, HighlightIsShown
  <2> QED BY <2>2, <2>3
<1>2. ASSUME loaded' = loaded, UNCHANGED listed,
             current' = HighlightFirst(listed, current)
      PROVE  HighlightInv'
  <2>1. CASE Elements(listed) = 0
    BY <1>2, <2>1 DEF HighlightFirst, HighlightInv, HighlightIsShown, Elements
  <2>2. CASE Elements(listed) # 0
    <3>1. current' = [at |-> 1, attached |-> TRUE] /\ listed # None
      BY <1>2, <2>2 DEF HighlightFirst, Elements
    <3>2. 1 \in 1 .. Elements(listed)
      BY <2>2 DEF HighlightInv
    <3> QED BY <1>2, <3>1, <3>2
            DEF HighlightInv, HighlightIsShown, Elements
  <2> QED BY <2>1, <2>2
<1>3. ASSUME loaded' = loaded, UNCHANGED <<listed, current>> PROVE HighlightInv'
  BY <1>3 DEF HighlightInv, HighlightIsShown, Elements
<1>4. CASE SearchTimer
  <2>1. CASE input = Empty \/ SameText(input)
    BY <1>3, <1>4, <2>1 DEF SearchTimer, list
  <2>2. CASE input # Empty /\ ~SameText(input)
    <3>1. SearchFor(input) /\ loaded' = loaded
      BY <1>4, <2>2 DEF SearchTimer
    <3>2. CASE loaded
      BY <1>1, <3>1, <3>2 DEF SearchFor, QueueTyped
    <3>3. CASE ~loaded
      BY <1>2, <3>1, <3>3 DEF SearchFor, list
    <3> QED BY <3>2, <3>3
  <2> QED BY <2>1, <2>2
<1>5. CASE Load
  <2>1. ~loaded /\ loaded' /\ listed = None /\ current = None
    BY <1>5 DEF Load, HighlightInv
  <2>2. CASE queue = <<>>
    BY <1>5, <2>1, <2>2
       DEF Load, list, HighlightInv, HighlightIsShown, Elements
  <2>3. CASE queue # <<>>
    <3>1. Last(queue) \in Texts
      BY <2>3 DEF Last, QueueTyped
    <3>2. Perform(Last(queue)) /\ current' = None
      BY <1>5, <2>1, <2>3 DEF Load, Queued, Detached
    <3>3. listed' # None /\ Elements(listed') \in Nat
      BY <3>1, <3>2, SearchGivesList
    <3> QED BY <2>1, <3>2, <3>3 DEF HighlightInv, HighlightIsShown
  <2> QED BY <2>2, <2>3
<1>6. ASSUME NEW up \in BOOLEAN, Move(up) PROVE HighlightInv'
  <2>1. CASE current = None
    BY <1>2, <1>6, <2>1 DEF Move, search, list
  <2>2. CASE current # None
    <3> DEFINE next == IF up THEN current.at - 1 ELSE current.at + 1
    <3>1. CASE current.attached /\ next \in 1 .. Elements(listed)
      <4>1. current' = [at |-> next, attached |-> TRUE] /\ next \in Nat
        BY <1>6, <2>2, <3>1 DEF Move, HighlightInv
      <4>2. loaded' = loaded /\ listed' = listed /\ loaded
        BY <1>6, <2>2 DEF Move, search, list, HighlightInv
      <4> QED BY <3>1, <4>1, <4>2
              DEF HighlightInv, HighlightIsShown, Elements
    <3>2. CASE ~(current.attached /\ next \in 1 .. Elements(listed))
      BY <1>3, <1>6, <2>2, <3>2 DEF Move, search, list
    <3> QED BY <3>1, <3>2
  <2> QED BY <2>1, <2>2
<1>7. CASE ShortSearch
  BY <1>2, <1>7 DEF ShortSearch, list
<1>8. CASE Type \/ KeyUp \/ OpenTimer \/ Enter \/ Escape
  BY <1>3, <1>8 DEF Type, KeyUp, OpenTimer, Enter, Escape, LeaveSearchScope,
     search, list
<1>9. CASE SidebarEnter \/ ShortEscape \/ ShortHelp \/ HideModal \/ Click
  BY <1>3, <1>9 DEF SidebarEnter, ShortEscape, ShortHelp, HideModal, Click,
     LeaveSearchScope, search, list
<1>10. CASE UNCHANGED vars
  BY <1>3, <1>10 DEF vars, search, list
<1> QED BY <1>4, <1>5, <1>6, <1>7, <1>8, <1>9, <1>10 DEF Next

(* The element that Enter opens is one of the list that shows; only where  *)
(* nothing was found an element of an earlier list may stay highlighted.   *)
THEOREM HighlightOfList == Spec => []HighlightIsShown
<1>1. Init => QueueTyped /\ HighlightInv
  BY DEF Init, QueueTyped, HighlightInv, HighlightIsShown, Elements
<1>2. HighlightInv => HighlightIsShown
  BY DEF HighlightInv
<1> QED BY <1>1, <1>2, QueueTypedStep, HighlightStep, PTL DEF Spec

-----------------------------------------------------------------------------
(* What is listed is what the search of its text may return. *)
ListedInv ==
  listed # None =>
    listed.text \in Texts /\ listed.results \in Search(Query[listed.text])

LEMMA Listed ==
  ASSUME NEW text \in Texts, Perform(text)
  PROVE  ListedInv'
<1>1. PICK results \in Lists[text] :
        listed' = [text |-> text, results |-> results]
  BY DEF Perform
<1> QED BY <1>1 DEF Lists, ListedInv

LEMMA ListedStep == QueueTyped /\ ListedInv /\ [Next]_vars => ListedInv'
<1> SUFFICES ASSUME QueueTyped, ListedInv, [Next]_vars PROVE ListedInv'
  OBVIOUS
<1>1. CASE SearchTimer
  <2>1. CASE UNCHANGED listed
    BY <2>1 DEF ListedInv
  <2>2. CASE ~UNCHANGED listed
    <3>1. Perform(input)
      BY <1>1, <2>2 DEF SearchTimer, SearchFor, list
    <3> QED BY <3>1, Listed DEF QueueTyped
  <2> QED BY <2>1, <2>2
<1>2. CASE Load
  <2>1. CASE UNCHANGED listed
    BY <2>1 DEF ListedInv
  <2>2. CASE ~UNCHANGED listed
    <3>1. queue # <<>> /\ Perform(Last(queue))
      BY <1>2, <2>2 DEF Load, Queued, list
    <3>2. Last(queue) \in Texts
      BY <3>1 DEF QueueTyped, Last
    <3> QED BY <3>1, <3>2, Listed
  <2> QED BY <2>1, <2>2
<1>3. CASE Type \/ KeyUp \/ ShortSearch
  BY <1>3 DEF Type, KeyUp, ShortSearch, list, ListedInv
<1>4. CASE OpenTimer \/ Enter \/ Escape \/ \E up \in BOOLEAN : Move(up)
  BY <1>4 DEF OpenTimer, Enter, Escape, Move, LeaveSearchScope, list, ListedInv
<1>5. CASE SidebarEnter \/ ShortEscape \/ ShortHelp \/ HideModal \/ Click
  BY <1>5 DEF SidebarEnter, ShortEscape, ShortHelp, HideModal, Click,
     LeaveSearchScope, list, ListedInv
<1>6. CASE UNCHANGED vars
  BY <1>6 DEF vars, list, ListedInv
<1> QED BY <1>1, <1>2, <1>3, <1>4, <1>5, <1>6 DEF Next

(* The filter of rankResults is relative to the first result, but never at *)
(* the cost of an entry that matches each term: it is listed, unless       *)
(* displaySearchResults ran out of places.                                 *)
THEOREM FullMatchesShown == Spec => []AllTermsShown
<1>1. Init => QueueTyped /\ ListedInv
  BY DEF Init, QueueTyped, ListedInv
<1>2. ListedInv => AllTermsShown
  BY SearchFacts DEF ListedInv, AllTermsShown
<1> QED BY <1>1, <1>2, QueueTypedStep, ListedStep, PTL DEF Spec

-----------------------------------------------------------------------------
(* The comparison of rankResults *)

(* First is the least. *)
LEMMA LeastFirst ==
  ASSUME NEW S \in SUBSET Nat, S # {}
  PROVE  First(S) \in S /\ \A j \in S : First(S) <= j
<1> DEFINE R == OpToRel(<, Nat)
<1>1. \A x, y \in Nat : x < y => <<x, y>> \in R
  BY DEF OpToRel
<1>2. IsWellFoundedOn(R, Nat)
  BY NatLessThanWellFounded
<1> HIDE DEF R
<1>3. PICK x \in S : \A y \in S : ~(<<y, x>> \in R)
  BY <1>2, WFMin
<1>4. \A y \in S : x <= y
  <2> SUFFICES ASSUME NEW y \in S PROVE x <= y
    OBVIOUS
  <2>1. x \in Nat /\ y \in Nat /\ ~(y < x)
    BY <1>1, <1>3
  <2> QED BY <2>1
<1> QED BY <1>3, <1>4 DEF First

LEMMA FirstNonZeroFacts ==
  ASSUME NEW n \in Nat, NEW f, DOMAIN f = 1 .. n
  PROVE  \/ FirstNonZero(f) = 0 /\ \A i \in 1 .. n : f[i] = 0
         \/ \E k \in 1 .. n :
              /\ FirstNonZero(f) = f[k] /\ f[k] # 0
              /\ \A i \in 1 .. n : i < k => f[i] = 0
<1> DEFINE S == {i \in DOMAIN f : f[i] # 0}
<1>1. S \in SUBSET Nat
  OBVIOUS
<1>2. FirstNonZero(f) = IF S = {} THEN 0 ELSE f[First(S)]
  BY DEF FirstNonZero
<1>3. CASE S = {}
  BY <1>2, <1>3
<1>4. CASE S # {}
  <2>1. First(S) \in S /\ \A j \in S : First(S) <= j
    BY <1>1, <1>4, LeastFirst
  <2>2. \A i \in 1 .. n : i < First(S) => i \notin S
    <3>1. \A i \in S : ~(i < First(S))
      <4>1. First(S) \in Nat /\ S \subseteq Nat
        BY <1>1, <2>1
      <4> HIDE DEF S
      <4> QED BY <2>1, <4>1
    <3> QED BY <3>1
  <2>3. FirstNonZero(f) = f[First(S)]
    BY <1>2, <1>4
  <2>4. First(S) \in 1 .. n /\ f[First(S)] # 0
    BY <2>1
  <2>5. \A i \in 1 .. n : i < First(S) => f[i] = 0
    BY <2>2
  <2> QED BY <2>3, <2>4, <2>5
<1> QED BY <1>3, <1>4

(* The first difference of two lists of places orders them. *)
Difference(n, x, y) == FirstNonZero([i \in 1 .. n |-> x[i] - y[i]])

LEMMA DifferenceOrders ==
  ASSUME NEW n \in Nat, NEW x \in [1 .. n -> Int], NEW y \in [1 .. n -> Int],
         NEW z \in [1 .. n -> Int]
  PROVE  /\ Difference(n, x, y) \in Int
         /\ Difference(n, y, x) = 0 - Difference(n, x, y)
         /\ Difference(n, x, y) <= 0 /\ Difference(n, y, z) <= 0 =>
              /\ Difference(n, x, z) <= 0
              /\ Difference(n, x, z) = 0 =>
                   Difference(n, x, y) = 0 /\ Difference(n, y, z) = 0
<1>1. ASSUME NEW u \in [1 .. n -> Int], NEW v \in [1 .. n -> Int]
      PROVE  \/ Difference(n, u, v) = 0 /\ \A i \in 1 .. n : u[i] = v[i]
             \/ \E k \in 1 .. n :
                  /\ Difference(n, u, v) = u[k] - v[k] /\ u[k] # v[k]
                  /\ \A i \in 1 .. n : i < k => u[i] = v[i]
  <2> DEFINE f == [i \in 1 .. n |-> u[i] - v[i]]
  <2>1. DOMAIN f = 1 .. n /\ \A i \in 1 .. n : f[i] = u[i] - v[i]
    OBVIOUS
  <2>2. \A i \in 1 .. n : f[i] = 0 <=> u[i] = v[i]
    BY <2>1
  <2> HIDE DEF f
  <2>3. \/ FirstNonZero(f) = 0 /\ \A i \in 1 .. n : f[i] = 0
        \/ \E k \in 1 .. n :
              /\ FirstNonZero(f) = f[k] /\ f[k] # 0
              /\ \A i \in 1 .. n : i < k => f[i] = 0
    BY <2>1, FirstNonZeroFacts
  <2>4. Difference(n, u, v) = FirstNonZero(f)
    BY DEF Difference, f
  <2> QED BY <2>1, <2>2, <2>3, <2>4
<1>2. Difference(n, x, y) \in Int /\ Difference(n, y, x) = 0 - Difference(n, x, y)
  <2>1. CASE \A i \in 1 .. n : x[i] = y[i]
    BY <2>1, <1>1
  <2>2. CASE ~\A i \in 1 .. n : x[i] = y[i]
    <3>1. PICK k \in 1 .. n : /\ Difference(n, x, y) = x[k] - y[k] /\ x[k] # y[k]
                              /\ \A i \in 1 .. n : i < k => x[i] = y[i]
      BY <2>2, <1>1
    <3>2. PICK l \in 1 .. n : /\ Difference(n, y, x) = y[l] - x[l] /\ y[l] # x[l]
                              /\ \A i \in 1 .. n : i < l => y[i] = x[i]
      BY <2>2, <1>1
    <3>3. k = l
      BY <3>1, <3>2
    <3> QED BY <3>1, <3>2, <3>3
  <2> QED BY <2>1, <2>2
<1>3. ASSUME Difference(n, x, y) <= 0, Difference(n, y, z) <= 0
      PROVE  /\ Difference(n, x, z) <= 0
             /\ Difference(n, x, z) = 0 =>
                  Difference(n, x, y) = 0 /\ Difference(n, y, z) = 0
  <2>1. CASE \A i \in 1 .. n : x[i] = y[i]
    <3>1. x = y
      BY <2>1
    <3>2. Difference(n, x, y) = 0
      BY <2>1, <1>1
    <3> QED BY <1>3, <3>1, <3>2
  <2>2. CASE \A i \in 1 .. n : y[i] = z[i]
    <3>1. y = z
      BY <2>2
    <3>2. Difference(n, y, z) = 0
      BY <2>2, <1>1
    <3> QED BY <1>3, <3>1, <3>2
  <2>3. CASE ~(\A i \in 1 .. n : x[i] = y[i]) /\ ~(\A i \in 1 .. n : y[i] = z[i])
    <3>1. PICK k \in 1 .. n : /\ Difference(n, x, y) = x[k] - y[k] /\ x[k] # y[k]
                              /\ \A i \in 1 .. n : i < k => x[i] = y[i]
      BY <2>3, <1>1
    <3>2. PICK l \in 1 .. n : /\ Difference(n, y, z) = y[l] - z[l] /\ y[l] # z[l]
                              /\ \A i \in 1 .. n : i < l => y[i] = z[i]
      BY <2>3, <1>1
    <3>3. x[k] < y[k] /\ y[l] < z[l]
      BY <1>3, <3>1, <3>2
    <3>4. \E m \in 1 .. n : x[m] < z[m] /\ \A i \in 1 .. n : i < m => x[i] = z[i]
      <4>1. CASE k <= l
        <5>1. y[k] <= z[k]
          <6>1. CASE k < l
            BY <3>2, <6>1
          <6>2. CASE k = l
            BY <3>3, <6>2
          <6> QED BY <4>1, <6>1, <6>2
        <5>2. x[k] < z[k]
          BY <3>3, <5>1
        <5>3. \A i \in 1 .. n : i < k => x[i] = z[i]
          BY <3>1, <3>2, <4>1
        <5> QED BY <5>2, <5>3
      <4>2. CASE l < k
        <5>1. x[l] < z[l]
          BY <3>1, <3>3, <4>2
        <5>2. \A i \in 1 .. n : i < l => x[i] = z[i]
          BY <3>1, <3>2, <4>2
        <5> QED BY <5>1, <5>2
      <4> QED BY <4>1, <4>2
    <3>5. PICK m \in 1 .. n : x[m] < z[m] /\ \A i \in 1 .. n : i < m => x[i] = z[i]
      BY <3>4
    <3>6. PICK j \in 1 .. n : /\ Difference(n, x, z) = x[j] - z[j] /\ x[j] # z[j]
                              /\ \A i \in 1 .. n : i < j => x[i] = z[i]
      <4>1. ~\A i \in 1 .. n : x[i] = z[i]
        BY <3>5
      <4> QED BY <4>1, <1>1
    <3>7. j = m
      BY <3>5, <3>6
    <3> QED BY <3>5, <3>6, <3>7
  <2> QED BY <2>1, <2>2, <2>3
<1> QED BY <1>2, <1>3

Sequence(s) == DOMAIN s = 1 .. Len(s) /\ Len(s) \in Nat

LEMMA FiniteFacts ==
  ASSUME NEW s, Finite(s)
  PROVE  Sequence(s)
BY DEF Finite, Sequence

LEMMA PlaceIsNumber ==
  ASSUME NEW words, Sequence(words), NEW word
  PROVE  Place(words, word) \in Int
<1> DEFINE S == {i \in DOMAIN words : words[i] = word}
<1>1. CASE word \in Range(words)
  <2>1. S \in SUBSET Nat /\ S # {}
    BY <1>1 DEF Range, Sequence
  <2> HIDE DEF S
  <2>2. First(S) \in Nat
    BY <2>1, LeastFirst
  <2>3. Place(words, word) = First(S)
    BY <1>1 DEF Place, S
  <2> QED BY <2>2, <2>3
<1>2. CASE word \notin Range(words)
  BY <1>2 DEF Place, Absent
<1> QED BY <1>1, <1>2

LEMMA FieldFacts ==
  ASSUME NEW S, NEW name \in S, NEW terms
  PROVE  Field(name, terms) \in Seq(S)
<1>1. <<>> \in Seq(S) /\ <<name>> \in Seq(S)
  OBVIOUS
<1> QED BY <1>1 DEF Field

LEMMA CopiesFacts ==
  ASSUME NEW S, NEW name \in S, NEW n \in Nat
  PROVE  [k \in 1 .. n |-> name] \in Seq(S)
OBVIOUS

Fields == {"name", "args", "doc", "type"}

LEMMA TypeNumbers ==
  ASSUME NEW query, NEW t \in Types, NEW r, r = TypeResult(t, query)
  PROVE  /\ r.kind = "type" /\ r.entry = t /\ r.title = Words(t.full_name)
         /\ r.entry.alpha \in Int /\ Len(r.fields) \in Nat /\ Sequence(r.title)
<1>1. /\ r.entry = t /\ r.kind = "type" /\ r.title = Words(t.full_name)
  BY DEF TypeResult
<1>2. Sequence(Words(t.full_name)) /\ t.alpha \in Int
  BY IndexAssumption, FiniteFacts DEF IndexAssumption
<1>3. r.fields \in Seq(Fields)
  <2>1. PICK u, v, w : r.fields = Field("name", u) \o Field("name", v) \o Field("doc", w)
    BY Zenon DEF TypeResult
  <2>2. "name" \in Fields /\ "doc" \in Fields
    BY DEF Fields
  <2>3. /\ Field("name", u) \in Seq(Fields) /\ Field("name", v) \in Seq(Fields)
        /\ Field("doc", w) \in Seq(Fields)
    BY <2>2, FieldFacts
  <2> QED BY <2>1, <2>3
<1> QED BY <1>1, <1>2, <1>3

LEMMA MemberNumbers ==
  ASSUME NEW query, NEW m \in Members, NEW r, r = MemberResult(m, query)
  PROVE  /\ r.kind # "type" /\ r.entry = m
         /\ r.entry.alpha \in Int /\ Len(r.fields) \in Nat /\ Sequence(r.title)
<1>1. /\ r.entry = m /\ r.kind = m.kind
      /\ r.title = PrefixForType(m.kind) \o m.name
  BY DEF MemberResult
<1>2. /\ m.name \in Seq(Range(m.name)) /\ m.args \in Seq(Range(m.args))
      /\ m.alpha \in Int /\ m.kind # "type"
  BY IndexAssumption DEF IndexAssumption, Finite
<1>3. Sequence(r.title)
  <2>1. PrefixForType(m.kind) \in Seq({"#", "."})
    <3>1. PrefixForType(m.kind) \in {<<"#">>, <<".">>, <<>>}
      BY Zenon DEF PrefixForType
    <3>2. <<"#">> \in Seq({"#", "."}) /\ <<".">> \in Seq({"#", "."})
          /\ <<>> \in Seq({"#", "."})
      OBVIOUS
    <3> QED BY <3>1, <3>2
  <2> DEFINE S == {"#", "."} \cup Range(m.name)
  <2>2. PrefixForType(m.kind) \in Seq(S) /\ m.name \in Seq(S)
    BY <1>2, <2>1
  <2> HIDE DEF S
  <2>3. r.title \in Seq(S)
    BY <1>1, <2>2
  <2> QED BY <2>3 DEF Sequence
<1>4. r.fields \in Seq(Fields)
  <2> DEFINE terms == Range(query)
             args == {i \in DOMAIN m.args :
                        {x \in terms : Matches({m.args[i]}, x)} # {}}
  <2>1. Cardinality(args) \in Nat
    <3>1. args \in SUBSET (1 .. Len(m.args)) /\ Len(m.args) \in Nat
      BY <1>2
    <3>2. IsFiniteSet(1 .. Len(m.args))
      BY <3>1, FS_Interval
    <3> QED BY <3>1, <3>2, FS_Subset, FS_CardinalityType
  <2>2. \E u, v, w : r.fields = Field("name", u) \o [k \in 1 .. Cardinality(args) |-> "args"]
                                  \o Field("doc", v) \o Field("type", w)
    BY Zenon DEF MemberResult
  <2>3. PICK n \in Nat : n = Cardinality(args)
    BY <2>1
  <2> HIDE DEF args
  <2>4. PICK u, v, w : r.fields = Field("name", u) \o [k \in 1 .. n |-> "args"]
                                    \o Field("doc", v) \o Field("type", w)
    BY <2>2, <2>3
  <2>5. "name" \in Fields /\ "args" \in Fields /\ "doc" \in Fields /\ "type" \in Fields
    BY DEF Fields
  <2>6. /\ Field("name", u) \in Seq(Fields) /\ [k \in 1 .. n |-> "args"] \in Seq(Fields)
        /\ Field("doc", v) \in Seq(Fields) /\ Field("type", w) \in Seq(Fields)
    BY <2>5, FieldFacts, CopiesFacts
  <2> QED BY <2>4, <2>6
<1> QED BY <1>1, <1>2, <1>3, <1>4

LEMMA ResultNumbers ==
  ASSUME NEW query, Finite(query), NEW r \in RunQuery(query)
  PROVE  /\ r.entry.alpha \in Int /\ Len(r.fields) \in Nat
         /\ Cardinality(r.terms) \in Nat
         /\ \A term : PlaceInTitle(r, term) \in Int
<1>1. \/ \E t \in Types : r = TypeResult(t, query)
      \/ \E m \in Members : r = MemberResult(m, query)
  BY DEF RunQuery
<1>2. r.entry.alpha \in Int /\ Len(r.fields) \in Nat /\ Sequence(r.title)
  BY <1>1, TypeNumbers, MemberNumbers
<1>3. Cardinality(r.terms) \in Nat
  <2>1. r.terms \in SUBSET Range(query) /\ IsFiniteSet(Range(query))
    BY ResultTerms, RangeFinite DEF Finite
  <2> QED BY <2>1, FS_Subset, FS_CardinalityType
<1>4. ASSUME NEW term PROVE PlaceInTitle(r, term) \in Int
  <2> DEFINE joints == IF r.kind = "type" THEN Joints(r.entry.full_name, term) ELSE {}
  <2>1. Place(r.title, term.word) \in Int
    BY <1>2, PlaceIsNumber
  <2>2. ASSUME joints # {}
        PROVE  Len(Words(SubSeq(r.entry.full_name, 1, First(joints)))) \in Int
    <3>1. PICK t \in Types : r = TypeResult(t, query)
      BY <1>1, <2>2, MemberNumbers
    <3>2. r.entry = t /\ Sequence(t.full_name)
      BY <3>1, TypeNumbers, IndexAssumption, FiniteFacts DEF IndexAssumption
    <3>3. joints \in SUBSET DOMAIN t.full_name /\ joints \in SUBSET Nat
      BY <3>2 DEF Joints, Sequence
    <3> HIDE DEF joints
    <3>4. First(joints) \in DOMAIN t.full_name
      BY <2>2, <3>3, LeastFirst
    <3>5. Finite(Words(SubSeq(t.full_name, 1, First(joints))))
      BY <3>4, IndexAssumption DEF IndexAssumption
    <3> QED BY <3>2, <3>5, FiniteFacts DEF Sequence
  <2>3. PlaceInTitle(r, term) \in
          {Absent, 1, Place(r.title, term.word)}
            \cup (IF joints # {} THEN {Len(Words(SubSeq(r.entry.full_name, 1, First(joints))))} ELSE {})
    BY DEF PlaceInTitle
  <2> QED BY <2>1, <2>2, <2>3 DEF Absent
<1> QED BY <1>2, <1>3, <1>4

(* The criteria for two of which both or neither match by name. *)
Else(x, y) == IF x # 0 THEN x ELSE y

Rest(a, b, query) ==
  Else(IF Has(a, "name") THEN ByTitle(a, b, query) ELSE 0,
       Else(Cardinality(b.terms) - Cardinality(a.terms),
            Else(Len(b.fields) - Len(a.fields), a.entry.alpha - b.entry.alpha)))

(* All criteria but the last, which is about arguments. *)
Rough(a, b, query) ==
  IF a.kind = "type" /\ b.kind # "type" THEN -1
  ELSE IF a.kind # "type" /\ b.kind = "type" THEN 1
  ELSE IF Has(a, "name") /\ ~Has(b, "name") THEN -1
  ELSE IF ~Has(a, "name") /\ Has(b, "name") THEN 1
  ELSE Rest(a, b, query)

LEMMA FiveCriteria ==
  ASSUME NEW s, DOMAIN s = 1 .. 5
  PROVE  FirstNonZero(s) =
           IF s[1] # 0 THEN s[1] ELSE IF s[2] # 0 THEN s[2]
           ELSE IF s[3] # 0 THEN s[3] ELSE IF s[4] # 0 THEN s[4] ELSE s[5]
<1>1. \/ FirstNonZero(s) = 0 /\ \A i \in 1 .. 5 : s[i] = 0
      \/ \E k \in 1 .. 5 : /\ FirstNonZero(s) = s[k] /\ s[k] # 0
                           /\ \A i \in 1 .. 5 : i < k => s[i] = 0
  BY FirstNonZeroFacts
<1> QED BY <1>1

(* Where nothing is contested the last criterion comes last. *)
LEMMA CompareRough ==
  ASSUME NEW query, Finite(query), ~Contested(RunQuery(query)),
         NEW a \in RunQuery(query), NEW b \in RunQuery(query)
  PROVE  Compare(a, b, query) =
           IF Rough(a, b, query) # 0 THEN Rough(a, b, query)
           ELSE IF Has(a, "args") /\ Has(b, "args") THEN ByArgs(a, b, query)
           ELSE 0
<1> DEFINE hasDocs == Has(b, "doc")
           names == {r \in {a, b} : Has(r, "name")}
           title == IF names = {} THEN 0 ELSE ByTitle(a, b, query)
           terms == Cardinality(b.terms) - Cardinality(a.terms)
           fields == Len(b.fields) - Len(a.fields)
           alpha == a.entry.alpha - b.entry.alpha
           args == IF Has(a, "args") /\ Has(b, "args") THEN ByArgs(a, b, query) ELSE 0
           s == <<title, terms, fields, alpha, args>>
<1>1. Compare(a, b, query) =
        IF a.kind = "type" /\ b.kind # "type" /\ ~(hasDocs /\ Len(a.fields) = 1) THEN -1
        ELSE IF b.kind = "type" /\ a.kind # "type" /\ ~(hasDocs /\ Len(b.fields) = 1) THEN 1
        ELSE IF names # {} /\ names # {a, b} THEN IF a \in names THEN -1 ELSE 1
        ELSE FirstNonZero(s)
  BY Zenon DEF Compare
<1>2. a.kind = "type" /\ b.kind # "type" => ~(hasDocs /\ Len(a.fields) = 1)
  BY DEF Contested
<1>3. b.kind = "type" /\ a.kind # "type" => ~(hasDocs /\ Len(b.fields) = 1)
  BY DEF Contested
<1>4. /\ names = {} <=> ~Has(a, "name") /\ ~Has(b, "name")
      /\ names = {a, b} <=> Has(a, "name") /\ Has(b, "name")
      /\ a \in names <=> Has(a, "name")
  OBVIOUS
<1>5. FirstNonZero(s) =
        IF title # 0 THEN title ELSE IF terms # 0 THEN terms
        ELSE IF fields # 0 THEN fields ELSE IF alpha # 0 THEN alpha ELSE args
  <2>1. /\ DOMAIN s = 1 .. 5 /\ s[1] = title /\ s[2] = terms /\ s[3] = fields
        /\ s[4] = alpha /\ s[5] = args
    OBVIOUS
  <2> HIDE DEF s, title, terms, fields, alpha, args
  <2> QED BY <2>1, FiveCriteria
<1>6. /\ Cardinality(a.terms) \in Nat /\ Cardinality(b.terms) \in Nat
      /\ Len(a.fields) \in Nat /\ Len(b.fields) \in Nat
      /\ a.entry.alpha \in Int /\ b.entry.alpha \in Int
  BY ResultNumbers
<1>8. CASE a.kind = "type" /\ b.kind # "type"
  <2>1. Compare(a, b, query) = -1
    BY <1>1, <1>2, <1>8
  <2> QED BY <1>8, <2>1 DEF Rough
<1>9. CASE a.kind # "type" /\ b.kind = "type"
  <2>1. Compare(a, b, query) = 1
    BY <1>1, <1>3, <1>9
  <2> QED BY <1>9, <2>1 DEF Rough
<1>10. CASE ~(a.kind = "type" /\ b.kind # "type") /\ ~(a.kind # "type" /\ b.kind = "type")
  <2>1. Compare(a, b, query) =
          IF Has(a, "name") /\ ~Has(b, "name") THEN -1
          ELSE IF ~Has(a, "name") /\ Has(b, "name") THEN 1 ELSE FirstNonZero(s)
    <3> HIDE DEF s, names
    <3> QED BY <1>1, <1>4, <1>10
  <2>2. Rough(a, b, query) =
          IF Has(a, "name") /\ ~Has(b, "name") THEN -1
          ELSE IF ~Has(a, "name") /\ Has(b, "name") THEN 1
          ELSE IF title # 0 THEN title ELSE IF terms # 0 THEN terms
          ELSE IF fields # 0 THEN fields ELSE alpha
    <3>1. CASE Has(a, "name") <=> Has(b, "name")
      <4>1. title = IF Has(a, "name") THEN ByTitle(a, b, query) ELSE 0
        BY <1>4, <3>1
      <4>2. Rest(a, b, query) = Else(title, Else(terms, Else(fields, alpha)))
        BY <4>1 DEF Rest
      <4> HIDE DEF title, terms, fields, alpha
      <4> QED BY <1>10, <3>1, <4>2 DEF Rough, Else
    <3>3. CASE Has(a, "name") /\ ~Has(b, "name")
      BY <1>10, <3>3 DEF Rough
    <3>4. CASE ~Has(a, "name") /\ Has(b, "name")
      BY <1>10, <3>4 DEF Rough
    <3> QED BY <3>1, <3>3, <3>4
  <2> HIDE DEF s, title, terms, fields, alpha
  <2> QED BY <1>5, <2>1, <2>2
<1> QED BY <1>8, <1>9, <1>10

LEMMA TitleOrders ==
  ASSUME NEW query, Finite(query), NEW a \in RunQuery(query),
         NEW b \in RunQuery(query), NEW c \in RunQuery(query)
  PROVE  /\ ByTitle(a, b, query) \in Int
         /\ ByTitle(b, a, query) = 0 - ByTitle(a, b, query)
         /\ ByTitle(a, b, query) <= 0 /\ ByTitle(b, c, query) <= 0 =>
              /\ ByTitle(a, c, query) <= 0
              /\ ByTitle(a, c, query) = 0 =>
                   ByTitle(a, b, query) = 0 /\ ByTitle(b, c, query) = 0
<1> DEFINE place(r) == [i \in DOMAIN query |-> PlaceInTitle(r, query[i])]
<1>1. PICK n \in Nat : n = Len(query) /\ DOMAIN query = 1 .. n
  BY FiniteFacts DEF Sequence
<1>2. ASSUME NEW r \in RunQuery(query) PROVE place(r) \in [1 .. n -> Int]
  BY <1>1, ResultNumbers
<1>3. ASSUME NEW r, NEW o
      PROVE  ByTitle(r, o, query) = Difference(n, place(r), place(o))
  <2>1. [i \in DOMAIN query |-> PlaceInTitle(r, query[i]) - PlaceInTitle(o, query[i])]
          = [i \in 1 .. n |-> place(r)[i] - place(o)[i]]
    BY <1>1
  <2> QED BY <2>1 DEF ByTitle, Difference
<1> HIDE DEF place
<1>4. PICK x \in [1 .. n -> Int], y \in [1 .. n -> Int], z \in [1 .. n -> Int] :
        x = place(a) /\ y = place(b) /\ z = place(c)
  BY <1>2
<1>5. /\ ByTitle(a, b, query) = Difference(n, x, y)
      /\ ByTitle(b, a, query) = Difference(n, y, x)
      /\ ByTitle(b, c, query) = Difference(n, y, z)
      /\ ByTitle(a, c, query) = Difference(n, x, z)
  BY <1>3, <1>4
<1>6. Difference(n, x, y) \in Int
  BY DifferenceOrders
<1>7. Difference(n, y, x) = 0 - Difference(n, x, y)
  BY DifferenceOrders
<1>8. ASSUME Difference(n, x, y) <= 0, Difference(n, y, z) <= 0
      PROVE  /\ Difference(n, x, z) <= 0
             /\ Difference(n, x, z) = 0 =>
                  Difference(n, x, y) = 0 /\ Difference(n, y, z) = 0
  BY <1>8, DifferenceOrders
<1> QED BY <1>5, <1>6, <1>7, <1>8

(* A criterion that orders, given where a stands to b, b to c and a to c.  *)
Orders(ab, bc, ac) ==
  /\ ab \in Int /\ bc \in Int /\ ac \in Int
  /\ ab <= 0 /\ bc <= 0 => ac <= 0 /\ (ac = 0 => ab = 0 /\ bc = 0)

LEMMA ElseOrders ==
  ASSUME NEW ab, NEW bc, NEW ac, Orders(ab, bc, ac),
         NEW dab, NEW dbc, NEW dac, Orders(dab, dbc, dac)
  PROVE  Orders(Else(ab, dab), Else(bc, dbc), Else(ac, dac))
BY DEF Orders, Else

LEMMA ElseNegates ==
  ASSUME NEW ab \in Int, NEW ba \in Int, ba = 0 - ab,
         NEW dab \in Int, NEW dba \in Int, dba = 0 - dab
  PROVE  /\ Else(ab, dab) \in Int /\ Else(ba, dba) \in Int
         /\ Else(ba, dba) = 0 - Else(ab, dab)
BY DEF Else

LEMMA NumberOrders ==
  ASSUME NEW a \in Int, NEW b \in Int, NEW c \in Int
  PROVE  /\ Orders(a - b, b - c, a - c) /\ Orders(b - a, c - b, c - a)
         /\ a - b \in Int /\ b - a \in Int /\ b - a = 0 - (a - b)
BY DEF Orders

LEMMA RestOrders ==
  ASSUME NEW query, Finite(query), NEW a \in RunQuery(query),
         NEW b \in RunQuery(query), NEW c \in RunQuery(query),
         Has(a, "name") <=> Has(b, "name"), Has(b, "name") <=> Has(c, "name")
  PROVE  /\ Rest(b, a, query) = 0 - Rest(a, b, query)
         /\ Orders(Rest(a, b, query), Rest(b, c, query), Rest(a, c, query))
<1> DEFINE title(r, o) == IF Has(r, "name") THEN ByTitle(r, o, query) ELSE 0
           terms(r, o) == Cardinality(o.terms) - Cardinality(r.terms)
           fields(r, o) == Len(o.fields) - Len(r.fields)
           alpha(r, o) == r.entry.alpha - o.entry.alpha
<1>1. /\ title(a, b) \in Int /\ title(b, a) \in Int /\ title(b, a) = 0 - title(a, b)
      /\ Orders(title(a, b), title(b, c), title(a, c))
  <2>1. /\ ByTitle(a, b, query) \in Int /\ ByTitle(b, c, query) \in Int
        /\ ByTitle(a, c, query) \in Int
        /\ ByTitle(b, a, query) = 0 - ByTitle(a, b, query)
    BY TitleOrders
  <2>2. Orders(ByTitle(a, b, query), ByTitle(b, c, query), ByTitle(a, c, query))
    BY <2>1, TitleOrders DEF Orders
  <2>3. Orders(0, 0, 0)
    BY DEF Orders
  <2> QED BY <2>1, <2>2, <2>3
<1>2. /\ terms(a, b) \in Int /\ terms(b, a) \in Int
      /\ terms(b, a) = 0 - terms(a, b)
      /\ Orders(terms(a, b), terms(b, c), terms(a, c))
  <2>1. PICK u \in Int, v \in Int, w \in Int :
          u = Cardinality(a.terms) /\ v = Cardinality(b.terms) /\ w = Cardinality(c.terms)
    BY ResultNumbers
  <2> QED BY <2>1, NumberOrders
<1>3. /\ fields(a, b) \in Int /\ fields(b, a) \in Int
      /\ fields(b, a) = 0 - fields(a, b)
      /\ Orders(fields(a, b), fields(b, c), fields(a, c))
  <2>1. PICK u \in Int, v \in Int, w \in Int :
          u = Len(a.fields) /\ v = Len(b.fields) /\ w = Len(c.fields)
    BY ResultNumbers
  <2> QED BY <2>1, NumberOrders
<1>4. /\ alpha(a, b) \in Int /\ alpha(b, a) \in Int
      /\ alpha(b, a) = 0 - alpha(a, b)
      /\ Orders(alpha(a, b), alpha(b, c), alpha(a, c))
  <2>1. PICK u \in Int, v \in Int, w \in Int :
          u = a.entry.alpha /\ v = b.entry.alpha /\ w = c.entry.alpha
    BY ResultNumbers
  <2> QED BY <2>1, NumberOrders
<1>5. \A r, o : Rest(r, o, query) =
        Else(title(r, o), Else(terms(r, o), Else(fields(r, o), alpha(r, o))))
  BY DEF Rest
<1> HIDE DEF title, terms, fields, alpha
<1>6. Rest(b, a, query) = 0 - Rest(a, b, query)
  <2>1. /\ Else(fields(a, b), alpha(a, b)) \in Int
        /\ Else(fields(b, a), alpha(b, a)) \in Int
        /\ Else(fields(b, a), alpha(b, a)) = 0 - Else(fields(a, b), alpha(a, b))
    BY <1>3, <1>4, ElseNegates
  <2>2. /\ Else(terms(a, b), Else(fields(a, b), alpha(a, b))) \in Int
        /\ Else(terms(b, a), Else(fields(b, a), alpha(b, a))) \in Int
        /\ Else(terms(b, a), Else(fields(b, a), alpha(b, a)))
             = 0 - Else(terms(a, b), Else(fields(a, b), alpha(a, b)))
    BY <1>2, <2>1, ElseNegates
  <2> QED BY <1>1, <1>5, <2>2, ElseNegates
<1>7. Orders(Rest(a, b, query), Rest(b, c, query), Rest(a, c, query))
  <2>1. Orders(Else(fields(a, b), alpha(a, b)), Else(fields(b, c), alpha(b, c)),
               Else(fields(a, c), alpha(a, c)))
    BY <1>3, <1>4, ElseOrders DEF Orders
  <2>2. Orders(Else(terms(a, b), Else(fields(a, b), alpha(a, b))),
               Else(terms(b, c), Else(fields(b, c), alpha(b, c))),
               Else(terms(a, c), Else(fields(a, c), alpha(a, c))))
    BY <1>2, <2>1, ElseOrders DEF Orders
  <2> QED BY <1>1, <1>5, <2>2, ElseOrders DEF Orders
<1> QED BY <1>6, <1>7

(* Two results that only the last criterion tells apart have one name. *)
LEMMA RoughAlpha ==
  ASSUME NEW query, Finite(query), NEW a \in RunQuery(query),
         NEW b \in RunQuery(query), Rough(a, b, query) = 0
  PROVE  a.entry.alpha = b.entry.alpha
<1>1. PICK u \in Int, v \in Int : u = a.entry.alpha /\ v = b.entry.alpha
  BY ResultNumbers
<1>2. Rest(a, b, query) = 0
  BY DEF Rough
<1>3. u - v = 0
  BY <1>1, <1>2 DEF Rest, Else
<1> QED BY <1>1, <1>3

LEMMA RoughOrders ==
  ASSUME NEW query, Finite(query), NEW a \in RunQuery(query),
         NEW b \in RunQuery(query), NEW c \in RunQuery(query)
  PROVE  /\ Rough(a, b, query) \in Int
         /\ Rough(b, a, query) = 0 - Rough(a, b, query)
         /\ Rough(a, b, query) <= 0 /\ Rough(b, c, query) <= 0 =>
              Rough(a, c, query) <= 0
<1>1. ASSUME NEW r \in RunQuery(query), NEW o \in RunQuery(query)
      PROVE  /\ Rough(r, o, query) \in Int
             /\ Rough(o, r, query) = 0 - Rough(r, o, query)
  <2>1. CASE Has(r, "name") <=> Has(o, "name")
    <3>1. /\ Rest(r, o, query) \in Int
          /\ Rest(o, r, query) = 0 - Rest(r, o, query)
      BY <2>1, RestOrders DEF Orders
    <3> QED BY <2>1, <3>1 DEF Rough
  <2>2. CASE ~(Has(r, "name") <=> Has(o, "name"))
    BY <2>2 DEF Rough
  <2> QED BY <2>1, <2>2
<1>2. ASSUME Rough(a, b, query) <= 0, Rough(b, c, query) <= 0
      PROVE  Rough(a, c, query) <= 0
  <2>1. ~(a.kind # "type" /\ b.kind = "type") /\ ~(b.kind # "type" /\ c.kind = "type")
    BY <1>2 DEF Rough
  <2>2. CASE a.kind = "type" /\ c.kind # "type"
    BY <2>2 DEF Rough
  <2>3. CASE (a.kind = "type" <=> b.kind = "type") /\ (b.kind = "type" <=> c.kind = "type")
    <3>1. /\ ~(~Has(a, "name") /\ Has(b, "name"))
          /\ ~(~Has(b, "name") /\ Has(c, "name"))
      BY <1>2, <2>3 DEF Rough
    <3>2. CASE Has(a, "name") /\ ~Has(c, "name")
      BY <2>3, <3>2 DEF Rough
    <3>3. CASE (Has(a, "name") <=> Has(b, "name")) /\ (Has(b, "name") <=> Has(c, "name"))
      <4>1. /\ Rough(a, b, query) = Rest(a, b, query)
            /\ Rough(b, c, query) = Rest(b, c, query)
            /\ Rough(a, c, query) = Rest(a, c, query)
        BY <2>3, <3>3 DEF Rough
      <4>2. Orders(Rest(a, b, query), Rest(b, c, query), Rest(a, c, query))
        BY <3>3, RestOrders
      <4> QED BY <1>2, <4>1, <4>2 DEF Orders
    <3> QED BY <3>1, <3>2, <3>3
  <2> QED BY <2>1, <2>2, <2>3
<1> QED BY <1>1, <1>2

-----------------------------------------------------------------------------
(* What sort returns is in order throughout, not only next to each other.  *)
LEMMA SortedThroughout ==
  ASSUME NEW query, Finite(query), ~Contested(RunQuery(query)),
         NEW n \in Nat, NEW p \in [1 .. n -> RunQuery(query)], Len(p) = n,
         InOrder(p, query), NEW i \in 1 .. n, NEW j \in 1 .. n, i < j
  PROVE  Rough(p[i], p[j], query) <= 0
<1> DEFINE Late == {k \in 1 .. n : i < k /\ ~(Rough(p[i], p[k], query) <= 0)}
<1>1. ASSUME NEW k \in 1 .. n, k + 1 \in 1 .. n
      PROVE  Rough(p[k], p[k + 1], query) <= 0
  <2>1. PICK a \in RunQuery(query), b \in RunQuery(query) : a = p[k] /\ b = p[k + 1]
    BY <1>1
  <2>2. Compare(a, b, query) < 0 \/ Compare(b, a, query) >= 0
    <3>1. k \in 1 .. Len(p) - 1
      BY <1>1
    <3> QED BY <2>1, <3>1 DEF InOrder
  <2>3. /\ Rough(a, b, query) \in Int
        /\ Rough(b, a, query) = 0 - Rough(a, b, query)
    BY RoughOrders
  <2>4. /\ Rough(a, b, query) # 0 => Compare(a, b, query) = Rough(a, b, query)
        /\ Rough(b, a, query) # 0 => Compare(b, a, query) = Rough(b, a, query)
    BY CompareRough
  <2> QED BY <2>1, <2>2, <2>3, <2>4
<1>2. Late = {}
  <2> SUFFICES ASSUME Late # {} PROVE FALSE
    OBVIOUS
  <2>1. Late \in SUBSET Nat
    OBVIOUS
  <2>2. PICK k : k = First(Late)
    OBVIOUS
  <2>3. k \in Late /\ \A l \in Late : k <= l
    BY <2>1, <2>2, LeastFirst
  <2>4. k \in 1 .. n /\ i < k /\ ~(Rough(p[i], p[k], query) <= 0)
    BY <2>3
  <2>5. k - 1 \in 1 .. n /\ k - 1 + 1 = k
    BY <2>4
  <2>6. Rough(p[k - 1], p[k], query) <= 0
    BY <1>1, <2>4, <2>5
  <2>7. k - 1 # i
    BY <2>4, <2>6
  <2>8. Rough(p[i], p[k - 1], query) <= 0
    <3>1. k - 1 \notin Late
      BY <2>3, <2>4, <2>1
    <3>2. i < k - 1
      BY <2>4, <2>7
    <3> QED BY <2>5, <3>1, <3>2
  <2>9. PICK a \in RunQuery(query), b \in RunQuery(query), c \in RunQuery(query) :
          a = p[i] /\ b = p[k - 1] /\ c = p[k]
    BY <2>4, <2>5
  <2>10. Rough(a, c, query) <= 0
    BY <2>6, <2>8, <2>9, RoughOrders
  <2> QED BY <2>4, <2>9, <2>10
<1> QED BY <1>2

LEMMA ListInOrder ==
  ASSUME NEW t \in Texts, NEW s \in Search(Query[t]),
         ~Contested(RunQuery(Query[t])),
         NEW k \in DOMAIN s, NEW l \in DOMAIN s, k < l
  PROVE  /\ s[k] \in RunQuery(Query[t]) /\ s[l] \in RunQuery(Query[t])
         /\ Rough(s[k], s[l], Query[t]) <= 0
<1> DEFINE found == RunQuery(Query[t])
           n == Cardinality(found)
<1>1. IsFiniteSet(found) /\ n \in Nat
  BY ResultsFinite, FS_CardinalityType
<1>2. PICK p \in SetToSeqs(found) :
        InOrder(p, Query[t]) /\ s = Displayed(Relevant(p))
  BY DEF Search, RankResults
<1>3. p \in [1 .. n -> found]
  BY <1>2 DEF SetToSeqs
<1>4. Len(p) = n
  BY <1>1, <1>3
<1> DEFINE P == {i \in 1 .. n :
                   Cardinality(p[i].terms) + 1 >= Cardinality(p[1].terms)}
<1>5. Relevant(p) = Kept(p, P) /\ P \in SUBSET (1 .. n)
  BY <1>3 DEF Relevant
<1> HIDE DEF P, found, n
<1>6. Kept(p, P) \in Seq(found)
  BY <1>1, <1>3, <1>5, KeptElements
<1>7. /\ k \in DOMAIN Kept(p, P) /\ l \in DOMAIN Kept(p, P)
      /\ s[k] = Kept(p, P)[k] /\ s[l] = Kept(p, P)[l]
  BY <1>2, <1>5, <1>6, DocSearchAssumption DEF Displayed, Take, DocSearchAssumption
<1>8. PICK i \in 1 .. n, j \in 1 .. n :
        i < j /\ s[k] = p[i] /\ s[l] = p[j]
  <2>1. Before(p, n, Kept(p, P)[k], Kept(p, P)[l])
    BY <1>1, <1>3, <1>5, <1>7, KeptElements
  <2> QED BY <1>7, <2>1 DEF Before
<1>9. Finite(Query[t])
  BY DocSearchAssumption DEF DocSearchAssumption
<1>10. Rough(p[i], p[j], Query[t]) <= 0
  BY <1>1, <1>2, <1>3, <1>4, <1>8, <1>9, SortedThroughout DEF found
<1> QED BY <1>3, <1>8, <1>10 DEF found

LEMMA ListCompares ==
  ASSUME NEW t \in Texts, NEW s \in Search(Query[t]),
         ~Contested(RunQuery(Query[t])),
         NEW i \in DOMAIN s, NEW j \in DOMAIN s, i < j,
         Has(s[i], "args") /\ Has(s[j], "args") => s[i].entry.alpha # s[j].entry.alpha
  PROVE  Compare(s[i], s[j], Query[t]) <= 0 /\ Compare(s[j], s[i], Query[t]) >= 0
<1>1. PICK a \in RunQuery(Query[t]), b \in RunQuery(Query[t]) : a = s[i] /\ b = s[j]
  BY ListInOrder
<1>2. Rough(a, b, Query[t]) <= 0
  BY <1>1, ListInOrder
<1>3. Finite(Query[t])
  BY DocSearchAssumption DEF DocSearchAssumption
<1>4. /\ Rough(a, b, Query[t]) \in Int
      /\ Rough(b, a, Query[t]) = 0 - Rough(a, b, Query[t])
  BY <1>3, RoughOrders
<1>5. /\ Compare(a, b, Query[t]) =
           IF Rough(a, b, Query[t]) # 0 THEN Rough(a, b, Query[t])
           ELSE IF Has(a, "args") /\ Has(b, "args") THEN ByArgs(a, b, Query[t]) ELSE 0
      /\ Compare(b, a, Query[t]) =
           IF Rough(b, a, Query[t]) # 0 THEN Rough(b, a, Query[t])
           ELSE IF Has(b, "args") /\ Has(a, "args") THEN ByArgs(b, a, Query[t]) ELSE 0
  BY <1>3, CompareRough
<1>6. ASSUME Rough(a, b, Query[t]) = 0
      PROVE  ~(Has(a, "args") /\ Has(b, "args"))
  <2>1. a.entry.alpha = b.entry.alpha
    BY <1>3, <1>6, RoughAlpha
  <2> QED BY <1>1, <2>1
<1>7. Compare(a, b, Query[t]) <= 0 /\ Compare(b, a, Query[t]) >= 0
  BY <1>2, <1>4, <1>5, <1>6
<1> QED BY <1>1, <1>7

(* Where no type contests with a member, the engine has no choice but      *)
(* among overloads found by their arguments: whichever sort it uses, of    *)
(* any two results the comparison of rankResults has the first one first.  *)
THEOREM OrderIsOne == Spec => []OneOrder
<1>1. Init => QueueTyped /\ ListedInv
  BY DEF Init, QueueTyped, ListedInv
<1>2. ListedInv => OneOrder
  BY ListCompares DEF ListedInv, OneOrder
<1> QED BY <1>1, <1>2, QueueTypedStep, ListedStep, PTL DEF Spec
=============================================================================
