----------------------------- MODULE DocSearch -----------------------------
(***************************************************************************)
(* The search box of a page of the API docs: doc.js, the keyboard control  *)
(* of _navigator.js, the index and the result list of _search.js and the   *)
(* usage modal.  A step is one event that the browser delivers.            *)
(***************************************************************************)
EXTENDS DocQuery

CONSTANTS
  Texts,      \* what may be typed
  Empty,      \* the empty string
  LikeFalse,  \* texts that == takes for false: "0", blanks
  Query,      \* Query[text]: its terms
  MaxTyped,   \* bound: changes of the text
  MaxEnters   \* bound: Enters that wait for a search

ASSUME DocSearchAssumption ==
  /\ Empty \in Texts /\ None \notin Texts /\ LikeFalse \subseteq Texts
  /\ DOMAIN Query = Texts /\ Query[Empty] = <<>>
  /\ \A t \in Texts : Finite(Query[t])
  /\ \A t \in Texts : \A r \in Search(Query[t]) :
       None # [text |-> t, results |-> r]
  /\ MaxTyped \in Nat /\ MaxEnters \in Nat /\ MaxResultsDisplay \in Nat \ {0}

VARIABLES
  loaded,      \* is there a searchIndex?
  hash,        \* was the page opened with #q=...?
  typed,       \* number of changes of the text, bounded
  input,       \* value of searchInput
  focus,       \* "input", "sidebar" or "body"
  modal,       \* does the usage modal show?
  timer,       \* is searchTimeout pending?
  lastSearchText,  \* None for false, which it is at first
  queue,       \* searches that wait for the index
  listed,      \* the elements of the list: [text, results], or None
  visible,     \* does the list show, instead of the types?
  current,     \* the highlighted element: [at, attached], or None
  performing,  \* performingSearch
  waiting,     \* Enters that wait for searchPerformed
  opening      \* Enters whose timer of 100 ms runs

page == <<hash, typed, input, focus, modal>>
search == <<loaded, timer, lastSearchText, queue>>
list == <<listed, visible>>
keys == <<performing, waiting, opening>>
vars == <<page, search, list, current, keys>>

Init ==
  /\ loaded = FALSE /\ hash \in BOOLEAN /\ typed = 0
  /\ input \in Texts /\ (hash => input # Empty)  \* or of the sessionStorage
  /\ focus = "body" /\ modal = FALSE
  /\ timer = FALSE /\ lastSearchText = None /\ queue = <<>>
  /\ listed = None /\ visible = FALSE /\ current = None
  /\ performing = FALSE /\ waiting = 0 /\ opening = 0

-----------------------------------------------------------------------------
(* Searching *)

(* performSearch: the search is put off for 200 ms. *)
PerformSearch == timer' = TRUE /\ performing' = TRUE

(* The results of all texts, computed once. *)
Lists == [t \in Texts |-> Search(Query[t])]

(* Faulty variant of Perform: no Enter is woken. *)
PerformSilently(text) ==
  /\ \E results \in Lists[text] :
       listed' = [text |-> text, results |-> results]
  /\ visible' = TRUE
  /\ performing' = FALSE /\ UNCHANGED <<waiting, opening>>

(* search with the index: the elements of the list are new ones, and every *)
(* Enter that waits gets its timer.                                        *)
Perform(text) ==
  /\ \E results \in Lists[text] :
       listed' = [text |-> text, results |-> results]
  /\ visible' = TRUE
  /\ performing' = FALSE /\ waiting' = 0 /\ opening' = opening + waiting

Detached == IF current = None THEN None
            ELSE [current EXCEPT !.attached = FALSE]

Elements(l) == IF l = None THEN 0 ELSE Len(l.results)

(* Faulty variant of HighlightFirst: not when something is highlighted. *)
HighlightFirstOnce(l, c) ==
  IF Elements(l) = 0 \/ c # None THEN c ELSE [at |-> 1, attached |-> TRUE]

(* highlightFirst, with the elements l: nothing happens without elements.  *)
HighlightFirst(l, c) ==
  IF Elements(l) = 0 THEN c ELSE [at |-> 1, attached |-> TRUE]

(* search, or its delay until the index is there. *)
SearchFor(text) ==
  /\ focus' = "input"
  /\ IF loaded
       THEN /\ Perform(text)
            /\ current' = HighlightFirst(listed', Detached)
            /\ UNCHANGED queue
       ELSE /\ queue' = Append(queue, text)
            /\ current' = HighlightFirst(listed, current)
            /\ UNCHANGED <<list, keys>>

(* text == lastSearchText: the comparison is loose, and some texts equal    *)
(* the false that is there before the first timer.                         *)
SameText(text) ==
  IF lastSearchText = None THEN text \in LikeFalse ELSE text = lastSearchText

(* Faulty variant of SearchTimer: no debounce is said to have stopped. *)
SearchTimerBusy ==
  /\ timer /\ timer' = FALSE
  /\ lastSearchText' = input
  /\ \/ /\ input = Empty
        /\ visible' = FALSE
        /\ UNCHANGED <<listed, keys, current, focus, queue>>
     \/ /\ input # Empty /\ SameText(input)
        /\ UNCHANGED <<list, keys, current, focus, queue>>
     \/ /\ input # Empty /\ ~SameText(input)
        /\ SearchFor(input)
  /\ UNCHANGED <<hash, typed, input, modal, loaded>>

(* The timer of performSearch. *)
SearchTimer ==
  /\ timer /\ timer' = FALSE
  /\ lastSearchText' = input
  /\ \/ /\ input = Empty
        /\ visible' = FALSE
        /\ UNCHANGED <<listed, keys, current, focus, queue>>
     \/ /\ input # Empty /\ SameText(input)
        /\ performing' = FALSE
        /\ UNCHANGED <<list, waiting, opening, current, focus, queue>>
     \/ /\ input # Empty /\ ~SameText(input)
        /\ SearchFor(input)
  /\ UNCHANGED <<hash, typed, input, modal, loaded>>

(* Faulty variant of Queued: the first search of the queue is shown. *)
QueuedFirst == Head(queue)

(* The searches of the queue are performed in turn; the last one remains.  *)
Queued == Last(queue)

(* initializeIndex: the listener of the hash comes first, and those of the *)
(* queue highlight nothing.  What is hidden loses the focus.               *)
Load ==
  /\ ~loaded /\ loaded' = TRUE
  /\ timer' = (timer \/ hash)
  /\ \/ /\ queue = <<>>
        /\ performing' = (performing \/ hash)
        /\ UNCHANGED <<list, waiting, opening, current, focus>>
     \/ /\ queue # <<>>
        /\ Perform(Queued) /\ current' = Detached
        /\ focus' = IF focus = "sidebar" THEN "body" ELSE focus
  /\ queue' = <<>>
  /\ UNCHANGED <<hash, typed, input, modal, lastSearchText>>

-----------------------------------------------------------------------------
(* The search box *)

(* The text is changed: input, and keyup. *)
Type ==
  /\ focus = "input" /\ typed < MaxTyped
  /\ typed' = typed + 1
  /\ input' \in Texts \ {input}
  /\ PerformSearch
  /\ UNCHANGED <<hash, focus, modal, loaded, lastSearchText, queue, list,
                 current, waiting, opening>>

(* The keyup of any key, arrows, Enter and Escape too. *)
KeyUp ==
  /\ focus = "input"
  /\ PerformSearch
  /\ UNCHANGED <<page, loaded, lastSearchText, queue, list, current, waiting,
                 opening>>

LeaveSearchScope == visible' = FALSE /\ UNCHANGED listed

(* delayWhileSearching, openSelectedResult, leaveSearchScope.  (What is    *)
(* opened is in this page, or else the page is left.)                      *)
Enter ==
  /\ focus = "input" /\ waiting + opening < MaxEnters
  /\ IF performing
       THEN waiting' = waiting + 1 /\ UNCHANGED list
       ELSE LeaveSearchScope /\ UNCHANGED waiting
  /\ UNCHANGED <<page, search, current, performing, opening>>

OpenTimer ==
  /\ opening > 0
  /\ opening' = opening - 1
  /\ LeaveSearchScope
  /\ UNCHANGED <<page, search, current, performing, waiting>>

Escape ==
  /\ focus = "input"
  /\ LeaveSearchScope
  /\ focus' = "sidebar"
  /\ UNCHANGED <<hash, typed, input, modal, search, current, keys>>

(* move: an element that was removed has no siblings. *)
Move(up) ==
  /\ focus \in {"input", "sidebar"}
  /\ current' =
       IF current = None THEN HighlightFirst(listed, current)
       ELSE LET next == IF up THEN current.at - 1 ELSE current.at + 1
            IN  IF current.attached /\ next \in 1 .. Elements(listed)
                  THEN [at |-> next, attached |-> TRUE] ELSE current
  /\ UNCHANGED <<page, search, list, keys>>

-----------------------------------------------------------------------------
(* Elsewhere in the page *)

(* Enter and Escape in the list of types.  Escape closes the modal, too.   *)
SidebarEnter ==
  /\ focus = "sidebar"
  /\ LeaveSearchScope
  /\ UNCHANGED <<page, search, current, keys>>

ShortEscape ==
  /\ focus # "input"
  /\ modal' = FALSE
  /\ IF focus = "sidebar" THEN LeaveSearchScope ELSE UNCHANGED list
  /\ UNCHANGED <<hash, typed, input, focus, search, current, keys>>

ShortHelp ==
  /\ focus # "input"
  /\ modal' = TRUE
  /\ UNCHANGED <<hash, typed, input, focus, search, list, current, keys>>

(* s and /: focus, and the search of the text that is there. *)
ShortSearch ==
  /\ focus # "input" /\ ~modal
  /\ focus' = "input"
  /\ current' = HighlightFirst(listed, current)
  /\ PerformSearch
  /\ UNCHANGED <<hash, typed, input, modal, loaded, lastSearchText, queue,
                 list, waiting, opening>>

(* Clicks: beside the modal, in the search box, or in the page. *)
HideModal ==
  /\ modal /\ modal' = FALSE
  /\ UNCHANGED <<hash, typed, input, focus, search, list, current, keys>>

Click ==
  /\ ~modal
  /\ focus' \in {"input", "sidebar", "body"} \ {focus}
  /\ focus' = "sidebar" => ~visible
  /\ UNCHANGED <<hash, typed, input, modal, search, list, current, keys>>

-----------------------------------------------------------------------------
Next ==
  \/ Load \/ SearchTimer \/ OpenTimer
  \/ Type \/ KeyUp \/ Enter \/ Escape \/ \E up \in BOOLEAN : Move(up)
  \/ SidebarEnter \/ ShortEscape \/ ShortHelp \/ ShortSearch
  \/ HideModal \/ Click

Spec == Init /\ [][Next]_vars

(* Timers fire: between two keys there is a pause of 200 ms some time.     *)
Fairness == WF_vars(SearchTimer) /\ WF_vars(OpenTimer)

FairSpec == Spec /\ Fairness

(* The index arrives. *)
LoadingSpec == FairSpec /\ WF_vars(Load)

-----------------------------------------------------------------------------
(* What Enter opens is an element of the list made last, which shows or    *)
(* was hidden by Escape; only behind an empty list an element of an        *)
(* earlier one may stay highlighted.                                       *)
HighlightIsShown ==
  current # None =>
    IF current.attached THEN current.at \in 1 .. Elements(listed)
                        ELSE Elements(listed) = 0

(* No search was performed or queued so far. *)
NothingSearched == listed = None /\ queue = <<>>

(* The list is that of lastSearchText, whether the search waited for the   *)
(* index, was abandoned by Escape or not, or repeated another; except that *)
(* a text like false is not searched when it comes first (doc.js:84), and  *)
(* then there is no list at all.                                           *)
ShownIsLastSearch ==
  lastSearchText \notin {None, Empty} =>
    \/ IF loaded THEN listed # None /\ listed.text = lastSearchText
                 ELSE queue # <<>> /\ Last(queue) = lastSearchText
    \/ lastSearchText \in LikeFalse /\ NothingSearched

(* Enter is put off only as long as a search of the text is due, or of one *)
(* before it: performingSearch is not left behind.  An empty text is       *)
(* excepted, as the branch of doc.js:82 leaves it behind.                  *)
DelayEnds == performing /\ input # Empty => timer \/ queue # <<>>

(* A type that matches in one field, and a member, one of which is found   *)
(* by its docs: there the comparison contradicts itself.                   *)
Contested(results) ==
  \E a, b \in results :
    /\ a.kind = "type" /\ b.kind # "type"
    /\ Len(a.fields) = 1 /\ (Has(a, "doc") \/ Has(b, "doc"))

(* Without such a pair the order is the same for every engine: each result *)
(* compares right with all that follow it, not only with the next, unless  *)
(* both are found by arguments and have one name.                          *)
OneOrder ==
  listed # None /\ ~Contested(RunQuery(Query[listed.text])) =>
    LET r == listed.results
    IN  \A i, j \in DOMAIN r :
          /\ i < j
          /\ Has(r[i], "args") /\ Has(r[j], "args") =>
               r[i].entry.alpha # r[j].entry.alpha
          => /\ Compare(r[i], r[j], Query[listed.text]) <= 0
             /\ Compare(r[j], r[i], Query[listed.text]) >= 0

(* "if we have more than two search terms, only include results with the   *)
(* most matches": whatever comes first, an entry that matches every term   *)
(* is not left out, unless the list is full.                               *)
AllTermsShown ==
  listed # None /\ Len(listed.results) < MaxResultsDisplay =>
    \A r \in RunQuery(Query[listed.text]) :
      r.terms = Range(Query[listed.text]) => r \in Range(listed.results)

(* An Enter pressed right behind a text that is to be searched, which one  *)
(* like the last text or, at first, like false is not, waits for the       *)
(* results of that text.                                                   *)
EnterAnswered ==
  \A t \in Texts \ {Empty} :
    waiting > 0 /\ loaded /\ input = t /\ ~SameText(t)
      ~> waiting = 0 \/ input # t

(* "Open highlighted result" (usage of Enter): no Enter waits for ever. *)
EnterOpens == waiting > 0 ~> waiting = 0
=============================================================================
