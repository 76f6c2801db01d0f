------------------------------ MODULE DocQuery ------------------------------
(***************************************************************************)
(* The search of the API docs (_search.js): which entries of the index a   *)
(* query matches, and in which order they are listed.                      *)
(*                                                                         *)
(* A word is a value of its own; "contains" and indexOf are membership and *)
(* place in a name, a sequence of words.  A full name is a sequence of     *)
(* names.  A term is [mod, owner, word, upper]: the modifier "#", "." or   *)
(* "::" or None, the word before it or None, the one behind it, and        *)
(* whether it was written with capitals.  A query is a sequence of terms,  *)
(* the words left out that are modifiers only.                             *)
(***************************************************************************)
EXTENDS Naturals, Integers, FiniteSets, Sequences, SequencesExt

CONSTANTS
  Types,             \* the types of the index, nested ones too, see TypeEntry
  Members,           \* their methods, macros and constants, see MemberEntry
  MaxResultsDisplay, \* MAX_RESULTS_DISPLAY
  None

(* What is read of an entry of the index; alpha stands for localeCompare.  *)
(* args are the external names, args_string the place of each term, as it  *)
(* is written, in the text of all arguments with their types and defaults. *)
TypeEntry(fullName, alpha, doc) ==
  [full_name |-> fullName, name |-> Last(fullName), alpha |-> alpha, doc |-> doc]

MemberEntry(type, kind, name, alpha, args, args_string, doc) ==
  [type |-> type, kind |-> kind, name |-> name, alpha |-> alpha,
   args |-> args, args_string |-> args_string, doc |-> doc]

Words(fullName) == FlattenSeq(fullName)

(* Behind every place, for what is nowhere. *)
Absent == 1000

(* The index is finite, and so is each name and each list of arguments; an *)
(* entry of a type is told from a member by its kind.                      *)
Finite(s) == s \in Seq(Range(s))

ASSUME IndexAssumption ==
  /\ IsFiniteSet(Types) /\ IsFiniteSet(Members)
  /\ \A t \in Types :
       /\ Finite(t.full_name) /\ Finite(Words(t.full_name)) /\ t.alpha \in Int
       /\ \A k \in DOMAIN t.full_name :
            Finite(Words(SubSeq(t.full_name, 1, k)))
  /\ \A m \in Members :
       /\ Finite(m.name) /\ Finite(m.args) /\ m.alpha \in Int
       /\ m.kind # "type"
       /\ \A x \in DOMAIN m.args_string : m.args_string[x] \in 0 .. Absent - 1

-----------------------------------------------------------------------------
(* Query: what one term matches *)

Plain(term) == term.mod = None

(* matches, of a name or of a doc, the set of its words *)
Matches(words, term) == Plain(term) /\ term.word \in words

(* The place in a full name where owner::word begins: the segment, if any. *)
Joints(fullName, term) ==
  {k \in 1 .. Len(fullName) - 1 :
     /\ Head(fullName[k + 1]) = term.word
     /\ term.owner # None => Last(fullName[k]) = term.owner}

(* matches, of a full name: there the modifier :: may occur. *)
MatchesFull(fullName, term) ==
  \/ Matches(Range(Words(fullName)), term)
  \/ term.mod = "::" /\ Joints(fullName, term) # {}

(* namespaceMatcher: the first occurrence must begin a segment. *)
First(S) == CHOOSE k \in S : \A j \in S : k <= j

StartsSegment(fullName, word) ==
  LET flat == Words(fullName)
      at == {i \in DOMAIN flat : flat[i] = word}
      starts == {1 + Len(Words(SubSeq(fullName, 1, k - 1))) :
                   k \in DOMAIN fullName}
  IN  at # {} /\ First(at) \in starts

MatchesNamespace(fullName, term) ==
  /\ term.mod = "::"
  /\ IF term.owner = None
       THEN StartsSegment(fullName, term.word)
       ELSE LET at == Joints(fullName, term)
            IN  at # {} /\ Len(fullName[First(at)]) = 1

KindsOf(mod) == IF mod = "#" THEN {"instance_method"}
                ELSE {"class_method", "macro", "constructor"}

MatchesMethod(m, term) ==
  /\ term.word \in Range(m.name)
  /\ \/ Plain(term)
     \/ /\ term.mod \in {"#", "."} /\ m.kind \in KindsOf(term.mod)
        /\ term.owner = None \/ term.owner \in Range(Words(m.type.full_name))

-----------------------------------------------------------------------------
(* runQuery *)

PrefixForType(kind) ==
  CASE kind = "instance_method" -> <<"#">>
    [] kind \in {"class_method", "macro", "constructor"} -> <<".">>
    [] OTHER -> <<>>

Field(name, terms) == IF terms = {} THEN <<>> ELSE <<name>>

TypeResult(t, query) ==
  LET terms == Range(query)
      name  == {x \in terms : Matches(Range(t.name), x)}
      space == {x \in terms : MatchesNamespace(t.full_name, x)}
      doc   == {x \in terms : Matches(t.doc, x)}
  IN  [entry |-> t, kind |-> "type", title |-> Words(t.full_name),
       fields |-> Field("name", name) \o Field("name", space)
                    \o Field("doc", doc),
       terms |-> name \cup space \cup doc]

(* searchMethod looks into the doc of the type, searchConstant into that   *)
(* of the constant.  The type counts only for an entry that matches.       *)
MemberResult(m, query) ==
  LET terms == Range(query)
      const == m.kind = "constant"
      name  == {x \in terms : IF const THEN Matches(Range(m.name), x)
                                       ELSE MatchesMethod(m, x)}
      arg(a) == {x \in terms : Matches({a}, x)}
      args  == {i \in DOMAIN m.args : arg(m.args[i]) # {}}
      doc   == {x \in terms :
                  Matches(IF const THEN m.doc ELSE m.type.doc, x)}
      own   == name \cup doc \cup UNION {arg(m.args[i]) : i \in args}
      type  == IF own = {} THEN {}
               ELSE {x \in terms : MatchesFull(m.type.full_name, x)}
  IN  [entry |-> m, kind |-> m.kind, title |-> PrefixForType(m.kind) \o m.name,
       fields |-> Field("name", name) \o [k \in 1 .. Cardinality(args) |-> "args"]
                    \o Field("doc", doc) \o Field("type", type),
       terms |-> own \cup type]

RunQuery(query) ==
  {r \in {TypeResult(t, query) : t \in Types}
         \cup {MemberResult(m, query) : m \in Members} : r.terms # {}}

-----------------------------------------------------------------------------
(* rankResults *)

Has(r, field) == field \in Range(r.fields)

Take(s, n) == IF Len(s) > n THEN SubSeq(s, 1, n) ELSE s

Place(words, word) ==
  IF word \in Range(words) THEN First({i \in DOMAIN words : words[i] = word})
  ELSE Absent

(* The place of a term in a title with its prefix.  The titles are in      *)
(* small letters, and the terms as they were written.                      *)
PlaceInTitle(r, term) ==
  LET joints == IF r.kind = "type" THEN Joints(r.entry.full_name, term) ELSE {}
  IN  IF term.upper THEN Absent
      ELSE IF term.owner = None
        THEN IF term.mod \in {None, "::"} THEN Place(r.title, term.word)
             ELSE IF Take(r.title, 2) = <<term.mod, term.word>> THEN 1
             ELSE Absent
      ELSE IF term.mod = "::" /\ joints # {}
        THEN Len(Words(SubSeq(r.entry.full_name, 1, First(joints))))
      ELSE Absent

(* indexOf in the arguments: with modifiers and capitals on both sides. *)
PlaceInArgs(r, term) ==
  LET at == r.entry.args_string
  IN  IF term \in DOMAIN at THEN at[term] ELSE Absent

(* The first criterion that tells the two apart decides. *)
FirstNonZero(s) ==
  LET S == {i \in DOMAIN s : s[i] # 0} IN IF S = {} THEN 0 ELSE s[First(S)]

(* The first term that is at another place, or in only one, decides. *)
ByTitle(a, b, query) ==
  FirstNonZero([i \in DOMAIN query |->
                  PlaceInTitle(a, query[i]) - PlaceInTitle(b, query[i])])

ByArgs(a, b, query) ==
  FirstNonZero([i \in DOMAIN query |->
                  PlaceInArgs(a, query[i]) - PlaceInArgs(b, query[i])])

(* The comparison of sort: negative when a comes before b.  aHasDocs is    *)
(* what b has, as in the code: types come first, or not, depending on      *)
(* which of the two is a.                                                  *)
Compare(a, b, query) ==
  LET hasDocs == Has(b, "doc")
      onlyDocs(r) == hasDocs /\ Len(r.fields) = 1
      names == {r \in {a, b} : Has(r, "name")}
  IN  IF a.kind = "type" /\ b.kind # "type" /\ ~onlyDocs(a) THEN -1
      ELSE IF b.kind = "type" /\ a.kind # "type" /\ ~onlyDocs(b) THEN 1
      ELSE IF names # {} /\ names # {a, b} THEN IF a \in names THEN -1 ELSE 1
      ELSE FirstNonZero(
             <<IF names = {} THEN 0 ELSE ByTitle(a, b, query),
               Cardinality(b.terms) - Cardinality(a.terms),
               Len(b.fields) - Len(a.fields),
               a.entry.alpha - b.entry.alpha,
               IF Has(a, "args") /\ Has(b, "args") THEN ByArgs(a, b, query)
                                                ELSE 0>>)

(* Faulty variant of InOrder: only the best is put in its place. *)
InOrderBest(s, query) == \A i \in DOMAIN s : Compare(s[1], s[i], query) <= 0

(* What sort may return: of two neighbours, the one that was put next to   *)
(* the other one was compared with it.  More than one order is possible    *)
(* where the comparison contradicts itself.                                *)
InOrder(s, query) ==
  \A i \in 1 .. Len(s) - 1 :
    Compare(s[i], s[i + 1], query) < 0 \/ Compare(s[i + 1], s[i], query) >= 0

(* The elements of s at these positions, in their order. *)
Kept(s, positions) ==
  [k \in 1 .. Cardinality(positions) |->
     s[CHOOSE i \in positions : Cardinality({j \in positions : j <= i}) = k]]

(* Faulty variant of Relevant: as the comment of the filter says. *)
RelevantMost(s) ==
  Kept(s, {i \in DOMAIN s : Cardinality(s[i].terms) = Cardinality(s[1].terms)})

(* Results with at most one term less than the first. *)
Relevant(s) ==
  Kept(s, {i \in DOMAIN s :
             Cardinality(s[i].terms) + 1 >= Cardinality(s[1].terms)})

RankResults(results, query) ==
  {Relevant(s) : s \in {p \in SetToSeqs(results) : InOrder(p, query)}}

(* displaySearchResults: no more than the limit. *)
Displayed(s) == Take(s, MaxResultsDisplay)

(* The lists a query may show. *)
Search(query) == {Displayed(s) : s \in RankResults(RunQuery(query), query)}
=============================================================================
