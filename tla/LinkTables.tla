----------------------------- MODULE LinkTables -----------------------------
(***************************************************************************)
(* The tables of the link core: SymbolTable (src/olnk/symbols_table.cpp),  *)
(* SectionTable (section_handler.cpp), RelocationPlanner (relocation.cpp)  *)
(* and IrBuilder (ir_builder.cpp). Records are added one by one, the table *)
(* is brought into its deterministic order, looked at, added to again.     *)
(* A behaviour is that of one object of one of the classes.                *)
(***************************************************************************)
EXTENDS Relocation, FiniteSets, SequencesExt

CONSTANTS
  Offered,    \* bound: for each part, the records callers add
  MaxRecords, \* bound: for each class, the records added to one object
  Bases       \* bound: place bases relocations are applied at

Classes == {"SymbolTable", "SectionTable", "RelocationPlanner", "IrBuilder"}

\* The vectors of an object of class c
Parts(c) == CASE c = "SymbolTable"       -> {"symbol"}
              [] c = "SectionTable"      -> {"section"}
              [] c = "RelocationPlanner" -> {"relocation"}
              [] c = "IrBuilder"         -> {"ir_section", "ir_symbol"}

AllParts == {"symbol", "section", "relocation", "ir_section", "ir_symbol"}

SectionRecord == [name: Nat, kind: Nat, ordinal: Nat, alignment: Nat, size: Nat]

ASSUME TablesAssumption ==
  /\ DOMAIN Offered = AllParts
  /\ Offered["symbol"] \subseteq [name: Nat, scope: Nat, ordinal: Nat, value: Nat, size: Nat]
  /\ Offered["section"] \cup Offered["ir_section"] \subseteq SectionRecord
  /\ Offered["relocation"] \subseteq RelocationRecord
  /\ Offered["ir_symbol"] \subseteq [name: Nat, value: Nat, ordinal: Nat, size: Nat]
  /\ MaxRecords \in [Classes -> Nat]
  /\ Bases \subseteq 0..UMax

VARIABLES
  class,    \* the class of the object
  rows,     \* its vectors
  arrived,  \* history: the records in the order of the calls that added them
  ordered,  \* whether nothing was added since the last normalization
  graph,    \* *out_graph of IrBuilder::build
  found,    \* the last answer of find_by_name
  results   \* the last answer of apply_relocations, with its base

vars == <<class, rows, arrived, ordered, graph, found, results>>

NoAnswer == [asked |-> -1]

Init ==
  /\ class \in Classes
  /\ rows = [p \in Parts(class) |-> << >>]
  /\ arrived = rows
  /\ ordered = TRUE
  /\ graph = rows
  /\ found = NoAnswer
  /\ results = NoAnswer

Size == Cardinality({x \in Parts(class) \X (1..MaxRecords[class]) :
                       x[2] \in DOMAIN rows[x[1]]})

add(p, r) ==
  /\ Size < MaxRecords[class]
  /\ rows' = [rows EXCEPT ![p] = Append(@, r)]
  /\ arrived' = [arrived EXCEPT ![p] = Append(@, r)]
  /\ ordered' = FALSE
  /\ found' = NoAnswer /\ results' = NoAnswer
  /\ UNCHANGED <<class, graph>>

-----------------------------------------------------------------------------
\* What each comparator compares, in its order. Names stand for their place in
\* the order of std::string, rank is the number of a relocation's kind.

\* Mutant: symbols of one name are told apart by their input only.
SymbolKey_NoScope(r) == <<r.name, r.ordinal>>

SymbolKey(r)     == <<r.name, r.scope, r.ordinal, r.value, r.size>>
SectionKey(r)    == <<r.kind, r.name, r.ordinal>>
RelocationKey(r) == <<r.offset, r.rank, r.ordinal>>
IrSectionKey(r)  == <<r.kind, r.name, r.ordinal>>
IrSymbolKey(r)   == <<r.name, r.value, r.ordinal>>

Key(p, r) == CASE p = "symbol"     -> SymbolKey(r)
               [] p = "section"    -> SectionKey(r)
               [] p = "relocation" -> RelocationKey(r)
               [] p = "ir_section" -> IrSectionKey(r)
               [] p = "ir_symbol"  -> IrSymbolKey(r)

\* The first component in which two keys differ decides.
Less(a, b) ==
  \E i \in DOMAIN a : a[i] < b[i] /\ \A j \in 1..i-1 : a[j] = b[j]

\* Mutant: std::sort, which may turn equal records round.
Before_Unstable(p, s, i, j) ==
  Less(Key(p, s[i]), Key(p, s[j])) \/ (Key(p, s[i]) = Key(p, s[j]) /\ i > j)

Before(p, s, i, j) ==
  Less(Key(p, s[i]), Key(p, s[j])) \/ (Key(p, s[i]) = Key(p, s[j]) /\ i < j)

\* std::stable_sort: a record goes behind those that come before it.
stable_sort(p, s) ==
  LET place(i) == 1 + Cardinality({j \in DOMAIN s : Before(p, s, j, i)})
  IN [n \in DOMAIN s |-> s[CHOOSE i \in DOMAIN s : place(i) = n]]

\* Mutant: an alignment of zero is left to the layout.
Canonical_Kept(p, s) == s

\* Sections without an alignment get 1.
Canonical(p, s) ==
  IF p \in {"section", "ir_section"}
    THEN [i \in DOMAIN s |-> [s[i] EXCEPT !.alignment = IF @ = 0 THEN 1 ELSE @]]
    ELSE s

Normalized == [p \in Parts(class) |-> stable_sort(p, Canonical(p, rows[p]))]

\* finalize_deterministic_order of symbols and of relocations, normalize
finalize ==
  /\ class # "IrBuilder"
  /\ rows' = Normalized
  /\ ordered' = TRUE
  /\ found' = NoAnswer /\ results' = NoAnswer
  /\ UNCHANGED <<class, arrived, graph>>

\* IrBuilder::build: both vectors are normalized in place, then copied; without
\* an out_graph it answers false before it touches them.
build(out_graph) ==
  /\ class = "IrBuilder"
  /\ IF out_graph
       THEN /\ rows' = Normalized
            /\ graph' = Normalized
            /\ ordered' = TRUE
       ELSE UNCHANGED <<rows, graph, ordered>>
  /\ UNCHANGED <<class, arrived, found, results>>

\* The first record of the name, finalized or not
FirstNamed(s, n) ==
  LET hits == {i \in DOMAIN s : s[i].name = n}
  IN IF hits = {} THEN << >> ELSE <<s[Min(hits)]>>

find_by_name(n) ==
  /\ class = "SymbolTable"
  /\ found' = [asked |-> n, answer |-> FirstNamed(rows["symbol"], n)]
  /\ UNCHANGED <<class, rows, arrived, ordered, graph, results>>

apply(b) ==
  /\ class = "RelocationPlanner"
  /\ results' = [asked |-> b, answer |-> apply_relocations(rows["relocation"], b)]
  /\ UNCHANGED <<class, rows, arrived, ordered, graph, found>>

Names == {r.name : r \in Offered["symbol"]}

Next ==
  \/ \E p \in Parts(class) : \E r \in Offered[p] : add(p, r)
  \/ finalize
  \/ \E out_graph \in BOOLEAN : build(out_graph)
  \/ \E n \in Names : find_by_name(n)
  \/ \E b \in Bases : apply(b)

Spec == Init /\ [][Next]_vars

-----------------------------------------------------------------------------
Rearrangements(s) ==
  {[i \in DOMAIN s |-> s[q[i]]] : q \in Injection(DOMAIN s, DOMAIN s)}

\* "deterministic symbol ordering across permutations" (chapter03.md): the
\* order of a finalized symbol table depends on the symbols only, not on the
\* order in which they came nor on earlier finalizations; for the other
\* tables this holds up to records with equal keys.
OrderIndependent ==
  ordered => \A p \in Parts(class) :
    (p = "symbol" \/ \A i, j \in DOMAIN rows[p] :
                       Key(p, rows[p][i]) = Key(p, rows[p][j]) => rows[p][i] = rows[p][j])
      => \A s \in Rearrangements(Canonical(p, arrived[p])) :
           stable_sort(p, s) = rows[p]

\* A table in order holds the records that came, in the order of their keys;
\* records with equal keys stay in the order in which they came, also when the
\* table was brought into order several times in between.
TiesInArrivalOrder ==
  ordered => \A p \in Parts(class) :
   \E q \in Injection(DOMAIN arrived[p], DOMAIN arrived[p]) :
    /\ rows[p] = [i \in DOMAIN arrived[p] |-> Canonical(p, arrived[p])[q[i]]]
    /\ \A i, j \in DOMAIN rows[p] : i < j =>
         /\ ~Less(Key(p, rows[p][j]), Key(p, rows[p][i]))
         /\ Key(p, rows[p][i]) = Key(p, rows[p][j]) => q[i] < q[j]

\* What the layout gets to see has no alignment of zero, in a section table
\* as in the graph of an IR builder that went on being filled.
NoZeroAlignment ==
  /\ ordered /\ class = "SectionTable" =>
       \A r \in ToSet(rows["section"]) : r.alignment # 0
  /\ class = "IrBuilder" => \A r \in ToSet(graph["ir_section"]) : r.alignment # 0

\* In a finalized table find_by_name gives the least symbol of that name, in
\* the order scope, input, value, size, whatever came first.
FindsLeast ==
  ordered /\ found # NoAnswer =>
    LET same == {r \in ToSet(arrived["symbol"]) : r.name = found.asked}
    IN IF same = {} THEN found.answer = << >>
       ELSE /\ ToSet(found.answer) \subseteq same /\ found.answer # << >>
            /\ \A r \in same : ~Less(<<r.scope, r.ordinal, r.value, r.size>>,
                 <<found.answer[1].scope, found.answer[1].ordinal,
                   found.answer[1].value, found.answer[1].size>>)

\* A relocation is applied exactly when the sum, its place and the value all
\* fit a word, and then with the exact value: nothing wraps around unnoticed,
\* also for the least addend, and nothing that fits is refused.
AppliedIsExact ==
  results # NoAnswer =>
    \A i \in DOMAIN results.answer :
      LET r == rows["relocation"][i]
          res == results.answer[i]
          fits == /\ Fits(ExactPlace(r, results.asked))
                  /\ Fits(ExactSum(r))
                  /\ Fits(ExactValue(r, results.asked))
      IN /\ res.offset = r.offset
         /\ r.kind # "kNone" /\ fits =>
              res.status = "kApplied" /\ res.resolved_value = ExactValue(r, results.asked)
         /\ ~Fits(ExactPlace(r, results.asked)) \/ (r.kind # "kNone" /\ ~fits) =>
              res.status = "kOverflow"
=============================================================================
