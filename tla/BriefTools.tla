----------------------------- MODULE BriefTools -----------------------------
(***************************************************************************)
(* The deterministic tools that make a brief out of notes                  *)
(* (workflows/tools.py).  A line of the notes is abstracted to the key it  *)
(* has once case and punctuation are gone, the word lists it matches       *)
(* (decision, action, negative, positive) and its meaningful terms.        *)
(***************************************************************************)
EXTENDS Naturals, Sequences, SequencesExt, FiniteSets, Lists

CONSTANT NoteLists  \* the notes that a run may be given, line by line

ASSUME BriefAssumption ==
  NoteLists \subseteq Seq([key : Nat, marks : SUBSET STRING, terms : SUBSET STRING])

VARIABLE report  \* the sections of the notes and the brief made of them

Blank == [key |-> 0, marks |-> {}, terms |-> {}]  \* a line of white space

\* Blank lines are dropped and the others lose their extra spaces.
NormalizeInput(lines) == Where(lines, LAMBDA x : x # Blank)

\* Every line is a section of its own: the pattern splits behind each newline.
SplitIntoSections(lines) ==
  LET kept == Where(lines, LAMBDA x : x # Blank)
  IN [i \in DOMAIN kept |-> [id |-> i, key |-> kept[i].key,
                             marks |-> kept[i].marks, terms |-> kept[i].terms]]

LooksLikeDecision(section) == "decision" \in section.marks
LooksLikeAction(section)   == "action" \in section.marks

\* Mutant: what is not an action is an observation.
ExtractClaims_NotActions(sections) ==
  Where(sections, LAMBDA x : ~LooksLikeAction(x))

ExtractClaims(sections) ==
  Where(sections, LAMBDA x : ~LooksLikeAction(x) /\ ~LooksLikeDecision(x))

ExtractDecisions(sections) == Where(sections, LooksLikeDecision)

ExtractActionItems(sections) == Where(sections, LooksLikeAction)

Findings(f) == f.claims \o f.decisions \o f.actions

\* The sources of each key that more than one finding has, by first appearance.
FindDuplicates(f) ==
  LET items == Findings(f)
      keys == Distinct([i \in DOMAIN items |-> items[i].key])
      Bucket(k) == Where(items, LAMBDA x : x.key = k)
      repeated == Where(keys, LAMBDA k : Len(Bucket(k)) > 1)
  IN [i \in DOMAIN repeated |->
       {x.id : x \in Range(Bucket(repeated[i]))}]

\* Mutant: a section may contradict itself.
Conflict_WithItself(negative, positive) ==
  negative.terms \intersect positive.terms # {}

Conflict(negative, positive) ==
  /\ negative.id # positive.id
  /\ negative.terms \intersect positive.terms # {}

\* For each negative finding the first positive one of another section that
\* shares a term with it.
FindContradictions(f) ==
  LET items == Findings(f)
      negatives == Where(items, LAMBDA x : "negative" \in x.marks)
      positives == Where(items, LAMBDA x : "positive" \in x.marks)
      Against(n) == Where(positives, LAMBDA p : Conflict(n, p))
      contested == Where(negatives, LAMBDA n : Against(n) # <<>>)
  IN [i \in DOMAIN contested |->
       <<Against(contested[i])[1].id, contested[i].id>>]

\* Mutant: the last eight are kept.
JoinItems_Last(items) == Take([i \in DOMAIN items |-> items[Len(items) + 1 - i].id], 8)

JoinItems(items) == Take([i \in DOMAIN items |-> items[i].id], 8)

\* Three sections of at most eight findings, one open question per kind of
\* trouble, and the counts.
FormatBrief(f, duplicates, contradictions) ==
  [observations |-> JoinItems(f.claims),
   decisions |-> JoinItems(f.decisions),
   actions |-> JoinItems(f.actions),
   questions |-> (IF duplicates # <<>> THEN {"duplicates"} ELSE {})
                 \union (IF contradictions # <<>> THEN {"contradictions"} ELSE {}),
   counts |-> <<Len(duplicates), Len(contradictions)>>]

\* The tools in the order of the workflow.
Brief(lines) ==
  LET sections == SplitIntoSections(NormalizeInput(lines))
      f == [claims |-> ExtractClaims(sections),
            decisions |-> ExtractDecisions(sections),
            actions |-> ExtractActionItems(sections)]
  IN [findings |-> f, duplicates |-> FindDuplicates(f),
      contradictions |-> FindContradictions(f),
      brief |-> FormatBrief(f, FindDuplicates(f), FindContradictions(f))]

-----------------------------------------------------------------------------
ReportInit == report = [made |-> FALSE]

\* The deterministic workflow has run.
MakeBrief ==
  /\ ~report.made
  /\ \E lines \in NoteLists :
       report' = [made |-> TRUE,
                  sections |-> SplitIntoSections(NormalizeInput(lines)),
                  out |-> Brief(lines)]

ReportSpec == ReportInit /\ [][MakeBrief]_report

-----------------------------------------------------------------------------
(* Properties                                                              *)

\* A note is in the section or sections of the brief it belongs to, among the
\* observations or else the decisions, the actions or both, and in no other; it
\* is left out of one only after eight earlier notes (extract_claims,
\* extract_decisions, extract_action_items, _join_items).
OnlyLateNotesAreLeftOut ==
  report.made =>
    LET brief == report.out.brief
        Belongs(x, kind) ==
          \/ kind = "observations" /\ x.marks \intersect {"decision", "action"} = {}
          \/ kind = "decisions" /\ "decision" \in x.marks
          \/ kind = "actions" /\ "action" \in x.marks
    IN \A x \in Range(report.sections) :
         \A kind \in {"observations", "decisions", "actions"} :
           LET listed == brief[kind] IN
             IF Belongs(x, kind)
             THEN \/ x.id \in Range(listed)
                  \/ Len(listed) = 8 /\ \A i \in 1 .. 8 : listed[i] < x.id
             ELSE x.id \notin Range(listed)

\* A contradiction is reported exactly when a negative and a positive note of two
\* sections share a term, although each negative note is matched once
\* (find_contradictions).
ContradictionsAreReal ==
  report.made =>
    LET Tension(n, p) == /\ n.id # p.id
                         /\ "negative" \in n.marks /\ "positive" \in p.marks
                         /\ n.terms \intersect p.terms # {}
        s == Range(report.sections)
        found == report.out.contradictions
    IN {found[i][2] : i \in DOMAIN found}
         = {n.id : n \in {x \in s : \E p \in s : Tension(x, p)}}

\* The brief accounts for the first notes of each kind, none in a place that is not
\* its own, and its open questions are about real tensions (workflows/tools.py).
BriefIsFaithful == OnlyLateNotesAreLeftOut /\ ContradictionsAreReal
=============================================================================
