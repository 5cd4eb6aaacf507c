------------------------------ MODULE JobSearch ------------------------------
(***************************************************************************)
(* The job_search domain pack (domains/job_search): rule-based extractors, *)
(* the task generator, the perspective builders and the context graphs of  *)
(* domain.yaml.  A line of an artifact's text is abstracted to what it     *)
(* says once its spaces are collapsed (a number), the word lists it        *)
(* matches, and which of these sayings a search finds in it as it is       *)
(* written: its own unless it has spaces to collapse, and others that it   *)
(* contains.  A chunk is a sequence of lines, those at its ends perhaps    *)
(* cut.  A signal or item is its type, what it says and the chunks its     *)
(* source links name; entities, which no view shows, are left out.         *)
(***************************************************************************)
EXTENDS ContextModel, Integers

CONSTANTS
  Submissions,  \* artifacts that may be ingested: their type, lines and chunks
  ViewRequests  \* views that may be asked for: what of the context is listed,
                \* the configured step and what a model replies

Keywords == <<"python", "kubernetes">>  \* stands for TECH_KEYWORDS

ArtifactTypes == {"job_description", "resume", "recruiter_message",
                  "interview_notes", "company_research", "personal_story",
                  "compensation_notes", "follow_up_notes"}

Views == {"role_fit", "interview_prep", "resume_positioning",
          "application_pipeline", "compensation_scope_risk"}

\* normalize_space: "text" is the collapsed line; "holds" are the collapsed texts
\* that are found in the line as written.
TextLines == Seq([text : Nat \ {0}, marks : SUBSET STRING,
                  holds : SUBSET (Nat \ {0})])

\* An artifact is never empty, so it has a chunk.
IsArtifact(x) ==
  /\ x.type \in ArtifactTypes
  /\ x.text \in TextLines
  /\ x.chunks \in Seq([id : Nat, lines : TextLines]) /\ x.chunks # <<>>

\* Chunks are listed for the listed artifacts, signals and items may be newer.
IsContext(c) ==
  LET Records == Seq([type : STRING, artifact : Nat, cites : Seq(Nat)]) IN
    /\ c.artifacts \in Seq(ArtifactTypes)
    /\ c.chunks \in Seq([id : Nat, artifact : DOMAIN c.artifacts])
    /\ c.signals \in Records /\ c.items \in Records

ASSUME JobSearchAssumption ==
  /\ \A x \in Submissions : IsArtifact(x)
  /\ \A r \in ViewRequests :
       /\ r.view \in Views /\ IsContext(r.context)
       /\ r.reply # Raises => r.reply.sections \in Seq(Seq(Nat))

VARIABLE work  \* what is ingested or built, and what comes out

-----------------------------------------------------------------------------
(* Matching                                                                *)

LinesOf(chunks) == Flat([i \in DOMAIN chunks |-> chunks[i].lines])

Matching(lines, mark) == Where(lines, LAMBDA x : mark \in x.marks)

Having(chunks, mark) ==
  {k \in DOMAIN chunks : \E i \in DOMAIN chunks[k].lines :
                           mark \in chunks[k].lines[i].marks}

\* A search for a collapsed text, in the chunk as it is written.
Says(chunk, text) == \E i \in DOMAIN chunk.lines : text \in chunk.lines[i].holds

\* The id of the first of some chunks, else of the first chunk.
FirstOf(chunks, hits) == chunks[IF hits = {} THEN 1 ELSE Min(hits)].id

\* Mutant: the first chunk, whatever it says.
SourceForMatch_First(chunks, text) == chunks[1].id

\* The first chunk in which the text is found, else the first chunk.
SourceForMatch(chunks, text) ==
  FirstOf(chunks, {i \in DOMAIN chunks : Says(chunks[i], text)})

\* What some lines say, collapsed, each once, with a chunk for it.
Quoted(lines, chunks) ==
  LET said == Distinct([i \in DOMAIN lines |-> lines[i].text])
  IN [i \in DOMAIN said |-> [text |-> said[i],
                             chunk |-> SourceForMatch(chunks, said[i])]]

\* Mutant: a line is taken as often as the overlapping chunks show it.
LinesContaining_Repeated(chunks, mark) ==
  LET hits == Matching(LinesOf(chunks), mark)
  IN [i \in DOMAIN hits |-> [text |-> hits[i].text,
                             chunk |-> SourceForMatch(chunks, hits[i].text)]]

\* The lines of the chunks that match.
LinesContaining(chunks, mark) == Quoted(Matching(LinesOf(chunks), mark), chunks)

\* The keywords found, in their own order; a keyword says minus its place.
KeywordValues(chunks) ==
  LET places == [k \in DOMAIN Keywords |-> k]
      found == Where(places, LAMBDA k : Having(chunks, Keywords[k]) # {})
  IN [i \in DOMAIN found |->
       [text |-> -found[i],
        chunk |-> FirstOf(chunks, Having(chunks, Keywords[found[i]]))]]

SignalsFromValues(type, values) ==
  [i \in DOMAIN values |-> [type |-> type, text |-> values[i].text,
                            cites |-> <<values[i].chunk>>]]

-----------------------------------------------------------------------------
(* Extractors: the rules by which each makes signals of an artifact        *)

\* A rule: the type of its signals, where their values come from, which word
\* list they match and how many are kept.
Rule(type, from, mark, cap) ==
  [type |-> type, from |-> from, mark |-> mark, cap |-> cap]

Lines(type, mark, cap) == Rule(type, "lines", mark, cap)
Whole(type, mark, cap) == Rule(type, "text", mark, cap)
Tech(type)             == Rule(type, "keywords", "", Len(Keywords))

JobDescription ==
  <<Rule("role_title", "title", "title", 1), Whole("company", "company", 1),
    Rule("seniority", "seniority", "seniority", 1),
    Lines("responsibility", "responsibility", 8), Tech("technology"),
    Lines("leadership_expectation", "leadership_expectation", 5),
    Lines("compensation", "compensation", 5),
    Lines("location_constraint", "location", 5),
    Lines("unusual_scope_indicator", "unusual_scope_indicator", 5)>>

Resume ==
  <<Lines("role_experience", "role_experience", 10), Tech("technical_skill"),
    Lines("platform_experience", "platform", 8),
    Lines("ai_agent_experience", "ai", 8),
    Lines("measurable_outcome", "outcome", 10),
    Lines("leadership_signal", "leadership", 10),
    Whole("company_experience", "company", 8)>>

InterviewNotes ==
  <<Lines("interviewer_concern", "concern", 8),
    Lines("open_question", "question", 8), Lines("technical_theme", "theme", 8),
    Lines("interview_risk", "risk", 8), Lines("next_action_signal", "next", 8)>>

PersonalStory ==
  <<Lines("story_situation", "situation", 5), Lines("story_action", "action", 5),
    Lines("story_result", "outcome", 5),
    Lines("relevant_competency", "competency", 5),
    Lines("leadership_theme", "leadership", 5),
    Lines("technical_theme", "theme", 5)>>

ContextNotes ==
  [recruiter_message |->
     <<Lines("open_question", "question", 6),
       Lines("compensation", "compensation", 6),
       Lines("location_constraint", "location", 6)>>,
   company_research |->
     <<Lines("company_signal", "company", 8), Lines("inferred_risk", "concern", 6)>>,
   compensation_notes |->
     <<Lines("compensation", "compensation", 8),
       Lines("open_question", "question", 6)>>,
   follow_up_notes |->
     <<Lines("next_action_signal", "next", 8),
       Lines("open_question", "question", 6)>>]

\* The rules of the extractor that accepts the artifact type.
RulesOf ==
  [job_description |-> JobDescription, resume |-> Resume,
   interview_notes |-> InterviewNotes, personal_story |-> PersonalStory,
   recruiter_message |-> ContextNotes.recruiter_message,
   company_research |-> ContextNotes.company_research,
   compensation_notes |-> ContextNotes.compensation_notes,
   follow_up_notes |-> ContextNotes.follow_up_notes]

-----------------------------------------------------------------------------
(* Extraction                                                              *)

\* The first line labelled as a title, else the first that sounds like a role.
TitleLines(text) ==
  IF \E i \in DOMAIN text : "title" \in text[i].marks
  THEN "title" ELSE "role_experience"

\* The lines of the whole text that match.
Matches(text, chunks, mark) == Quoted(Matching(text, mark), chunks)

\* A seniority is a category (it says 0), looked for by a word that the text need
\* not contain.
Seniority(text, chunks) ==
  IF \A i \in DOMAIN text : "seniority" \notin text[i].marks THEN <<>>
  ELSE <<[text |-> 0, chunk |-> FirstOf(chunks, Having(chunks, "seniority_word"))]>>

\* What a rule finds in an artifact.
Values(rule, text, chunks) ==
  CASE rule.from = "lines"     -> LinesContaining(chunks, rule.mark)
    [] rule.from = "text"      -> Matches(text, chunks, rule.mark)
    [] rule.from = "title"     -> Matches(text, chunks, TitleLines(text))
    [] rule.from = "seniority" -> Seniority(text, chunks)
    [] rule.from = "keywords"  -> KeywordValues(chunks)

Apply(rules, text, chunks) ==
  Flat([i \in DOMAIN rules |->
         SignalsFromValues(rules[i].type,
           Take(Values(rules[i], text, chunks), rules[i].cap))])

\* A job with unusual scope or many responsibilities is a risk, with the first
\* of these as its excerpt.
ScopeRisk(found) ==
  LET scope == OfTypes(found, {"unusual_scope_indicator"})
      duties == OfTypes(found, {"responsibility"})
      quoted == scope \o OfTypes(found, {"leadership_expectation"}) \o duties
  IN IF scope # <<>> \/ Len(duties) >= 6 THEN <<quoted[1]>> ELSE <<>>

As(type, signals) == [i \in DOMAIN signals |-> [signals[i] EXCEPT !.type = type]]

\* The signals that do not quote lines: the risk of a job, and the beginning of
\* notes that match nothing.
MoreSignals(type, found, chunks) ==
  CASE type = "job_description" -> As("inferred_risk", ScopeRisk(found))
    [] type \in DOMAIN ContextNotes /\ found = <<>> /\ chunks # <<>> ->
         <<[type |-> "source_summary", text |-> 0, cites |-> <<chunks[1].id>>]>>
    [] OTHER -> <<>>

\* The items an extractor makes of its own signals.
FoundItems(type, found) ==
  CASE type = "job_description" -> As("clarify_scope", ScopeRisk(found))
    [] type = "interview_notes" ->
         As("clarify_interviewer_concern",
            Take(OfTypes(found, {"interviewer_concern"}), 3))
         \o As("prepare_technical_study_plan",
               Take(OfTypes(found, {"technical_theme"}), 3))
    [] OTHER -> <<>>

\* Mutant: an artifact type the generator does not know gets no item.
Generate_Nothing(type) == IF type = "personal_story" THEN <<>> ELSE
                          <<"prepare_interview_brief">>

\* The item types of the task generator; its source link names no chunk.
Generate(type) ==
  CASE type = "job_description" ->
         <<"prepare_interview_brief", "research_company_concerns",
           "clarify_compensation_expectations">>
    [] type = "resume"             -> <<"rewrite_resume_section">>
    [] type = "recruiter_message"  -> <<"draft_recruiter_follow_up">>
    [] type = "compensation_notes" -> <<"clarify_compensation_expectations">>
    [] type = "interview_notes"    -> <<"prepare_architecture_story">>
    [] type = "company_research"   -> <<"research_company_concerns">>
    [] type = "follow_up_notes"    -> <<"draft_recruiter_follow_up">>
    [] OTHER                       -> <<"prepare_interview_brief">>

GeneratedItems(type) ==
  [i \in DOMAIN Generate(type) |->
    [type |-> Generate(type)[i], text |-> 0, cites |-> <<>>]]

\* What ingest_artifact stores of an artifact of which the rules found this.
Stored(type, found, chunks) ==
  [signals |-> found \o MoreSignals(type, found, chunks),
   items   |-> FoundItems(type, found) \o GeneratedItems(type)]

Ingest(type, text, chunks) ==
  Stored(type, Apply(RulesOf[type], text, chunks), chunks)

-----------------------------------------------------------------------------
(* Perspectives: the sections of each view, by the types they show         *)

RoleFit == <<{"technology", "technical_skill", "platform_experience"},
             {"open_question", "interviewer_concern"},
             {"inferred_risk", "unusual_scope_indicator"},
             {"leadership_signal", "measurable_outcome", "ai_agent_experience",
              "role_experience"},
             {"open_question", "location_constraint", "company_signal"}>>

InterviewPrep == <<{"technical_theme", "leadership_expectation", "company_signal"},
                   {"story_situation", "story_action", "story_result"},
                   {"technology", "technical_skill", "platform_experience"},
                   {"open_question", "location_constraint", "compensation"},
                   {"interviewer_concern", "interview_risk", "inferred_risk",
                    "company_signal"}>>

ResumePositioning == <<{"measurable_outcome", "technical_skill",
                        "leadership_signal"},
                       {"responsibility", "leadership_expectation"},
                       {"interviewer_concern", "interview_risk"},
                       {"rewrite_resume_section"}>>

ApplicationPipeline == <<{"company", "role_title"},
                         {"prepare_interview_brief", "draft_recruiter_follow_up",
                          "research_company_concerns"},
                         {"interview_risk", "inferred_risk"},
                         {"draft_recruiter_follow_up",
                          "clarify_compensation_expectations", "clarify_scope",
                          "prepare_architecture_story"}>>

CompensationScopeRisk == <<{"compensation"},
                           {"unusual_scope_indicator", "inferred_risk"},
                           {"role_title", "seniority"}>>

SectionsOf == [role_fit |-> RoleFit, interview_prep |-> InterviewPrep,
               resume_positioning |-> ResumePositioning,
               application_pipeline |-> ApplicationPipeline,
               compensation_scope_risk |-> CompensationScopeRisk]

\* Mutant: items are left out of the sections.
Section_NoItems(context, types) == Take(OfTypes(context.signals, types), 8)

\* The first eight records a section is about, and the first source of each.
Section(context, types) == Take(OfTypes(context.signals \o context.items, types), 8)

Evidence(records) ==
  Flat([i \in DOMAIN records |-> Take(records[i].cites, 1)])

\* The chunks the deterministic view cites, section by section; the last view
\* ends with a note on human judgment that cites the first signal.
ViewEvidence(context, view) ==
  Flat([i \in DOMAIN SectionsOf[view] |->
         Evidence(Section(context, SectionsOf[view][i]))])
  \o IF view = "compensation_scope_risk" THEN Evidence(Take(context.signals, 1))
     ELSE <<>>

\* Mutant: the graph of the application pipeline lacks a type its view shows.
GraphTypes_Narrow(view) ==
  IF view = "application_pipeline" THEN {"company", "role_title"}
  ELSE UNION Range(SectionsOf[view])

\* The signal and item types of a view's context graph.
GraphTypes(view) ==
  CASE view = "role_fit" ->
         {"role_expectation", "technology", "technical_skill",
          "platform_experience", "inferred_risk", "unusual_scope_indicator",
          "open_question", "interviewer_concern", "leadership_signal",
          "measurable_outcome", "ai_agent_experience", "role_experience",
          "leadership_expectation", "responsibility", "company_signal",
          "location_constraint", "add_supporting_evidence", "clarify_scope",
          "prepare_interview_brief", "rewrite_resume_section",
          "prepare_architecture_story"}
    [] view = "interview_prep" ->
         {"technical_theme", "leadership_expectation", "company_signal",
          "story_situation", "story_action", "story_result", "technology",
          "technical_skill", "platform_experience", "open_question",
          "location_constraint", "compensation", "interviewer_concern",
          "interview_risk", "inferred_risk", "prepare_interview_brief",
          "prepare_architecture_story", "research_company_concerns"}
    [] view = "resume_positioning" ->
         {"role_expectation", "measurable_outcome", "technical_skill",
          "leadership_signal", "responsibility", "leadership_expectation",
          "interviewer_concern", "interview_risk", "technology",
          "platform_experience", "rewrite_resume_section",
          "add_supporting_evidence"}
    [] view = "application_pipeline" ->
         {"company", "role_title", "interview_risk", "inferred_risk",
          "company_signal", "open_question", "prepare_interview_brief",
          "draft_recruiter_follow_up", "research_company_concerns",
          "clarify_compensation_expectations", "clarify_scope",
          "prepare_architecture_story"}
    [] view = "compensation_scope_risk" ->
         {"compensation", "unusual_scope_indicator", "inferred_risk",
          "role_title", "seniority", "company_signal", "open_question",
          "clarify_compensation_expectations", "clarify_scope",
          "research_company_concerns"}

\* The rest of a context graph: limits and the types of fallback artifacts.
ContextGraph(view) ==
  LET small == view \in {"application_pipeline", "compensation_scope_risk"}
  IN [dependsOn   |-> {"deterministic_view", "signals", "actionable_items"},
      signalTypes |-> GraphTypes(view),
      itemTypes   |-> GraphTypes(view),
      chunkLimit  |-> IF small THEN 14 ELSE 18,
      signalLimit |-> IF small THEN 18 ELSE 24,
      itemLimit   |-> IF view = "application_pipeline" THEN 10 ELSE 6,
      fallback    |-> {"job_description"} \union
        CASE view = "interview_prep" -> {"resume", "personal_story",
                                         "company_research", "interview_notes"}
          [] view = "application_pipeline" -> {"recruiter_message",
                                         "company_research", "follow_up_notes"}
          [] view = "compensation_scope_risk" -> {"compensation_notes",
                                         "company_research", "recruiter_message"}
          [] OTHER -> {"resume", "personal_story"}]

-----------------------------------------------------------------------------
(* Ingestion and views                                                     *)

WorkInit == work = [kind |-> "none"]

IngestText ==
  /\ work.kind = "none"
  /\ \E x \in Submissions :
       work' = [kind |-> "ingest", given |-> x,
                out |-> Ingest(x.type, x.text, x.chunks)]

BuildView ==
  /\ work.kind = "none"
  /\ \E r \in ViewRequests :
       LET graph == ContextGraph(r.view)
           evidence == ViewEvidence(r.context, r.view)
       IN work' = [kind |-> "view", given |-> r,
                   selected |-> SelectPerspectiveChunks(r.context, evidence, graph),
                   ids |-> PromptChunkIds(r.context, evidence, graph),
                   out |-> BuildWithExecution(evidence, r.context, graph, r.step,
                                              r.onLoop, r.reply)]

WorkNext == IngestText \/ BuildView

WorkSpec == WorkInit /\ [][WorkNext]_work

-----------------------------------------------------------------------------
(* Properties                                                              *)

\* Chunks overlap, so a line may be seen twice: no artifact gives two signals of
\* one type that say the same (lines_containing).
NoSignalTwice ==
  work.kind = "ingest" =>
    LET s == work.out.signals IN
      \A i, j \in DOMAIN s :
        i # j => s[i].type # s[j].type \/ s[i].text # s[j].text

\* A signal that quotes a line cites a chunk in which the quote is found, when
\* there is one (source_for_match).  There is none for a line that every chunk
\* cuts, and none for one whose spaces were collapsed, unless a chunk repeats it
\* tidily: these are attributed to the first chunk of the artifact.
QuotesAreInTheirChunk ==
  work.kind = "ingest" =>
    LET s == work.out.signals
        chunks == work.given.chunks
        With(text) == {chunks[k].id : k \in {c \in DOMAIN chunks :
                                               Says(chunks[c], text)}}
    IN \A i \in DOMAIN s :
         /\ Range(s[i].cites) \subseteq Ids(chunks)
         /\ With(s[i].text) # {} => s[i].cites[1] \in With(s[i].text)

\* Signals are neither repeated nor attributed to a chunk without what they quote
\* while a search finds it in another, whatever the cut of the text
\* (lines_containing, source_for_match).
SignalsAreFaithful == NoSignalTwice /\ QuotesAreInTheirChunk

\* Every ingested artifact has a record that some section of some view lists, even
\* when its text matches no word list: the generated items see to it
\* (builders.py, generators.py).
EveryArtifactHasASection ==
  work.kind = "ingest" =>
    \E v \in Views : \E i \in DOMAIN SectionsOf[v] :
      \E y \in Range(work.out.signals) \union Range(work.out.items) :
        y.type \in SectionsOf[v][i]

\* A section leaves out a record of its types only if it shows eight: then later
\* artifacts of the listing may be in no section at all (_content, _task_section).
OnlyFullSectionsLeaveOut ==
  work.kind = "view" =>
    LET context == work.given.context IN
    \A i \in DOMAIN SectionsOf[work.given.view] :
      LET types == SectionsOf[work.given.view][i]
          shown == Section(context, types)
      IN \A y \in Range(context.signals) \union Range(context.items) :
           y.type \in types => y \in Range(shown) \/ Len(shown) = 8

\* What a view's own sections show is of a type its context graph selects, so
\* the model is asked about the same records (domain.yaml against builders.py).
SectionsAreInTheGraph ==
  work.kind = "view" =>
    \A i \in DOMAIN SectionsOf[work.given.view] :
      LET shown == Section(work.given.context, SectionsOf[work.given.view][i])
      IN \A j \in DOMAIN shown : shown[j].type \in GraphTypes(work.given.view)

\* The chunks a prompt shows are distinct, within the limit and in the context,
\* although signals may cite chunks of an artifact ingested after the listing
\* (_select_perspective_chunks).
PromptChunksAreKnown ==
  work.kind = "view" =>
    /\ \A i, j \in DOMAIN work.selected :
         i # j => work.selected[i] # work.selected[j]
    /\ Len(work.selected) <= ContextGraph(work.given.view).chunkLimit
    /\ Range(work.selected) \subseteq Ids(work.given.context.chunks)

\* The model is asked, answers, and cites the compact ids of chunks it was shown.
Obedient(r, ids, selected) ==
  /\ r.step # Raises /\ r.step.mode # "deterministic"
  /\ r.step.profile.structured /\ r.step.profile.implemented /\ ~r.onLoop
  /\ r.reply # Raises /\ ValidPerspective(r.reply)
  /\ \A i \in DOMAIN r.reply.sections : \A j \in DOMAIN r.reply.sections[i] :
       LET k == r.reply.sections[i][j]
       IN k \in DOMAIN ids /\ ids[k] \in Range(selected)

\* Such a model is never discarded, and its references come out as those chunks
\* (_PromptIdMap, _map_perspective_output).
ObedientReplyIsUsed ==
  work.kind = "view" /\ Obedient(work.given, work.ids, work.selected) =>
    LET sections == work.given.reply.sections IN
      work.out.sections = [i \in DOMAIN sections |->
                            [j \in DOMAIN sections[i] |-> work.ids[sections[i][j]]]]

\* From extraction to synthesis nothing falls between the word lists, the views
\* and their graphs but what the limit of a section cuts off, and a model that
\* obeys its prompt is heard (_select_perspective_chunks, _PromptIdMap,
\* builders.py, domain.yaml).
PromptsAreFaithful ==
  /\ EveryArtifactHasASection /\ OnlyFullSectionsLeaveOut
  /\ SectionsAreInTheGraph /\ PromptChunksAreKnown
  /\ ObedientReplyIsUsed
=============================================================================
