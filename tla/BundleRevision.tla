---------------------------- MODULE BundleRevision ----------------------------
(***************************************************************************)
(* `whetstone gen` writing a bundle: three passes of model calls, the      *)
(* files, the offload of sections that make the body too long, and at most *)
(* two revisions of what lint still objects to (cli/whetstone/gen).        *)
(*                                                                         *)
(* A body is a weight of steps and a sequence of sections; a section is    *)
(* inline or a link to a file under references/.  Files of an earlier      *)
(* generation stay in the directory: assemble only ever writes.            *)
(***************************************************************************)
EXTENDS Naturals, Sequences, FiniteSets

CONSTANTS
    Headings,      \* section headings, and the slugs they give
    Planned,       \* headings whose slug the specification plans a reference under
    Weights,       \* what a section weighs
    StepWeights,   \* what the steps weigh
    StubWeight,    \* what a link in a section's place weighs
    Budget,        \* what lint lets a body weigh; the offload aims at the same
    MaxReferences,
    MaxRevisions,
    MaxSections,   \* bound: sections in a body
    MaxGens,       \* bound: generations
    None

VARIABLES
    pc, after,  \* the step of the running generation, and the one its files lead to
    passes,     \* passes not finished
    failed,     \* whether one of them failed
    drafted,    \* the sections the body pass wrote
    body, descOk,
    written,    \* the reference files this generation writes
    revised,    \* revisions so far
    skill,      \* SKILL.md on disk: None, or a body and whether its description is right
    files,      \* references/ on disk
    gens

vars == << pc, after, passes, failed, drafted, body, descOk, written, revised, skill, files, gens >>

Slugs    == Headings \X (1 .. MaxSections + 1)
Inline   == [heading : Headings, weight : Weights, link : {None}]
Linked   == [heading : Headings, weight : {StubWeight}, link : Slugs]
Bodies   == [steps : StepWeights \cup {0}, sections : Seq(Inline \cup Linked), binding : BOOLEAN]
Empty    == [steps |-> 0, sections |-> << >>, binding |-> TRUE]
Nothing  == [s \in {} |-> None]
PlannedText(h) == [heading |-> h, weight |-> 0, link |-> None]
Plan     == [s \in {<< h, 1 >> : h \in Planned} |-> PlannedText(s[1])]

\* The later of two assignments of files wins.
Over(old, new) == [s \in DOMAIN old \cup DOMAIN new |->
                      IF s \in DOMAIN new THEN new[s] ELSE old[s]]

WeightTo(b) == LET sum[n \in Nat] == IF n = 0 THEN b.steps
                                     ELSE b.sections[n].weight + sum[n - 1]
               IN sum[Len(b.sections)]
Links(b) == {b.sections[i].link : i \in 1 .. Len(b.sections)} \ {None}

\* The findings of severity error, by the rule that gives them.
Findings(md, refs) ==
    (IF WeightTo(md.body) > Budget THEN {"body-token-budget"} ELSE {}) \cup
    (IF Links(md.body) \subseteq DOMAIN refs THEN {} ELSE {"broken-link"}) \cup
    (IF md.body.binding THEN {} ELSE {"hedge-word"}) \cup
    (IF md.descOk THEN {} ELSE {"description-too-long"}) \cup
    (IF Cardinality(DOMAIN refs) > MaxReferences THEN {"too-many-references"} ELSE {})

BodyOwned == {"body-token-budget", "broken-link", "hedge-word"}
DescOwned == {"description-too-long"}

Init == /\ pc = "idle" /\ after = "idle" /\ passes = {} /\ failed = FALSE
        /\ drafted = << >> /\ body = Empty /\ descOk = TRUE
        /\ written = Nothing /\ revised = 0
        /\ skill = None /\ files = Nothing /\ gens = 0

-----------------------------------------------------------------------------
\* What the command held in memory ends with it.
Ends == /\ pc' = "idle" /\ after' = "idle" /\ drafted' = << >> /\ body' = Empty
        /\ descOk' = TRUE /\ written' = Nothing /\ revised' = 0
        /\ UNCHANGED << passes, failed, skill, files, gens >>

Begin == /\ pc = "idle" /\ gens < MaxGens
         /\ gens' = gens + 1
         /\ pc' = "passes" /\ passes' = {"body", "resources", "description"} /\ failed' = FALSE
         /\ UNCHANGED << after, drafted, body, descOk, written, revised, skill, files >>

\* The body pass: what a model drafts.
BodyPass == /\ "body" \in passes
            /\ \E steps \in StepWeights, n \in 0 .. MaxSections, ok \in BOOLEAN :
               \E secs \in [1 .. n -> Inline] :
                   /\ drafted' = secs
                   /\ body' = [steps |-> steps, sections |-> secs, binding |-> ok]
            /\ passes' = passes \ {"body"}
            /\ UNCHANGED << pc, after, failed, descOk, written, revised, skill, files, gens >>

\* The resources pass writes every planned file; one call per file.
ResourcesPass == /\ "resources" \in passes
                 /\ written' = Plan
                 /\ passes' = passes \ {"resources"}
                 /\ UNCHANGED << pc, after, failed, drafted, body, descOk, revised, skill,
                                 files, gens >>

DescriptionPass == /\ "description" \in passes
                   /\ descOk' \in BOOLEAN
                   /\ passes' = passes \ {"description"}
                   /\ UNCHANGED << pc, after, failed, drafted, body, written, revised, skill,
                                   files, gens >>

PassFails(p) == /\ p \in passes
                /\ failed' = TRUE /\ passes' = passes \ {p}
                /\ UNCHANGED << pc, after, drafted, body, descOk, written, revised, skill,
                                files, gens >>

Proceeds == ~ failed

\* Generate waits for all three, and one failure ends it.
PassesEnd == /\ pc = "passes" /\ passes = {}
             /\ \/ /\ Proceeds
                   /\ pc' = "skill" /\ after' = "offload"
                   /\ UNCHANGED << passes, failed, drafted, body, descOk, written, revised,
                                   skill, files, gens >>
                \/ ~ Proceeds /\ Ends

\* assemble: SKILL.md, then the resources one by one.
WriteSkill == /\ pc = "skill"
              /\ skill' = [body |-> body, descOk |-> descOk]
              /\ pc' = "files"
              /\ UNCHANGED << after, passes, failed, drafted, body, descOk, written, revised,
                              files, gens >>

WriteFiles == /\ pc = "files"
              /\ files' = Over(files, written)
              /\ pc' = after
              /\ UNCHANGED << after, passes, failed, drafted, body, descOk, written, revised,
                              skill, gens >>

(* mutant: a section's file takes its heading's slug whoever has it *)
SlugOnly(h, used) == << h, 1 >>

\* uniqueSlug: the first number not used by this generation's files.
Slug(h, used) == CHOOSE s \in Slugs : /\ s[1] = h /\ s \notin used
                                      /\ \A n \in 1 .. s[2] - 1 : << h, n >> \in used

\* offloadOverBudgetSections, heaviest first.  refs is what it has moved so far.
Candidates(b) == {i \in 1 .. Len(b.sections) : b.sections[i].link = None}
Heaviest(b) == CHOOSE i \in Candidates(b) :
                   \A j \in Candidates(b) : b.sections[i].weight >= b.sections[j].weight
Move(st) ==
    LET i == Heaviest(st.body)
        sec == st.body.sections[i]
        ref == Slug(sec.heading, DOMAIN written \cup DOMAIN st.refs)
    IN [body |-> [st.body EXCEPT !.sections[i] =
                     [heading |-> sec.heading, weight |-> StubWeight, link |-> ref]],
        refs |-> Over(st.refs, [s \in {ref} |-> sec]),
        moved |-> st.moved + 1]
Offloaded ==
    LET after_[n \in Nat] ==
            IF n = 0 THEN [body |-> body, refs |-> Nothing, moved |-> 0]
            ELSE LET st == after_[n - 1] IN
                 IF \/ WeightTo(st.body) <= Budget \/ Candidates(st.body) = {}
                    \/ st.moved >= MaxReferences
                 THEN st ELSE Move(st)
    IN after_[MaxSections]

\* offloadIfOverBudget
Offload == /\ pc = "offload"
           /\ IF /\ "body-token-budget" \in Findings(skill, files)
                 /\ Candidates(body) # {}
              THEN /\ body' = Offloaded.body
                   /\ written' = Over(written, Offloaded.refs)
                   /\ pc' = "skill" /\ after' = "revise"
              ELSE /\ pc' = "revise" /\ UNCHANGED << body, written, after >>
           /\ UNCHANGED << passes, failed, drafted, descOk, revised, skill, files, gens >>

\* One turn of reviseUntilClean: the passes that own a finding rewrite their text.
Revise ==
    /\ pc = "revise"
    /\ LET found == Findings(skill, files) IN
       IF revised < MaxRevisions /\ found \cap (BodyOwned \cup DescOwned) # {}
       THEN /\ \/ found \cap BodyOwned = {} /\ UNCHANGED body
               \/ /\ found \cap BodyOwned # {}
                  /\ \E steps \in StepWeights, ok \in BOOLEAN, keep \in BOOLEAN :
                       body' = [steps |-> steps, binding |-> ok,
                                sections |-> IF keep THEN body.sections ELSE << >>]
            /\ IF found \cap DescOwned = {} THEN UNCHANGED descOk ELSE descOk' \in BOOLEAN
            /\ revised' = revised + 1
            /\ pc' = "skill" /\ after' = "revise"
       ELSE pc' = "lint" /\ UNCHANGED << body, descOk, revised, after >>
    /\ UNCHANGED << passes, failed, drafted, written, skill, files, gens >>

\* RunGen lints the bundle once more; a finding is its exit code.
Lint == pc = "lint" /\ Ends

\* A revision's model call fails, or the command is interrupted: what is on disk stays.
Stop == pc \notin {"idle", "passes", "lint"} /\ Ends

Next == \/ Begin \/ BodyPass \/ ResourcesPass \/ DescriptionPass
        \/ (\E p \in {"body", "resources", "description"} : PassFails(p)) \/ PassesEnd
        \/ WriteSkill \/ WriteFiles \/ Offload \/ Revise \/ Lint \/ Stop

Spec == Init /\ [][Next]_vars

-----------------------------------------------------------------------------
\* Bodies are sequences of sections and files have content.
TypeOK == /\ pc \in {"idle", "passes", "skill", "files", "offload", "revise", "lint"}
          /\ body \in Bodies /\ descOk \in BOOLEAN
          /\ skill # None => skill.body \in Bodies
          /\ DOMAIN files \subseteq Slugs /\ DOMAIN written \subseteq Slugs
          /\ revised \in 0 .. MaxRevisions /\ gens \in 0 .. MaxGens

\* What a generation writes is whole.  When no revision rewrote the body, every section
\* the body pass drafted is on disk: in SKILL.md, or alone and complete in the file its
\* link names; and every file the specification plans is there and is not one of them
\* (cli/whetstone/gen/offload.go:71-131), whatever earlier generations left behind.
NothingIsDropped ==
    pc = "lint" =>
        /\ revised = 0 =>
               \A i \in 1 .. Len(drafted) :
                   LET sec == skill.body.sections[i] IN
                   IF sec.link = None THEN sec = drafted[i] ELSE files[sec.link] = drafted[i]
        /\ \A h \in Planned : files[<< h, 1 >>] = PlannedText(h)

\* A generation one of whose passes failed leaves the bundle as it was
\* (cli/whetstone/gen/gen.go:43-54).
FailedPassesWriteNothing == failed => UNCHANGED << skill, files >>

\* cli/whetstone/gen/revise.go:49-50: the offload "costs nothing and is guaranteed to shrink
\* the body".
OffloadShrinks == [][pc = "offload" /\ body' # body => WeightTo(body') < WeightTo(body)]_vars
=============================================================================
