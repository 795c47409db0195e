---------------------------- MODULE SkillAuthoring ----------------------------
(***************************************************************************)
(* Writing one skill with whetstone: `new`, `spec edit`, `spec approve`,   *)
(* `gen`, `suite gen`, `tune`, `propose` and `suite push` over one         *)
(* workspace (cli/whetstone, internal/eval/store).                         *)
(*                                                                         *)
(* The workspace keeps the skill's specifications as numbered versions,    *)
(* each approved or not, the YAML file the author edits, the bundle on     *)
(* disk, the eval set (evals.json and triggers.json) and the ref of the    *)
(* set a command last wrote.  Every command is a process of its own: it    *)
(* reads, waits minutes for a model, and writes one statement or one file  *)
(* at a time, while other commands and the author's editor do the same.    *)
(*                                                                         *)
(* A specification is what the author changed in it and its description;   *)
(* an eval set is two drafts.  What a model answers is any member of a     *)
(* small set.                                                              *)
(***************************************************************************)
EXTENDS Naturals, Sequences

CONSTANTS
    Commands,     \* whetstone processes
    Edits,        \* what an author may change in a specification
    Descriptions, \* the descriptions a model may write
    Drafts,       \* the eval sets a model may write
    Hands,        \* the eval sets a person may write
    None,
    MaxVersion,   \* bound: specification versions
    MaxFaults     \* bound: commands stopped half way

VARIABLES
    specs,     \* sequence of [text, approved]: the specs table, by version
    file,      \* the YAML file: a specification, or None
    bundle,    \* None, or the version SKILL.md was generated from, 0 for none, and
               \* the description a command put into it, None for other prose
    suite,     \* [evals, triggers]: the eval set's two files
    machine,   \* None, or the eval set as the last write of a command left it
    generated, \* the suite_generated row: a set, or None
    cmd,       \* what each process is doing
    faults,
    clean      \* no command was stopped, and none met another or an editor

vars == << specs, file, bundle, suite, machine, generated, cmd, faults, clean >>
workspace == << specs, file, bundle, suite, machine, generated >>

Text  == [edits : SUBSET Edits, desc : Descriptions]
Files == [evals : Drafts \cup Hands \cup {None}, triggers : Drafts \cup Hands \cup {None}]
Kinds == {"new", "edit", "approve", "gen", "suite", "tune", "propose", "push"}
Steps == {"end", "editor", "row", "file", "approve", "bundle", "patch", "files",
          "model", "pack", "upload"}
Sides == {"none", "evals", "triggers", "hash", "record"}
Idle  == [kind |-> "none", at |-> "end", side |-> "none", text |-> None,
          open |-> None, ver |-> 0, ref |-> None, set |-> None,
          sent |-> None]

Latest    == specs[Len(specs)]
Stored    == specs # << >>
Active(c) == cmd[c].kind # "none"

\* One main step and, for the commands that write an eval set, one side step.
At(c, step)   == Active(c) /\ cmd[c].at = step
Side(c, step) == Active(c) /\ cmd[c].side = step
Go(c, step)   == cmd' = [cmd EXCEPT ![c].at = step]

Init == /\ specs = << >> /\ file = None /\ bundle = None
        /\ suite = [evals |-> None, triggers |-> None] /\ machine = None
        /\ generated = None
        /\ cmd = [c \in Commands |-> Idle]
        /\ faults = 0 /\ clean = TRUE

-----------------------------------------------------------------------------
(* Starting a command.                                                     *)

Run(c, rec) == /\ ~ Active(c)
               /\ cmd' = [cmd EXCEPT ![c] = rec]
               /\ clean' = (clean /\ \A o \in Commands : ~ Active(o))
               /\ UNCHANGED << specs, bundle, suite, machine, generated, faults >>

(* mutant: the latest version is used whether approved or not *)
ApprovedAny == Stored

\* loadApprovedSpec: the latest version, if that version is the approved one.
Approved == Stored /\ Latest.approved

\* spec.Interview drafts a specification, and `new` stores it.
New(c) == \E d \in Descriptions :
    /\ Run(c, [Idle EXCEPT !.kind = "new", !.at = "row",
                           !.text = [edits |-> {}, desc |-> d]])
    /\ UNCHANGED file

\* RunSpecEdit reads the latest row, restores a missing file and opens the editor.
Edit(c) == /\ Stored
           /\ file' = IF file = None THEN Latest.text ELSE file
           /\ Run(c, [Idle EXCEPT !.kind = "edit", !.at = "editor",
                                  !.text = Latest.text, !.open = file'])

\* RunSpecApprove approves the version it found to be the latest.
ApproveLatest(c) == /\ Stored
                    /\ Run(c, [Idle EXCEPT !.kind = "approve", !.at = "approve",
                                           !.ver = Len(specs)])
                    /\ UNCHANGED file

Gen(c) == /\ Approved
          /\ Run(c, [Idle EXCEPT !.kind = "gen", !.at = "bundle", !.ver = Len(specs)])
          /\ UNCHANGED file

SuiteGen(c) == /\ Approved
               /\ Run(c, [Idle EXCEPT !.kind = "suite", !.side = "evals"])
               /\ UNCHANGED file

\* RunTuneWith reads the latest specification, SKILL.md and the trigger set.  It
\* tops a short set up (Apply is the default) before it tunes, and an empty one is
\* short.
Tune(c) == \E short \in BOOLEAN :
    /\ Stored /\ bundle # None /\ (suite.triggers # None \/ short)
    /\ Run(c, [Idle EXCEPT !.kind = "tune", !.at = "model", !.text = Latest.text,
                           !.side = IF short THEN "triggers" ELSE "none"])
    /\ UNCHANGED file

\* RunProposeWith reads the prose, and the specification if one is stored; it reads
\* that again when it applies.
Propose(c) == /\ bundle # None
              /\ Run(c, [Idle EXCEPT !.kind = "propose", !.at = "model",
                                     !.text = IF Stored THEN Latest.text ELSE None])
              /\ UNCHANGED file

\* RunSuitePush hashes the directory first.
Push(c) == /\ Stored /\ suite.evals # None
           /\ Run(c, [Idle EXCEPT !.kind = "push", !.at = "pack", !.ref = suite])
           /\ UNCHANGED file

-----------------------------------------------------------------------------
(* The steps of a command.                                                 *)

\* The author leaves the editor: it writes its buffer, or nothing.  What the file
\* holds then is stored unless it is the specification read at the start.
Editor(c) == /\ At(c, "editor")
             /\ \E more \in SUBSET Edits :
                    file' \in {file, [cmd[c].open EXCEPT !.edits = @ \cup more]}
             /\ cmd' = [cmd EXCEPT ![c].text = file',
                            ![c].at = IF file' = cmd[c].text THEN "end" ELSE "row"]
             /\ UNCHANGED << specs, bundle, suite, machine, generated, faults, clean >>

\* SaveSpec commits the row, then rewrites the file.
SaveRow(c) == /\ At(c, "row") /\ Len(specs) < MaxVersion
              /\ specs' = Append(specs, [text |-> cmd[c].text, approved |-> FALSE])
              /\ cmd' = [cmd EXCEPT ![c].at = "file", ![c].ver = Len(specs) + 1]
              /\ UNCHANGED << file, bundle, suite, machine, generated, faults, clean >>

Rewritten(c) == cmd[c].text

SaveFile(c) == /\ At(c, "file")
               /\ file' = Rewritten(c)
               /\ Go(c, "approve")
               /\ UNCHANGED << specs, bundle, suite, machine, generated, faults, clean >>

\* ApproveSpec, and what each command does after it.
Approve(c) ==
    /\ At(c, "approve")
    /\ specs' = [specs EXCEPT ![cmd[c].ver].approved = TRUE]
    /\ cmd' = [cmd EXCEPT
           ![c].at   = CASE @ = "approve" /\ cmd[c].kind = "new" -> "bundle"
                         [] cmd[c].kind \in {"tune", "propose"}  -> "patch"
                         [] OTHER                                -> "end",
           ![c].side = IF cmd[c].kind = "new" THEN "evals" ELSE @]
    /\ UNCHANGED << file, bundle, suite, machine, generated, faults, clean >>

\* gen.Generate writes the bundle; its description is a model's.
WriteBundle(c) == /\ At(c, "bundle")
                  /\ bundle' = [ver |-> cmd[c].ver, desc |-> None]
                  /\ Go(c, "end")
                  /\ UNCHANGED << specs, file, suite, machine, generated, faults, clean >>

\* A tuned description goes into the specification read at the start, a proposed one
\* into the latest.
Base(c) == IF cmd[c].kind = "tune" THEN cmd[c].text ELSE Latest.text

\* tune.Run keeps the description or finds a better one.  A proposal that is applied
\* has a new description, files of the bundle written anew, or both.
Answered(c) ==
    /\ At(c, "model") /\ Side(c, "none")
    /\ \/ Go(c, "end")
       \/ cmd[c].kind = "propose" /\ Go(c, "files")
       \/ /\ cmd[c].text # None
          /\ \E d \in Descriptions :
                /\ cmd[c].kind = "tune" => d # Base(c).desc
                /\ cmd' = [cmd EXCEPT ![c].at = "row", ![c].text = [Base(c) EXCEPT !.desc = d]]
    /\ UNCHANGED << workspace, faults, clean >>

\* RewriteDescription leaves the body alone.
Patch(c) == /\ At(c, "patch")
            /\ bundle' = [bundle EXCEPT !.desc = cmd[c].text.desc]
            /\ Go(c, IF cmd[c].kind = "propose" THEN "files" ELSE "end")
            /\ UNCHANGED << specs, file, suite, machine, generated, faults, clean >>

\* A proposal then writes each changed file as the model returned it.  Where SKILL.md
\* is one of them, its description is the model's again.
WriteFiles(c) == /\ At(c, "files")
                 /\ bundle' \in {bundle, [bundle EXCEPT !.desc = None]}
                 /\ Go(c, "end")
                 /\ UNCHANGED << specs, file, suite, machine, generated, faults, clean >>

\* generateSuite: evals.json, then triggers.json, then the ref of the directory.
WriteEvals(c) == /\ Side(c, "evals")
                 /\ \E d \in Drafts : suite' = [suite EXCEPT !.evals = d]
                 /\ machine' = suite'
                 /\ cmd' = [cmd EXCEPT ![c].side = "triggers"]
                 /\ UNCHANGED << specs, file, bundle, generated, faults, clean >>

\* Every command that writes triggers.json records the set next.
AfterTriggers(c) == "hash"

\* A set grown by tuning is written over the set it was read from.
WriteTriggers(c) == /\ Side(c, "triggers")
                    /\ \E d \in Drafts : suite' = [suite EXCEPT !.triggers = d]
                    /\ machine' = suite'
                    /\ cmd' = [cmd EXCEPT ![c].side = AfterTriggers(c)]
                    /\ UNCHANGED << specs, file, bundle, generated, faults, clean >>

\* recordGeneratedRef: the hash of what is there now, then the row.
HashSet(c) == /\ Side(c, "hash")
              /\ cmd' = [cmd EXCEPT ![c].ref = suite, ![c].side = "record"]
              /\ UNCHANGED << workspace, faults, clean >>

RecordRef(c) == /\ Side(c, "record")
                /\ generated' = cmd[c].ref
                /\ cmd' = [cmd EXCEPT ![c].side = "none", ![c].ref = None]
                /\ UNCHANGED << specs, file, bundle, suite, machine, faults, clean >>

\* A push packs the directory, compares the hash it took with the recorded one, and
\* uploads.  A server that refuses the field is sent the same set without it.
Pack(c) == /\ At(c, "pack")
           /\ cmd' = [cmd EXCEPT ![c].at = "upload",
                          ![c].set = [files |-> suite, byHand |-> suite # machine]]
           /\ UNCHANGED << workspace, faults, clean >>

Unreviewed(c) == generated # None /\ generated = cmd[c].ref

Upload(c) == /\ At(c, "upload")
             /\ cmd' = [cmd EXCEPT ![c].sent = Unreviewed(c), ![c].at = "end"]
             /\ UNCHANGED << workspace, faults, clean >>

Done(c) == /\ At(c, "end") /\ Side(c, "none")
           /\ cmd' = [cmd EXCEPT ![c] = Idle]
           /\ UNCHANGED << workspace, faults, clean >>

\* An error, a timeout or Ctrl-C: the command stops and undoes nothing.
Stop(c) == /\ Active(c) /\ ~ (At(c, "end") /\ Side(c, "none")) /\ faults < MaxFaults
           /\ cmd' = [cmd EXCEPT ![c] = Idle]
           /\ faults' = faults + 1
           /\ clean' = FALSE
           /\ UNCHANGED workspace

-----------------------------------------------------------------------------
(* The author's editor, outside any command.                               *)

EditSuite == /\ suite.evals # None
             /\ \E h \in Hands : suite' \in {[suite EXCEPT !.evals = h],
                                             [suite EXCEPT !.triggers = h]}
             /\ suite' # suite
             /\ clean' = (clean /\ \A c \in Commands : ~ Active(c))
             /\ UNCHANGED << specs, file, bundle, machine, generated, cmd, faults >>

EditFile == /\ file # None
            /\ \E e \in Edits : file' = [file EXCEPT !.edits = @ \cup {e}]
            /\ clean' = (clean /\ \A c \in Commands : ~ Active(c))
            /\ UNCHANGED << specs, bundle, suite, machine, generated, cmd, faults >>

\* Somebody places a SKILL.md, or writes over it.
EditBundle == /\ bundle' = [ver |-> IF bundle = None THEN 0 ELSE bundle.ver, desc |-> None]
              /\ UNCHANGED << specs, file, suite, machine, generated, cmd, faults, clean >>

Start(c) == New(c) \/ Edit(c) \/ ApproveLatest(c) \/ Gen(c) \/ SuiteGen(c) \/ Tune(c)
            \/ Propose(c) \/ Push(c)

Step(c) == \/ Editor(c) \/ SaveRow(c) \/ SaveFile(c) \/ Approve(c) \/ WriteBundle(c)
           \/ Answered(c) \/ Patch(c) \/ WriteFiles(c) \/ WriteEvals(c) \/ WriteTriggers(c) \/ HashSet(c)
           \/ RecordRef(c) \/ Pack(c) \/ Upload(c) \/ Done(c)

Next == EditSuite \/ EditFile \/ EditBundle \/ \E c \in Commands : Start(c) \/ Step(c) \/ Stop(c)

Spec == Init /\ [][Next]_vars

-----------------------------------------------------------------------------
\* Versions are texts, files are sets of drafts, and a command is at one of its steps.
TypeOK ==
    /\ specs \in Seq([text : Text, approved : BOOLEAN]) /\ Len(specs) <= MaxVersion
    /\ file \in Text \cup {None}
    /\ bundle \in [ver : 0 .. MaxVersion, desc : Descriptions \cup {None}] \cup {None}
    /\ suite \in Files /\ machine \in Files \cup {None} /\ generated \in Files \cup {None}
    /\ \A c \in Commands : /\ cmd[c].kind \in Kinds \cup {"none"}
                           /\ cmd[c].at \in Steps /\ cmd[c].side \in Sides
                           /\ cmd[c].ver \in 0 .. Len(specs)
                           /\ cmd[c].sent # None => cmd[c].set.byHand \in BOOLEAN
    /\ faults \in 0 .. MaxFaults /\ clean \in BOOLEAN

\* What commands put on disk was approved (cli/whetstone/spec.go:174-176: "running either
\* from an unapproved spec is how an unreviewed change reaches a bundle").  The version
\* SKILL.md was generated from is approved, and so is a version with the description that
\* tuning or a proposal gave it, whichever command was stopped between storing a version
\* and approving it.  Prose that a generation, a proposal's files or an editor wrote into
\* SKILL.md since stands for itself.
BundleIsApproved ==
    bundle # None =>
        /\ bundle.ver # 0 => specs[bundle.ver].approved
        /\ bundle.desc # None =>
               \E v \in 1 .. Len(specs) : specs[v].approved /\ specs[v].text.desc = bundle.desc

\* Commands run one after the other declare an eval set unreviewed exactly when it is as
\* a command left it: a person has not changed it since, or has undone it all
\* (cli/whetstone/suite.go:86-96), whichever of the commands that write sets it was.
SetsAreDeclared ==
    \A c \in Commands :
        clean /\ cmd[c].sent # None => (cmd[c].sent <=> ~ cmd[c].set.byHand)

\* Commands run one after the other lose nobody's work: a version stored by an edit keeps
\* the description that was tuned before it, and one stored by tuning or by a proposal
\* keeps the author's changes (cli/whetstone/spec.go:88-97, internal/eval/store/spec.go:62-73).
\* Only `new` starts again from nothing.
BuildsOnTheLatestStep ==
    (clean /\ Stored /\ Len(specs') > Len(specs)) =>
        \/ \E c \in Commands : cmd[c].kind = "new" /\ cmd[c] # cmd'[c]
        \/ /\ Latest.text.edits \subseteq specs'[Len(specs')].text.edits
           /\ \/ specs'[Len(specs')].text.desc = Latest.text.desc
              \/ specs'[Len(specs')].text.edits = Latest.text.edits

\* cli/whetstone/spec.go:88-90: "SaveSpec rewrites it after every store, so an existing
\* file is either identical to the stored spec or carries hand edits the author has not
\* saved yet".
FileIsTheSpec ==
    (file # None /\ \A c \in Commands : ~ Active(c)) =>
        \E more \in SUBSET Edits : file = [Latest.text EXCEPT !.edits = @ \cup more]

\* cli/whetstone/suite.go:91-94: a set a machine wrote is declared as one, because its score
\* must not clear a scan hold with no reader.
MachineSetsAreDeclared ==
    \A c \in Commands : cmd[c].sent # None /\ ~ cmd[c].set.byHand => cmd[c].sent
=============================================================================
