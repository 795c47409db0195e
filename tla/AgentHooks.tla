----------------------------- MODULE AgentHooks -----------------------------
(* The hooks skael keeps in the config files of coding agents, which belong  *)
(* to their users (cli/hooks/install.go): one that reports activations and   *)
(* one that starts a sync. Codex's is a text whose blocks are found by their *)
(* marker lines; Claude Code's and Cursor's are lists in a JSON document,    *)
(* where each entry says who manages it. OpenCode has a file of its own.     *)
(* skael hook install, setup and pull install; skael hook uninstall removes. *)
(* Assumed: nobody else writes a file while it is rewritten, and users leave *)
(* the marker lines alone.                                                   *)
EXTENDS Naturals, Sequences, SequencesExt

CONSTANTS Lines,    \* what users write: lines, entries
          MaxLines  \* bound: what users write, in all their files together

VARIABLES toml,      \* Codex: the lines of config.toml
          matchers,  \* Claude Code: PreToolUse, a list of matchers' hooks
          events,    \* Claude Code's UserPromptSubmit, Cursor's sessionStart
          plugin     \* OpenCode: the plugin file is there

vars == <<toml, matchers, events, plugin>>

(* The two kinds of hook; the markers of one begin like those of the other.  *)
Kinds == {"act", "sync"}
Start(kind) == <<"start", kind>>
End(kind) == <<"end", kind>>
Body(kind) == <<"hook", kind>>
Block(kind) == <<Start(kind), Body(kind), End(kind)>>
Marks == {Start(k): k \in Kinds} \cup {End(k): k \in Kinds} \cup {Body(k): k \in Kinds}

TypeOK ==
  /\ toml \in Seq(Lines \cup Marks)
  /\ matchers \in Seq(Seq(Lines \cup {Body("act")}))
  /\ events \in Seq(Lines \cup {Body("sync")})
  /\ plugin \in BOOLEAN

Init ==
  /\ toml = <<>>
  /\ matchers = <<>>
  /\ events = <<>>
  /\ plugin = FALSE

Users(s) == SelectSeq(s, LAMBDA l: l \in Lines)

(* What users do to their files: a line anywhere but in a block, an entry, a *)
(* hook of theirs beside skael's under one matcher.                          *)
InBlock(s, i) == \E k \in Kinds: \E a \in 1..i: s[a] = Start(k) /\ \A b \in a..i: s[b] # End(k)
UserWrites ==
  /\ Len(Users(toml)) + Len(Users(FlattenSeq(matchers))) + Len(Users(events)) < MaxLines
  /\ \E l \in Lines:
       \/ /\ \E i \in 0..Len(toml): /\ ~InBlock(toml, i)
                                    /\ toml' = InsertAt(toml, i + 1, l)
          /\ UNCHANGED <<matchers, events, plugin>>
       \/ /\ \/ matchers' = Append(matchers, <<l>>)
             \/ \E i \in DOMAIN matchers: matchers' = [matchers EXCEPT ![i] = Append(@, l)]
          /\ UNCHANGED <<toml, events, plugin>>
       \/ /\ events' = Append(events, l)
          /\ UNCHANGED <<toml, matchers, plugin>>

-----------------------------------------------------------------------------
(* A block is there when a line is its start marker.                         *)
HasBlock(s, kind) == Contains(s, Start(kind))

(* From a start marker to its end marker, lines are dropped and the new      *)
(* block stands for them.                                                    *)
Replaced(s, kind, by) ==
  FoldLeft(LAMBDA acc, l:
      IF l = Start(kind) THEN [inside |-> TRUE, out |-> acc.out \o by]
      ELSE IF acc.inside THEN [acc EXCEPT !.inside = l # End(kind)]
      ELSE [acc EXCEPT !.out = Append(@, l)],
    [inside |-> FALSE, out |-> <<>>], s).out

InstallCodex(kind) ==
  /\ toml' = IF HasBlock(toml, kind) THEN Replaced(toml, kind, Block(kind)) ELSE toml \o Block(kind)
  /\ UNCHANGED <<matchers, events, plugin>>

UninstallCodex(kind) ==
  /\ toml' = Replaced(toml, kind, <<>>)
  /\ UNCHANGED <<matchers, events, plugin>>

-----------------------------------------------------------------------------
(* Claude Code's activation hook: the command is replaced where skael's      *)
(* entry is, under whatever matcher; otherwise a matcher is appended.        *)
IsIn(list, kind) == Contains(list, Body(kind))

Placed(ms) ==
  IF \E i \in DOMAIN ms: IsIn(ms[i], "act") THEN ms ELSE Append(ms, <<Body("act")>>)
InstallClaude ==
  /\ matchers' = Placed(matchers)
  /\ UNCHANGED <<toml, events, plugin>>

(* skael's entries leave their matchers, and matchers left empty go.         *)
WithoutHooks(ms) == SelectSeq([i \in DOMAIN ms |-> Users(ms[i])], LAMBDA m: m # <<>>)

UninstallClaude ==
  /\ matchers' = WithoutHooks(matchers)
  /\ UNCHANGED <<toml, events, plugin>>

(* The list whose entries are the hooks themselves: Claude Code's and        *)
(* Cursor's auto-sync, and Cursor's activation hook alike.                   *)
EventPlaced(list) == IF IsIn(list, "sync") THEN list ELSE Append(list, Body("sync"))
EventCleared(list) == Users(list)

InstallEvent ==
  /\ events' = EventPlaced(events)
  /\ UNCHANGED <<toml, matchers, plugin>>

UninstallEvent ==
  /\ events' = EventCleared(events)
  /\ UNCHANGED <<toml, matchers, plugin>>

InstallOpenCode == plugin' = TRUE /\ UNCHANGED <<toml, matchers, events>>
UninstallOpenCode == plugin' = FALSE /\ UNCHANGED <<toml, matchers, events>>

(* Each agent's installer is called on its own, so a command may stop, or    *)
(* one agent's config be broken, between any two of them.                    *)
Skael ==
  \/ \E kind \in Kinds: InstallCodex(kind) \/ UninstallCodex(kind)
  \/ InstallClaude \/ UninstallClaude \/ InstallEvent \/ UninstallEvent
  \/ InstallOpenCode \/ UninstallOpenCode

Next == UserWrites \/ Skael
Spec == Init /\ [][Next]_vars

-----------------------------------------------------------------------------
(* Whatever is installed, installed again or removed, in whatever order, the *)
(* users' own lines and hooks stay, in their order and under their matchers. *)
KeepsUsersStep ==
  Skael => /\ Users(toml') = Users(toml)
           /\ Users(events') = Users(events)
           /\ WithoutHooks(matchers') = WithoutHooks(matchers)

(* The two hooks do not know each other: installing or removing one leaves   *)
(* the other as it was, though "# managed_by = skael" is how the markers of  *)
(* both begin (install.go:327-330).                                          *)
Starts(s, kind) == Contains(s, Body(kind))
ApartStep ==
  \A kind \in Kinds:
    /\ InstallCodex(kind) => Starts(toml', kind)
    /\ UninstallCodex(kind) => ~Starts(toml', kind)
    /\ InstallCodex(kind) \/ UninstallCodex(kind) =>
         \A other \in Kinds \ {kind}: Starts(toml', other) = Starts(toml, other)

(* However often a hook is installed, an agent runs it once.                 *)
OneOfEach ==
  /\ \A kind \in Kinds: Len(SelectSeq(toml, LAMBDA l: l = Body(kind))) =
                        (IF Contains(toml, Start(kind)) THEN 1 ELSE 0)
  /\ Len(SelectSeq(FlattenSeq(matchers), LAMBDA l: l = Body("act"))) <= 1
  /\ Len(SelectSeq(events, LAMBDA l: l = Body("sync"))) <= 1
=============================================================================
