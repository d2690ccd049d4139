------------------------------- MODULE Commit -------------------------------
(***************************************************************************)
(* Committing a plan to the live tree (sync/commit.rs), attempt after      *)
(* attempt.                                                                *)
(*                                                                         *)
(* An attempt compares the source tree with the live one.  Operations are  *)
(* staged as their transfers end, in any order, into a map keyed by        *)
(* operation id, while the live tree is left alone (module Session); when  *)
(* the whole plan is staged, the committer takes them by their ids.  Its   *)
(* calls on the tree are made one by one: an I/O error or a crash may stop *)
(* it between any two of them, and nothing but the live tree survives.     *)
(***************************************************************************)
EXTENDS Tree

CONSTANTS
    SourceTrees,  \* the trees the source may hold
    LiveTrees,    \* the trees the destination may hold before the first sync
    RuleSets,     \* the ignore rules of the .gitignore files both sides hold
    Exclusions,   \* the source configuration's global_exclusions, as rules
    MaxAttempts,  \* bound on the number of attempts
    MaxFaults     \* bound on the number of I/O errors and crashes

ASSUME TreesAssumption ==
    \A t \in SourceTrees \cup LiveTrees :
        t \in [Universe -> Entry] /\ IsTree(t) /\ IsNormal(t)

ASSUME BoundsAssumption == MaxAttempts \in Nat /\ MaxFaults \in Nat

VARIABLES
    source,    \* the source tree, stable during and between the attempts
    rules,     \* the ignore rules
    live,      \* the destination tree
    base,      \* the destination tree as the attempt began
    phase,     \* "idle", "staging", "committing", "done", "failed" or "stopped"
    earlier,   \* the phase the attempt began from
    plan,      \* the operations of the attempt
    changes,   \* PendingCommit.changes: those staged and not yet applied
    pending,   \* Committer.pending: a stack of directories with their actions
    previous,  \* Committer.previous: the path last applied, or <<>>
    calls,     \* calls of the operation or directory being worked on
    touched,   \* the directories whose mode any attempt has written
    attempts, faults

committer == <<changes, pending, previous, calls>>
vars == <<source, rules, live, base, phase, earlier, plan, committer, touched,
          attempts, faults>>

-----------------------------------------------------------------------------
(***************************************************************************)
(* What the two sides list.  The source applies its configured exclusions, *)
(* the destination scans with none of its own.                             *)
(***************************************************************************)
SourceRules == rules \cup Exclusions

SourceIndex == Scan(source, SourceRules)

DestinationIndex == Scan(live, rules)

Init ==
    /\ source \in SourceTrees
    /\ live \in LiveTrees
    /\ rules \in RuleSets
    /\ base = live
    /\ phase = "idle" /\ earlier = "idle"
    /\ plan = {} /\ changes = {} /\ pending = <<>> /\ previous = <<>> /\ calls = <<>>
    /\ touched = {}
    /\ attempts = 0 /\ faults = 0

Active == phase \in {"staging", "committing"}

\* A fresh attempt: nothing of an earlier one is kept.
Begin ==
    /\ ~Active
    /\ attempts < MaxAttempts
    /\ attempts' = attempts + 1
    /\ base' = live
    /\ phase' = "staging"
    /\ earlier' = phase
    /\ plan' = Difference(SourceIndex, DestinationIndex)
    /\ changes' = {}
    /\ pending' = <<>>
    /\ previous' = <<>>
    /\ calls' = <<>>
    /\ UNCHANGED <<source, rules, live, touched, faults>>

\* PendingCommit::stage, when the transfer of a file or a local operation is
\* done.  An id comes once, so nothing is refused as a duplicate.
Stage(o) ==
    /\ phase = "staging"
    /\ o \in plan \ changes
    /\ changes' = changes \cup {o}
    /\ UNCHANGED <<source, rules, live, base, phase, earlier, plan, pending, previous,
                   calls, touched, attempts, faults>>

\* PendingCommit::commit, with the whole plan staged.
StartCommit ==
    /\ phase = "staging" /\ changes = plan
    /\ phase' = "committing"
    /\ UNCHANGED <<source, rules, live, base, earlier, plan, committer, touched,
                   attempts, faults>>

-----------------------------------------------------------------------------
(***************************************************************************)
(* The committer.                                                          *)
(***************************************************************************)
Path(o) == o.record.path

\* Plan order: by path, a Delete before the upsert of the same path.
Precedes(o, x) ==
    \/ Before(Path(o), Path(x))
    \/ Path(o) = Path(x) /\ o.op = "Delete" /\ x.op # "Delete"

\* The planner counts the operations it sends, in plan order (module Planner).
Id(o) == Cardinality({x \in plan : Precedes(x, o)}) + 1

\* The next entry of the BTreeMap.
IsNext(o) == o \in changes /\ \A x \in changes \ {o} : Id(o) < Id(x)

Ready == phase = "committing" /\ calls = <<>>

Top == pending[Len(pending)]

\* The loop of `apply`: directories that are not above the path come first.
InTop(p) == pending # <<>> => StartsWith(p, Top.path)

OutOfOrder(p) == previous # <<>> /\ Before(p, previous)

CallsFor(names, r) == [i \in 1..Len(names) |-> [name |-> names[i], record |-> r]]

SymlinkCalls == <<"clear", "symlink", "utimes">>

ReplacingDirectory(p) ==
    /\ pending # <<>>
    /\ Top.path = p
    /\ \E i \in 1..Len(Top.actions) : Top.actions[i].name = "rmdir"

Defer(p, actions) ==
    IF pending # <<>> /\ Top.path = p
    THEN [pending EXCEPT ![Len(pending)].actions = @ \o actions]
    ELSE Append(pending, [path |-> p, actions |-> actions])

\* The directory's children come later in the plan: remove it, and install
\* what replaces it, once they are gone.
DeferredCalls(o) ==
    CASE o.op = "Delete" /\ o.record.kind = "dir" -> <<"rmdir">>
      [] o.op = "UpsertDirectory"                 -> <<"chmod", "settle">>
      [] o.op = "UpsertFile" /\ ReplacingDirectory(Path(o)) -> <<"rename">>
      [] o.op = "UpsertSymlink" /\ ReplacingDirectory(Path(o)) -> SymlinkCalls
      [] OTHER                                    -> <<>>

\* Mutant: a file is unlinked before the new one is installed.
UnlinkThenRename(o) ==
    CASE o.op = "UpsertDirectory"                           -> <<"mkdir", "open">>
      [] o.op = "Delete" /\ DeferredCalls(o) = <<>>         -> <<"unlink">>
      [] o.op = "UpsertFile" /\ DeferredCalls(o) = <<>>     -> <<"clear", "rename">>
      [] o.op = "UpsertSymlink" /\ DeferredCalls(o) = <<>>  -> SymlinkCalls
      [] OTHER                                              -> <<>>

ImmediateCalls(o) ==
    CASE o.op = "UpsertDirectory"                           -> <<"mkdir", "open">>
      [] o.op = "Delete" /\ DeferredCalls(o) = <<>>         -> <<"unlink">>
      [] o.op = "UpsertFile" /\ DeferredCalls(o) = <<>>     -> <<"rename">>
      [] o.op = "UpsertSymlink" /\ DeferredCalls(o) = <<>>  -> SymlinkCalls
      [] OTHER                                              -> <<>>

Apply(o) ==
    /\ Ready
    /\ IsNext(o)
    /\ ~OutOfOrder(Path(o))
    /\ InTop(Path(o))
    /\ changes' = changes \ {o}
    /\ previous' = Path(o)
    /\ calls' = CallsFor(ImmediateCalls(o), o.record)
    /\ pending' = IF DeferredCalls(o) = <<>> THEN pending
                  ELSE Defer(Path(o), CallsFor(DeferredCalls(o), o.record))
    /\ UNCHANGED <<source, rules, live, base, phase, earlier, plan, touched,
                   attempts, faults>>

Refuse(o) ==
    /\ Ready
    /\ IsNext(o)
    /\ OutOfOrder(Path(o))
    /\ phase' = "failed"
    /\ UNCHANGED <<source, rules, live, base, earlier, plan, committer, touched,
                   attempts, faults>>

\* Mutant: only direct children keep a directory open.
MayFinishEarly ==
    /\ pending # <<>>
    /\ \A o \in changes :
          IsNext(o) => Path(o) # Top.path /\ Parent(Path(o)) # Top.path

\* `finish_directory`, from the loop of `apply` or from `finish`.
MayFinish ==
    /\ pending # <<>>
    /\ \A o \in changes : IsNext(o) => ~OutOfOrder(Path(o)) /\ ~InTop(Path(o))

FinishDirectory ==
    /\ Ready
    /\ MayFinish
    /\ calls' = Top.actions
    /\ pending' = SubSeq(pending, 1, Len(pending) - 1)
    /\ UNCHANGED <<source, rules, live, base, phase, earlier, plan, changes, previous,
                   touched, attempts, faults>>

\* One call on the live tree.  An error ends the commit: `?` returns it.
Execute ==
    /\ phase = "committing"
    /\ calls # <<>>
    /\ Succeeds(live, Head(calls))
    /\ live' = Effect(live, Head(calls))
    /\ calls' = Tail(calls)
    /\ touched' = IF Head(calls).name \in {"open", "chmod"}
                  THEN touched \cup {Path(Head(calls))} ELSE touched
    /\ UNCHANGED <<source, rules, base, phase, earlier, plan, changes, pending, previous,
                   attempts, faults>>

CallFails ==
    /\ phase = "committing"
    /\ calls # <<>>
    /\ ~Succeeds(live, Head(calls))
    /\ phase' = "failed"
    /\ UNCHANGED <<source, rules, live, base, earlier, plan, committer, touched,
                   attempts, faults>>

\* An error, a lost connection or the end of the process.  What was staged is
\* dropped with PendingCommit.
Interrupted ==
    /\ Active
    /\ faults < MaxFaults
    /\ faults' = faults + 1
    /\ phase' = "stopped"
    /\ UNCHANGED <<source, rules, live, base, earlier, plan, committer, touched, attempts>>

\* Mutant: the commit ends without `finish`.
CompleteWithoutFinish ==
    /\ Ready
    /\ changes = {}
    /\ phase' = "done"
    /\ UNCHANGED <<source, rules, live, base, earlier, plan, committer, touched,
                   attempts, faults>>

Complete ==
    /\ Ready
    /\ changes = {} /\ pending = <<>>
    /\ phase' = "done"
    /\ UNCHANGED <<source, rules, live, base, earlier, plan, committer, touched,
                   attempts, faults>>

Committing ==
    \/ \E o \in changes : Apply(o) \/ Refuse(o)
    \/ FinishDirectory \/ Execute \/ CallFails \/ Complete

\* No attempt is left.
Idle ==
    /\ ~Active
    /\ attempts = MaxAttempts
    /\ UNCHANGED vars

Next ==
    \/ Begin \/ StartCommit \/ Committing \/ Interrupted \/ Idle
    \/ \E o \in plan : Stage(o)

Spec == Init /\ [][Next]_vars

-----------------------------------------------------------------------------
(***************************************************************************)
(* Properties.                                                             *)
(***************************************************************************)

\* A directory is removed, or given its final mode and time, only when no
\* change at or below it is left to apply (finish_directory is called from the
\* pop loop, which relies on descendants being contiguous in the plan).
SettledLast ==
    phase = "committing" =>
        \A i \in 1..Len(calls), o \in changes :
            calls[i].name \in {"chmod", "settle", "rmdir"} =>
                ~StartsWith(Path(o), calls[i].record.path)

Untouchable(t, p, r) == Present(t, p) /\ ~Listed(t, p, r)

\* Whatever the destination's rules or the protected names keep out of its
\* index is left as it was, at every moment of every attempt: the commit fails
\* rather than remove or replace it.
IgnoredPreserved ==
    \A p \in Universe : Untouchable(base, p, rules) => live[p] = base[p]

SourceEntry(p) == IF Listed(source, p, SourceRules) THEN source[p] ELSE Absent

\* Wherever an attempt stops, a path holds its old content, its new content or
\* nothing, and a regular file that is updated is replaced in one step: its
\* path is never without the whole old or the whole new file (install renames
\* a staged file that already has its metadata).
OldOrNew ==
    \A p \in Universe :
        LET new == SourceEntry(p)
        IN  /\ \/ ~Present(live, p)
               \/ live[p].kind = base[p].kind /\ live[p].data = base[p].data
               \/ live[p].kind = new.kind /\ live[p].data = new.data
            /\ base[p].kind = "file" /\ new.kind = "file" =>
                  live[p] \in {base[p], new}

WithoutDirectoryTimes(index) ==
    {IF r.kind = "dir" THEN [r EXCEPT !.mtime = 0] ELSE r : r \in index}

\* After a commit that succeeds the destination lists what the source lists,
\* directory modification times aside: creations, updates, deletions and every
\* change of type, and also what an interrupted attempt left behind.  A
\* directory the plan writes has the time and mode of its record, however many
\* of its children were changed after `mkdir`.
Converged ==
    phase = "done" =>
        /\ WithoutDirectoryTimes(DestinationIndex) = WithoutDirectoryTimes(SourceIndex)
        /\ \A r \in SourceIndex :
              r.kind = "dir" /\ r \notin Scan(base, rules) => r \in DestinationIndex

\* A sync that follows a successful one leaves nothing to do: the directory
\* times the first one disturbed are settled by the second.
SecondSyncExact ==
    phase = "done" /\ earlier = "done" => DestinationIndex = SourceIndex

\* The only things that make a call of the commit fail, the injected faults
\* aside: its parent directory is not writable and no commit has ever written
\* that directory's mode, or something the destination ignores is in the way.
\* So a directory of the plan is writable while its children are written
\* (commit.rs:129), no attempt, interrupted at any call, leaves a directory
\* read-only with work to do in it for a later one, and `apply` never meets its
\* own error "operations are not in canonical discovery order".
BlockedOnly ==
    phase = "failed" =>
        /\ calls # <<>>
        /\ LET p == Path(Head(calls))
           IN  \/ ~ParentWritable(live, p) /\ Parent(p) \notin touched
               \/ \E q \in Universe : StartsWith(q, p) /\ Untouchable(live, q, rules)

(***************************************************************************)
(* Stated by the repository, and violated.                                 *)
(***************************************************************************)

\* ignore.rs on IgnoreDecision::Ignored: "The path is excluded by the source's
\* ignore policy and must be left alone."
ExcludedLeftAlone ==
    \A p \in Universe : Untouchable(base, p, SourceRules) => live[p] = base[p]

=============================================================================
