------------------------------ MODULE Scanner ------------------------------
(***************************************************************************)
(* The traversal behind `Scan` of module Tree (filesystem/scan.rs,         *)
(* ignore.rs): a blocking worker that walks a root depth first, collects   *)
(* ignore rules on its way, and sends what it finds into a bounded channel *)
(* whose reader may hang up at any time.                                   *)
(*                                                                         *)
(* The rules of one ignore file are a matcher: the pairs <<path, is a      *)
(* directory>> whose last matching pattern ignores or re-includes them.    *)
(* Globs are the business of the crate `ignore`; which path it is asked    *)
(* about, and what it makes of it, is modelled.  An ignore file is a       *)
(* regular file named GitIgnore; its data says which of the known contents *)
(* it has.                                                                 *)
(***************************************************************************)
EXTENDS Tree

CONSTANTS
    Trees,          \* the trees a scan may meet
    Exclusions,     \* the configured exclusions it may be given: matchers
    GitIgnore,      \* the name `.gitignore`
    Contents,       \* data of an ignore file -> its matcher
    NameBytes,      \* name -> its length
    Suffixes,       \* <<n, m>>, the bytes of n begin m -> the name the rest of m is
    MaxComponents, MaxPathBytes,
    Capacity,       \* of the channel
    Faults          \* file system calls may fail

\* What `scoped` holds of a matcher; a file with an invalid line has no rules.
NoRules == [ignore |-> {}, keep |-> {}, valid |-> TRUE]

ASSUME ScannerAssumption ==
    /\ Capacity \in Nat \ {0}
    /\ \A t \in Trees : DOMAIN t = Universe /\ IsTree(t)
    /\ \A x \in DOMAIN Suffixes : Suffixes[x] \in Nat
    /\ \A m \in Exclusions : m.ignore \cap m.keep = {}
    /\ \A v \in DOMAIN Contents : Contents[v].ignore \cap Contents[v].keep = {}

VARIABLES
    tree, exclusions,
    frames,     \* the active calls of scan_directory, innermost last
    scoped,     \* IgnorePolicy::scoped
    sent,       \* every message put into the channel
    received,   \* how many of them were taken out
    open,       \* the receiver has not been dropped
    faulted,    \* a file system call has failed
    pc          \* "start", "enter", "entries", "emit", "end", "error", "ok", "failed"

input == <<tree, exclusions>>
channel == <<sent, received, open>>
vars == <<input, frames, scoped, channel, faulted, pc>>

End == [NoRecord EXCEPT !.kind = "End"]
Err == [NoRecord EXCEPT !.kind = "Err"]

Init ==
    /\ tree \in Trees /\ exclusions \in Exclusions
    /\ frames = <<>> /\ scoped = <<>>
    /\ sent = <<>> /\ received = 0 /\ open = TRUE
    /\ faulted = FALSE
    /\ pc = "start"

-----------------------------------------------------------------------------
(***************************************************************************)
(* matched_path_or_any_parents (crate ignore): the path itself, then the   *)
(* directories above it down to the empty path; the first that matches     *)
(* decides.                                                                *)
(***************************************************************************)
Matches(m, q, isDir) ==
    {n \in 0..Len(q) : <<SubSeq(q, 1, n), n < Len(q) \/ isDir>> \in m.ignore \cup m.keep}

Verdict(m, q, isDir) ==
    LET hits == Matches(m, q, isDir)
        n == CHOOSE k \in hits : \A l \in hits : l <= k
    IN  CASE hits = {} -> "None"
          [] hits # {} /\ <<SubSeq(q, 1, n), n < Len(q) \/ isDir>> \in m.ignore -> "Ignore"
          [] OTHER -> "Whitelist"

(***************************************************************************)
(* Before that the crate takes the root of the matcher off the path, byte  *)
(* by byte, unless the path is a single name: the root "a" makes x of a/x  *)
(* and b/x of ab/x.                                                        *)
(***************************************************************************)
Stripped(root, q) ==
    LET k == Len(root)
        rest == SubSeq(q, k + 1, Len(q))
    IN  IF k = 0 \/ k > Len(q) \/ Len(q) < 2 \/ SubSeq(q, 1, k - 1) # SubSeq(root, 1, k - 1)
        THEN q
        ELSE CASE q[k] = root[k] -> rest
               [] q[k] # root[k] /\ <<root[k], q[k]>> \in DOMAIN Suffixes ->
                        <<Suffixes[<<root[k], q[k]>>]>> \o rest
               [] OTHER -> q

\* Mutant: the matcher is asked with the whole path.
VerdictFromRoot(rules, p, isDir) ==
    IF Below(p, rules.scope) THEN Verdict(rules.matcher, p, isDir) ELSE "None"

\* scoped_path: the path from the scope on, None if it is not below the scope.
\* build_matcher has made the scope the root of the matcher as well, so the
\* crate looks for it at the beginning of a path from which it is gone.
ScopedVerdict(rules, p, isDir) ==
    IF Below(p, rules.scope)
    THEN Verdict(rules.matcher,
                 Stripped(rules.scope, SubSeq(p, Len(rules.scope) + 1, Len(p))), isDir)
    ELSE "None"

\* The loop of `decision`: each rule set that matches overrides the earlier.
IgnoredBy(p, isDir) ==
    LET ignored[n \in 0..Len(scoped)] ==
            IF n = 0 THEN FALSE
            ELSE CASE ScopedVerdict(scoped[n], p, isDir) = "Ignore"    -> TRUE
                   [] ScopedVerdict(scoped[n], p, isDir) = "Whitelist" -> FALSE
                   [] OTHER -> ignored[n - 1]
    IN  ignored[Len(scoped)]

decision(p) ==
    CASE IsProtected(p) -> "Protected"
      [] ~IsProtected(p) /\ IgnoredBy(p, tree[p].kind = "dir") -> "Ignored"
      [] OTHER -> "Managed"

-----------------------------------------------------------------------------
PathBytes(p) ==
    LET bytes[n \in 0..Len(p)] == IF n = 0 THEN 0 ELSE bytes[n - 1] + NameBytes[p[n]]
    IN  bytes[Len(p)] + Len(p) - 1

\* append_component refuses the path.
OverLimit(p) == Len(p) > MaxComponents \/ PathBytes(p) > MaxPathBytes

\* metadata_from: sockets, pipes and devices are not supported.
Unsupported(p) == tree[p].kind \notin Kinds

HasRoom == Len(sent) - received < Capacity

Top == frames[Len(frames)]

Current(n) == Append(Top.scope, n)

\* Mutant: entries are taken as read_dir returns them.
AnyEntry(n) == n \in Top.left

\* Entries are sorted by name: the next one is the least that is left.
NextEntry(n) == n \in Top.left /\ \A m \in Top.left : n <= m

\* A call of scan_directory before it has read anything.
Frame(scope, checkpoint) == [scope |-> scope, left |-> {}, checkpoint |-> checkpoint]

Fail ==
    /\ pc' = "error"
    /\ UNCHANGED <<input, frames, scoped, channel, faulted>>

\* scan_root: the policy with the configured exclusions, then the root.
Start ==
    /\ pc = "start"
    /\ \/ ~exclusions.valid /\ Fail
       \/ /\ exclusions.valid
          /\ scoped' = IF exclusions = NoRules THEN <<>>
                       ELSE << [scope |-> <<>>, matcher |-> exclusions] >>
          /\ frames' = << Frame(<<>>, Len(scoped')) >>
          /\ pc' = "enter"
          /\ UNCHANGED <<input, channel, faulted>>

IgnoreFile(scope) == Append(scope, GitIgnore)

\* The enumeration has a `.gitignore` that is a file and not a link to one.
HasIgnoreFile(scope) ==
    IgnoreFile(scope) \in Universe /\ tree[IgnoreFile(scope)].kind = "file"

RulesAt(scope) == Contents[tree[IgnoreFile(scope)].data]

\* Mutant: the rules of a file apply from the root.
PushUnscoped(scope) == [scope |-> <<>>, matcher |-> RulesAt(scope)]

ScopedRuleSet(scope) == [scope |-> scope, matcher |-> RulesAt(scope)]

\* read_dir, the sort and the discovery of an ignore file.
EnterDirectory ==
    LET scope == Top.scope
    IN  /\ pc = "enter"
        /\ \/ HasIgnoreFile(scope) /\ ~RulesAt(scope).valid /\ Fail
           \/ /\ HasIgnoreFile(scope) => RulesAt(scope).valid
              /\ frames' = [frames EXCEPT ![Len(frames)].left =
                                {p[Len(p)] : p \in Children(tree, scope)}]
              /\ scoped' = IF HasIgnoreFile(scope)
                           THEN Append(scoped, ScopedRuleSet(scope)) ELSE scoped
              /\ pc' = "entries"
              /\ UNCHANGED <<input, channel, faulted>>

WithoutEntry(n) == [frames EXCEPT ![Len(frames)].left = @ \ {n}]

\* Mutant: only entries the rules manage are refused.
RefusedIfManaged(p) ==
    ~open \/ (decision(p) = "Managed" /\ (OverLimit(p) \/ Unsupported(p)))

\* is_closed, append_component and metadata_for: all before the rules are asked.
Refused(p) == ~open \/ OverLimit(p) \/ Unsupported(p)

\* The body of the loop up to `emit`.
ConsiderEntry(n) ==
    /\ pc = "entries" /\ NextEntry(n)
    /\ \/ Refused(Current(n)) /\ Fail
       \/ /\ ~Refused(Current(n))
          /\ IF decision(Current(n)) = "Managed"
             THEN pc' = "emit" /\ UNCHANGED frames
             ELSE frames' = WithoutEntry(n) /\ UNCHANGED pc
          /\ UNCHANGED <<input, scoped, channel, faulted>>

\* `emit` of a record, and the recursive call for a directory.
EmitRecord(n) ==
    /\ pc = "emit" /\ NextEntry(n)
    /\ open /\ HasRoom
    /\ sent' = Append(sent, RecordAt(tree, Current(n)))
    /\ IF tree[Current(n)].kind = "dir"
       THEN /\ frames' = Append(WithoutEntry(n), Frame(Current(n), Len(scoped)))
            /\ pc' = "enter"
       ELSE frames' = WithoutEntry(n) /\ pc' = "entries"
    /\ UNCHANGED <<input, scoped, received, open, faulted>>

\* IgnorePolicy::restore.
Restore(checkpoint) == SubSeq(scoped, 1, checkpoint)

LeaveDirectory ==
    /\ pc = "entries" /\ Top.left = {}
    /\ scoped' = Restore(Top.checkpoint)
    /\ frames' = SubSeq(frames, 1, Len(frames) - 1)
    /\ pc' = IF Len(frames) = 1 THEN "end" ELSE "entries"
    /\ UNCHANGED <<input, channel, faulted>>

EmitEnd ==
    /\ pc = "end" /\ open /\ HasRoom
    /\ sent' = Append(sent, End)
    /\ pc' = "ok"
    /\ UNCHANGED <<input, frames, scoped, received, open, faulted>>

\* Mutant: a sender that waits for room misses the end of the receiver.
EmitWaits == pc \in {"emit", "end"} /\ ~open /\ HasRoom /\ Fail

\* blocking_send fails once the receiver is gone.
EmitFails == pc \in {"emit", "end"} /\ ~open /\ Fail

\* read_dir, reading an ignore file, metadata_for or digest_for fails.
FileSystemFails ==
    /\ Faults
    /\ pc = "enter" \/ (pc = "entries" /\ Top.left # {})
    /\ faulted' = TRUE /\ pc' = "error"
    /\ UNCHANGED <<input, frames, scoped, channel>>

Failure == Err

\* The error goes to the consumer, too, if there still is one.
ReportError ==
    /\ pc = "error"
    /\ \/ open /\ HasRoom /\ sent' = Append(sent, Failure)
       \/ ~open /\ UNCHANGED sent
    /\ pc' = "failed"
    /\ UNCHANGED <<input, frames, scoped, received, open, faulted>>

\* The consumer of the channel: the index stream or the planner.
Receive ==
    /\ open /\ received < Len(sent)
    /\ received' = received + 1
    /\ UNCHANGED <<input, frames, scoped, sent, open, faulted, pc>>

HangUp ==
    /\ open
    /\ open' = FALSE
    /\ UNCHANGED <<input, frames, scoped, sent, received, faulted, pc>>

Worker ==
    \/ Start \/ EnterDirectory \/ LeaveDirectory
    \/ (\E n \in DOMAIN NameBytes : ConsiderEntry(n) \/ EmitRecord(n))
    \/ EmitEnd \/ EmitFails \/ FileSystemFails \/ ReportError

Next == Worker \/ Receive \/ HangUp

Spec == Init /\ [][Next]_vars /\ WF_vars(Worker) /\ WF_vars(Receive)

-----------------------------------------------------------------------------
(***************************************************************************)
(* The reference, stated on the tree alone.  A path is left out if, of all *)
(* matches by the ignore files above it and by the exclusions, the one of  *)
(* the deepest file, and there the one of the longest prefix of the path   *)
(* that is asked, ignores it.  Depth 0 stands for the exclusions, depth    *)
(* s + 1 for the ignore file in the directory of s components.             *)
(***************************************************************************)
Matcher(s, p) == IF s = 0 THEN exclusions ELSE RulesAt(SubSeq(p, 1, s - 1))

HasMatcher(s, p) == s > 0 => HasIgnoreFile(SubSeq(p, 1, s - 1))

\* The number of components above the paths that rules at depth s match.
Above(s) == IF s = 0 THEN 0 ELSE s - 1

\* The path from the directory of the rules on, and what the crate asks.
From(s, p) == SubSeq(p, Above(s) + 1, Len(p))

AskedAt(s, p) == Stripped(SubSeq(p, 1, Above(s)), From(s, p))

Deciding(p, isDir) ==
    {c \in (0..Len(p)) \X (0..Len(p)) :
        /\ HasMatcher(c[1], p)
        /\ c[2] \in Matches(Matcher(c[1], p), AskedAt(c[1], p), isDir)}

Ignoring(c, p, isDir) ==
    <<SubSeq(AskedAt(c[1], p), 1, c[2]), c[2] < Len(AskedAt(c[1], p)) \/ isDir>>
        \in Matcher(c[1], p).ignore

LeftOut(p, isDir) ==
    \E c \in Deciding(p, isDir) :
        /\ \A e \in Deciding(p, isDir) : e[1] < c[1] \/ (e[1] = c[1] /\ e[2] <= c[2])
        /\ Ignoring(c, p, isDir)

\* The rules under which module Commit scans a tree.
Rules == {r \in Universe \X BOOLEAN : LeftOut(r[1], r[2])}

Listing == Scan(tree, Rules)

\* The directories a scan reads: the root and those it lists.
Visited == {<<>>} \cup {r.path : r \in {s \in Listing : s.kind = "dir"}}

Unscannable ==
    \/ ~exclusions.valid
    \/ \E d \in Visited :
        \/ HasIgnoreFile(d) /\ ~RulesAt(d).valid
        \/ \E p \in Children(tree, d) : OverLimit(p) \/ Unsupported(p)

SentRecords == {sent[i] : i \in {j \in 1..Len(sent) : sent[j].kind \in Kinds}}

-----------------------------------------------------------------------------
\* Records leave the scan in strictly increasing path order, each path once,
\* although directories are read one by one: the planner's merge of two scans
\* depends on it (architecture.md: "canonical path-component order").
CanonicalOrder ==
    \A i, j \in 1..Len(sent) :
        i < j /\ sent[j].kind \in Kinds => Before(sent[i].path, sent[j].path)

\* At every moment what was sent is the beginning of the listing that the rules
\* of the tree imply, asked as the crate asks them: no sibling's rules leak into
\* a directory, nothing below an entry that was left out appears, and nothing
\* managed is passed over.
\* "Success emits End; errors never emit End" (scan.rs:36), and success
\* includes that the whole listing was sent before it.
BeginsListing ==
    LET listing == Listing
    IN  /\ SentRecords \subseteq listing
        /\ \A r \in listing \ SentRecords :
                \A q \in SentRecords : Before(q.path, r.path)
        /\ pc = "ok" <=> \E i \in 1..Len(sent) : sent[i].kind = "End"
        /\ pc = "ok" => sent[Len(sent)] = End /\ SentRecords = listing

\* What the rules at depth s say of p if they are asked with q.
Says(s, q, p, isDir) ==
    IF HasMatcher(s, p) THEN Verdict(Matcher(s, p), q, isDir) ELSE "None"

\* What is left out if every rule is matched against the path from the directory
\* of its file on, and the deepest file that has an opinion decides.
LeftOutByFiles(p, isDir) ==
    \E s \in 0..Len(p) :
        /\ Says(s, From(s, p), p, isDir) = "Ignore"
        /\ \A t \in (s + 1)..Len(p) : Says(t, From(t, p), p, isDir) = "None"

\* The second stripping of a scope changes an answer.
Misled ==
    \E p \in Universe : \E s \in 0..Len(p) :
        LET isDir == tree[p].kind = "dir"
        IN  /\ Present(tree, p)
            /\ Says(s, AskedAt(s, p), p, isDir) # Says(s, From(s, p), p, isDir)

\* "nested_gitignore_files_apply_from_their_directory" (tests/filesystem_ignore.rs:75):
\* a scan that succeeds has sent what is managed if each rule is taken relative to
\* the directory of its file, a deeper file overrides those above it, and none
\* reaches beyond its directory.  The exception is a tree in which a directory's
\* name begins with that of the one above it and the rules answer differently for
\* a path that has lost both (ignore.rs:131).
AppliesFromItsDirectory ==
    pc = "ok" /\ ~Misled =>
        SentRecords = Scan(tree, {r \in Universe \X BOOLEAN : LeftOutByFiles(r[1], r[2])})

\* A scan fails for a cause: the reader hung up, a call failed, or the tree has
\* an entry or an ignore file in a directory the scan reads that the limits, or
\* the kinds and rules supported, exclude.  Such a tree is never indexed, even
\* if the entry is one the rules ignore.
FailsForCause ==
    /\ pc = "failed" => ~open \/ faulted \/ Unscannable
    /\ pc = "ok" => ~Unscannable

\* The worker ends, whether the reader keeps reading or hangs up.
ScanEnds == <>(pc \in {"ok", "failed"})

=============================================================================
