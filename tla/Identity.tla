------------------------------ MODULE Identity ------------------------------
(***************************************************************************)
(* The identity of a machine (auth.rs, `Identity`): a private key and a    *)
(* certificate in `.quicsync`, created by the first command that finds     *)
(* neither and loaded by every later one.  Commands may run at the same    *)
(* time, crash between any two system calls, and meet I/O errors.          *)
(*                                                                         *)
(* A key pair is a model value, its fingerprint; a certificate carries the *)
(* fingerprint of the key it was made for.  A file that exists may be      *)
(* incomplete.  Ownership and permission checks are left out: the commands *)
(* run as one user.                                                        *)
(***************************************************************************)
EXTENDS FiniteSets

CONSTANTS
    Processes,      \* the commands that may run
    Fingerprints,   \* the keys the generator may return, each only once
    None            \* no fingerprint

ASSUME IdentityAssumption == None \notin Fingerprints

VARIABLES
    key, certificate,   \* the files
    pc,                 \* per process, its next step
    sawCertificate,     \* what its `certificate_path.exists()` returned
    mine,               \* the fingerprint it has generated, or read
    used,               \* the keys generated so far
    returned,           \* the fingerprints load_or_create has returned
    torn,               \* history: the steps that change a file and have failed
    crashed             \* history: whether a command has

files == <<key, certificate>>
local == <<sawCertificate, mine>>
identityVars == <<files, pc, local, used, returned, torn, crashed>>

Creating == {"openKey", "writeKey", "openCertificate", "writeCertificate", "removeKey"}
Steps == {"idle", "inspect", "readCertificate", "readKey", "ok", "failed"} \cup Creating

\* The steps that can leave a file in another state if they fail.
Writing == {"writeKey", "writeCertificate", "removeKey"}

File == [exists : BOOLEAN, whole : BOOLEAN, of : Fingerprints \cup {None}]

NoFile == [exists |-> FALSE, whole |-> FALSE, of |-> None]
Partial(f) == [exists |-> TRUE, whole |-> FALSE, of |-> f]
Whole(f) == [exists |-> TRUE, whole |-> TRUE, of |-> f]

IdentityInit ==
    /\ key = NoFile /\ certificate = NoFile
    /\ pc = [p \in Processes |-> "idle"]
    /\ sawCertificate = [p \in Processes |-> FALSE]
    /\ mine = [p \in Processes |-> None]
    /\ used = {} /\ returned = {}
    /\ torn = {} /\ crashed = FALSE

Goto(p, step) == pc' = [pc EXCEPT ![p] = step]

-----------------------------------------------------------------------------
\* Path::exists is false also if the file cannot be inspected.
Seen(file) == {file.exists, FALSE}

\* load_or_create, up to the first `exists`.
Begin(p) ==
    /\ pc[p] \in {"idle", "ok", "failed"}
    /\ \E seen \in Seen(certificate) :
        sawCertificate' = [sawCertificate EXCEPT ![p] = seen]
    /\ Goto(p, "inspect")
    /\ UNCHANGED <<files, mine, used, returned, torn, crashed>>

\* The second `exists` and the match on both.
Load(p) ==
    /\ pc[p] = "inspect"
    /\ sawCertificate[p] /\ TRUE \in Seen(key)
    /\ Goto(p, "readCertificate")
    /\ UNCHANGED <<files, local, used, returned, torn, crashed>>

Create(p) ==
    /\ pc[p] = "inspect"
    /\ ~sawCertificate[p] /\ FALSE \in Seen(key)
    /\ \E f \in Fingerprints \ used :
        /\ mine' = [mine EXCEPT ![p] = f]
        /\ used' = used \cup {f}
    /\ Goto(p, "openKey")
    /\ UNCHANGED <<files, sawCertificate, returned, torn, crashed>>

Refuse(p) ==
    /\ pc[p] = "inspect"
    /\ \E seen \in Seen(key) : sawCertificate[p] # seen
    /\ Goto(p, "failed")
    /\ UNCHANGED <<files, local, used, returned, torn, crashed>>

\* load reads one file after the other; from_der parses and compares them.
ReadCertificate(p) ==
    /\ pc[p] = "readCertificate"
    /\ mine' = [mine EXCEPT ![p] = IF certificate.whole THEN certificate.of ELSE None]
    /\ Goto(p, "readKey")
    /\ UNCHANGED <<files, sawCertificate, used, returned, torn, crashed>>

ReadKey(p) ==
    /\ pc[p] = "readKey"
    /\ IF mine[p] # None /\ key.whole /\ key.of = mine[p]
       THEN returned' = returned \cup {mine[p]} /\ Goto(p, "ok")
       ELSE UNCHANGED returned /\ Goto(p, "failed")
    /\ UNCHANGED <<files, local, used, torn, crashed>>

\* Mutant: the key file is opened without create_new.
MayOverwrite == TRUE

\* create_new: a key that has appeared since is not overwritten.
MayCreateKey == ~key.exists

\* Mutant: a failure to create the key is cleaned up, too.
CleanUpKey == "removeKey"

\* `?`: the file belongs to somebody else.
LeaveKey == "failed"

OpenKey(p) ==
    /\ pc[p] = "openKey"
    /\ IF MayCreateKey
       THEN key' = Partial(mine[p]) /\ Goto(p, "writeKey")
       ELSE UNCHANGED key /\ Goto(p, LeaveKey)
    /\ UNCHANGED <<certificate, local, used, returned, torn, crashed>>

WriteKey(p) ==
    /\ pc[p] = "writeKey"
    /\ key' = Whole(mine[p])
    /\ Goto(p, "openCertificate")
    /\ UNCHANGED <<certificate, local, used, returned, torn, crashed>>

OpenCertificate(p) ==
    /\ pc[p] = "openCertificate"
    /\ IF certificate.exists
       THEN UNCHANGED certificate /\ Goto(p, "removeKey")
       ELSE certificate' = Partial(mine[p]) /\ Goto(p, "writeCertificate")
    /\ UNCHANGED <<key, local, used, returned, torn, crashed>>

WriteCertificate(p) ==
    /\ pc[p] = "writeCertificate"
    /\ certificate' = Whole(mine[p])
    /\ returned' = returned \cup {mine[p]}
    /\ Goto(p, "ok")
    /\ UNCHANGED <<key, local, used, torn, crashed>>

\* Mutant: a failed creation removes both files.
RemainingNothing == NoFile

\* What is left of the certificate when the creation is undone.
Remaining == certificate

RemoveKey(p) ==
    /\ pc[p] = "removeKey"
    /\ key' = NoFile
    /\ certificate' = Remaining
    /\ Goto(p, "failed")
    /\ UNCHANGED <<local, used, returned, torn, crashed>>

(***************************************************************************)
(* A call fails.  A write that fails, or its sync_all, leaves the file     *)
(* partial or whole.  Only a failure after the key was written removes it, *)
(* and the error of that removal is ignored.                               *)
(***************************************************************************)
IOError(p) ==
    /\ pc[p] \notin {"idle", "ok", "failed"}
    /\ torn' = torn \cup ({pc[p]} \cap Writing)
    /\ \/ /\ pc[p] \notin {"openCertificate", "writeCertificate"}
          /\ Goto(p, "failed")
          /\ UNCHANGED certificate
          /\ \/ UNCHANGED key
             \/ pc[p] = "writeKey" /\ key' = Whole(mine[p])
       \/ /\ pc[p] \in {"openCertificate", "writeCertificate"}
          /\ Goto(p, "removeKey")
          /\ UNCHANGED key
          /\ \/ UNCHANGED certificate
             \/ pc[p] = "writeCertificate" /\ certificate' = Whole(mine[p])
    /\ UNCHANGED <<local, used, returned, crashed>>

CommandCrash(p) ==
    /\ pc[p] \notin {"idle", "ok", "failed"}
    /\ crashed' = TRUE
    /\ Goto(p, "idle")
    /\ UNCHANGED <<files, local, used, returned, torn>>

IdentityNext ==
    \E p \in Processes :
        \/ Begin(p) \/ Load(p) \/ Create(p) \/ Refuse(p)
        \/ ReadCertificate(p) \/ ReadKey(p)
        \/ OpenKey(p) \/ WriteKey(p) \/ OpenCertificate(p) \/ WriteCertificate(p)
        \/ RemoveKey(p) \/ IOError(p) \/ CommandCrash(p)

IdentitySpec == IdentityInit /\ [][IdentityNext]_identityVars

-----------------------------------------------------------------------------
IdentityTypeOK ==
    /\ key \in File /\ certificate \in File
    /\ pc \in [Processes -> Steps]
    /\ sawCertificate \in [Processes -> BOOLEAN]
    /\ mine \in [Processes -> Fingerprints \cup {None}]
    /\ used \subseteq Fingerprints /\ returned \subseteq Fingerprints
    /\ torn \subseteq Writing /\ crashed \in BOOLEAN

\* Whatever runs at the same time, fails or crashes, no two commands ever work
\* with different identities: peers pin the fingerprint by hand, so a second
\* one made behind the user's back would lock the machine out.
OneIdentity == \A f, g \in returned : f = g

\* An identity that was returned stays on disk through crashes and through the
\* failures of other commands: a creation that cannot finish removes no key but
\* its own.  Only writing the certificate may fail after others have read it.
ReturnedStays ==
    returned # {} /\ "writeCertificate" \notin torn =>
        key.whole /\ certificate.whole /\ key.of = certificate.of /\ key.of \in returned

\* "must either both exist or both be absent" (auth.rs:145): a user never meets
\* this error for good unless a command crashed or failed in the middle of a
\* file.  Losing a race to another creation leaves nothing behind, and neither
\* does a creation that cannot open its certificate.
BothOrNeither ==
    torn = {} /\ ~crashed /\ (\A p \in Processes : pc[p] \notin Creating) =>
        /\ key.whole = key.exists /\ certificate.whole = certificate.exists
        /\ key.exists = certificate.exists
        /\ key.of = certificate.of

=============================================================================
