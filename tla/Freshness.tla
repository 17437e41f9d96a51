----------------------------- MODULE Freshness -----------------------------
(***************************************************************************)
(* The freshness module for one file of one user: the operations           *)
(* run_freshness_* of src/handlers/handler_util.py and the client's        *)
(* invoke_freshness_store_file and invoke_freshness_retrieve_file          *)
(* (src/client/invoke.py).                                                 *)
(*                                                                         *)
(* A file server keeps the content; a hash server keeps a hash of it, a    *)
(* version number and the permissions.  A client sends its two requests at *)
(* the same time (invoke_2PC) and looks at the answers when it has both.   *)
(* The operations of the user's clients may overlap.  Every access to a    *)
(* cloud object is a step.                                                 *)
(*                                                                         *)
(* A store writes a content of its own, so the content and its hash are    *)
(* both represented by the store operation that wrote them.                *)
(***************************************************************************)
EXTENDS Naturals, FiniteSets

CONSTANTS
    Store,      \* the store operations that may be started
    Retrieve,   \* the retrieve operations that may be started
    Ver,        \* Ver[c]: the version number the store operation c sends
    Overlap,    \* may operations overlap?
    Lossy,      \* the operations whose requests may get lost or end in an error
    None        \* no such object

Op == Store \cup Retrieve

ASSUME FreshnessAssumption ==
    /\ Store \cap Retrieve = {}
    /\ Ver \in [Store -> Nat]
    /\ Overlap \in BOOLEAN
    /\ Lossy \subseteq Op
    /\ None \notin Op \cup Nat

VARIABLES
    content,        \* file server: <file_id>
    permissions,    \* hash server: is <file_id>_permissions there?  (one owner)
    version,        \* hash server: <file_id>_version
    entry,          \* hash server: <file_id>_entry
    file,           \* where each operation's request to the file server is
    hash,           \* where each operation's request to the hash server is
    newFile,        \* run_freshness_hash_server_store: new_file
    got,            \* the content, entry and version a retrieve has read
    outcome,        \* what the client reports
    alone,          \* history: operations that no store has overlapped
    last            \* history: the store that ended alone, and none began since

objects == <<content, permissions, version, entry>>
requests == <<file, hash, newFile, got>>
history == <<alone, last>>
vars == <<objects, requests, outcome, history>>

Ended == {"done", "denied", "failed"}

TypeOK ==
    /\ content \in Store \cup {None}
    /\ permissions \in BOOLEAN
    /\ version \in Nat \cup {None}
    /\ entry \in Store \cup {None}
    /\ file \in [Op -> {"none", "sent"} \cup Ended]
    /\ hash \in [Op -> {"none", "sent", "permissions", "version", "entry"} \cup Ended]
    /\ newFile \subseteq Store
    /\ got \in [Retrieve -> [content : Store \cup {None}, entry : Store \cup {None},
                             version : Nat \cup {None}]]
    /\ outcome \in [Op -> {"none", "stored", "fresh", "tampered", "error"}]
    /\ alone \subseteq Op
    /\ last \in Store \cup {None}

NothingRead == [content |-> None, entry |-> None, version |-> None]

Init ==
    /\ content = None /\ permissions = FALSE /\ version = None /\ entry = None
    /\ file = [c \in Op |-> "none"]
    /\ hash = [c \in Op |-> "none"]
    /\ newFile = {}
    /\ got = [c \in Retrieve |-> NothingRead]
    /\ outcome = [c \in Op |-> "none"]
    /\ alone = {}
    /\ last = None

UnderWay == {c \in Op : file[c] # "none" /\ outcome[c] = "none"}

-----------------------------------------------------------------------------
(* The client                                                              *)

\* invoke_2PC sends both requests.
Begin(c) ==
    /\ file[c] = "none"
    /\ Overlap \/ UnderWay = {}
    /\ file' = [file EXCEPT ![c] = "sent"]
    /\ hash' = [hash EXCEPT ![c] = "sent"]
    /\ alone' = (alone \ IF c \in Store THEN UnderWay ELSE {})
                \cup IF UnderWay \cap Store = {} THEN {c} ELSE {}
    /\ last' = IF c \in Store THEN None ELSE last
    /\ UNCHANGED <<objects, newFile, got, outcome>>

\* Both answers are there.  A store wants the hash server's signature; a
\* retrieve hashes the content and compares.  An answer that lacks what the
\* client looks for is an exception.  The operation's locals are gone with it.
Report(c) ==
    IF file[c] # "done" \/ hash[c] # "done" THEN "error"
    ELSE IF c \in Store THEN "stored"
    ELSE IF got[c].content = got[c].entry THEN "fresh" ELSE "tampered"

End(c) ==
    /\ c \in UnderWay
    /\ file[c] \in Ended /\ hash[c] \in Ended
    /\ outcome' = [outcome EXCEPT ![c] = Report(c)]
    /\ last' = IF c \in alone /\ Report(c) = "stored" THEN c ELSE last
    /\ file' = [file EXCEPT ![c] = "done"]
    /\ hash' = [hash EXCEPT ![c] = "done"]
    /\ newFile' = newFile \ {c}
    /\ got' = [d \in Retrieve |-> IF d = c THEN NothingRead ELSE got[d]]
    /\ alone' = alone \ {c}
    /\ UNCHANGED objects

-----------------------------------------------------------------------------
(* The file server                                                         *)

run_freshness_file_server_store(c) ==
    /\ c \in Store
    /\ file[c] = "sent"
    /\ content' = c
    /\ file' = [file EXCEPT ![c] = "done"]
    /\ UNCHANGED <<permissions, version, entry, hash, newFile, got, outcome, history>>

\* An object that is not there is an exception.
run_freshness_file_server_retrieve(c) ==
    /\ c \in Retrieve
    /\ file[c] = "sent"
    /\ file' = [file EXCEPT ![c] = IF content = None THEN "failed" ELSE "done"]
    /\ got' = [got EXCEPT ![c].content = content]
    /\ UNCHANGED <<objects, hash, newFile, outcome, history>>

-----------------------------------------------------------------------------
(* The hash server                                                         *)

HashStep(c, from, to) == hash[c] = from /\ hash' = [hash EXCEPT ![c] = to]

\* Mutant: "new_file = True" is missing.
CheckVersionOnly(c) ==
    /\ c \in Store
    /\ HashStep(c, "sent", "permissions")
    /\ UNCHANGED <<objects, file, newFile, got, outcome, history>>

\* The stored version decides new_file.  It decides nothing else: the branch
\* that follows is "if True".
CheckVersion(c) ==
    /\ c \in Store
    /\ HashStep(c, "sent", "permissions")
    /\ newFile' = IF version = None /\ Ver[c] = 0 THEN newFile \cup {c} ELSE newFile
    /\ UNCHANGED <<objects, file, got, outcome, history>>

\* A new file gets its permissions; those of an old one must be there.
CheckPermissions(c) ==
    /\ \/ /\ c \in newFile
          /\ HashStep(c, "permissions", "version")
          /\ permissions' = TRUE
       \/ /\ c \notin newFile
          /\ HashStep(c, "permissions", IF permissions THEN "version" ELSE "denied")
          /\ UNCHANGED permissions
    /\ UNCHANGED <<content, version, entry, file, newFile, got, outcome, history>>

StoreVersion(c) ==
    /\ c \in Store
    /\ HashStep(c, "version", "entry")
    /\ version' = Ver[c]
    /\ UNCHANGED <<content, permissions, entry, file, newFile, got, outcome, history>>

\* Mutants: the version is stored in place of the hash; the first hash stays.
StoreEntryVersion(c) ==
    /\ c \in Store
    /\ HashStep(c, "entry", "done")
    /\ entry' = Ver[c]
    /\ UNCHANGED <<content, permissions, version, file, newFile, got, outcome, history>>

StoreEntryOnce(c) ==
    /\ c \in Store
    /\ HashStep(c, "entry", "done")
    /\ entry' = IF entry = None THEN c ELSE entry
    /\ UNCHANGED <<content, permissions, version, file, newFile, got, outcome, history>>

\* The hash is stored, and a signature of it is the answer.
StoreEntry(c) ==
    /\ c \in Store
    /\ HashStep(c, "entry", "done")
    /\ entry' = c
    /\ UNCHANGED <<content, permissions, version, file, newFile, got, outcome, history>>

\* run_freshness_hash_server_retrieve reads the entry, then the version.
GetEntry(c) ==
    /\ c \in Retrieve
    /\ HashStep(c, "sent", IF entry = None THEN "failed" ELSE "version")
    /\ got' = [got EXCEPT ![c].entry = entry]
    /\ UNCHANGED <<objects, file, newFile, outcome, history>>

GetVersion(c) ==
    /\ c \in Retrieve
    /\ HashStep(c, "version", "done")
    /\ got' = [got EXCEPT ![c].version = version]
    /\ UNCHANGED <<objects, file, newFile, outcome, history>>

run_freshness_hash_server_store(c) ==
    \/ CheckVersion(c) \/ CheckPermissions(c) \/ StoreVersion(c) \/ StoreEntry(c)

run_freshness_hash_server_retrieve(c) == GetEntry(c) \/ GetVersion(c)

-----------------------------------------------------------------------------

\* A request or its answer is lost, or its server stops in the middle of it.
RequestFails(c) ==
    /\ c \in Lossy \cap UnderWay
    /\ \/ /\ file[c] # "failed"
          /\ file' = [file EXCEPT ![c] = "failed"]
          /\ UNCHANGED hash
       \/ /\ hash[c] # "failed"
          /\ hash' = [hash EXCEPT ![c] = "failed"]
          /\ UNCHANGED file
    /\ UNCHANGED <<objects, newFile, got, outcome, history>>

Next == \E c \in Op :
    \/ Begin(c) \/ End(c)
    \/ run_freshness_file_server_store(c) \/ run_freshness_file_server_retrieve(c)
    \/ run_freshness_hash_server_store(c) \/ run_freshness_hash_server_retrieve(c)
    \/ RequestFails(c)

Spec == Init /\ [][Next]_vars

-----------------------------------------------------------------------------
(* Properties                                                              *)

(***************************************************************************)
(* A store that no other store overlaps brings the two servers back into   *)
(* agreement, whatever half-done or overlapping stores left behind: the    *)
(* retrieves that follow it report its content and its version.            *)
(***************************************************************************)
FreshAfterStore ==
    [][\A c \in Retrieve :
          End(c) /\ last # None /\ c \in alone /\ "failed" \notin {file[c], hash[c]} =>
              /\ outcome'[c] = "fresh"
              /\ got[c].content = last
              /\ got[c].version = Ver[last]]_vars

(***************************************************************************)
(* Permissions are stored before the version, so a store that sends the    *)
(* initial version is never turned away for want of permissions, even when *)
(* an earlier one stopped half-way.                                        *)
(***************************************************************************)
InitialStoreAccepted == \A c \in Store : hash[c] = "denied" => Ver[c] # 0

=============================================================================
