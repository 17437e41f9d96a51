-------------------------- MODULE FreshnessProofs --------------------------
(***************************************************************************)
(* Proofs about the freshness module, for any operations, overlapping or   *)
(* not, and any of them losing requests.                                   *)
(*                                                                         *)
(* InitialStoreAccepted rests on the order of run_freshness_hash_server_   *)
(* store: permissions before version (GrantInv).  FreshAfterStore rests on *)
(* what the servers hold while an operation runs alone (AloneInv).         *)
(***************************************************************************)
EXTENDS Freshness, TLAPS

-----------------------------------------------------------------------------
(* Types, and the initial store                                            *)

\* A version is stored only where permissions are.
GrantInv ==
    /\ version # None => permissions
    /\ \A c \in Store :
          /\ hash[c] = "version" => permissions
          /\ hash[c] = "permissions" /\ Ver[c] = 0 => c \in newFile \/ permissions

StoreInv == TypeOK /\ GrantInv /\ InitialStoreAccepted

(* The initial values have their types.                                    *)
LEMMA InitType == Init => TypeOK
<1>1. NothingRead \in [content : Store \cup {None}, entry : Store \cup {None},
                       version : Nat \cup {None}]
  BY DEF NothingRead
<1>2. Init => permissions \in BOOLEAN
  BY Zenon DEF Init
<1>3. QED
  BY <1>1, <1>2, FreshnessAssumption DEF Init, TypeOK, Ended

(* Every step of the clients and of the two servers keeps the types.       *)
LEMMA TypeStep == TypeOK /\ [Next]_vars => TypeOK'
<1> SUFFICES ASSUME TypeOK, [Next]_vars PROVE TypeOK'
  OBVIOUS
<1> USE FreshnessAssumption DEF TypeOK, Ended, objects, requests, history, Op
<1>1. ASSUME NEW c \in Op, Begin(c) PROVE TypeOK'
  BY <1>1 DEF Begin, UnderWay
<1>2. ASSUME NEW c \in Op, End(c) PROVE TypeOK'
  <2>1. Report(c) \in {"none", "stored", "fresh", "tampered", "error"}
    BY DEF Report
  <2>2. Report(c) = "stored" => c \in Store
    BY DEF Report
  <2>3. NothingRead \in [content : Store \cup {None}, entry : Store \cup {None},
                         version : Nat \cup {None}]
    BY DEF NothingRead
  <2>4. QED
    BY <1>2, <2>1, <2>2, <2>3 DEF End
<1>3. ASSUME NEW c \in Op, run_freshness_file_server_store(c) PROVE TypeOK'
  BY <1>3 DEF run_freshness_file_server_store
<1>4. ASSUME NEW c \in Op, run_freshness_file_server_retrieve(c) PROVE TypeOK'
  <2>1. got' \in [Retrieve -> [content : Store \cup {None}, entry : Store \cup {None},
                               version : Nat \cup {None}]]
    BY <1>4 DEF run_freshness_file_server_retrieve
  <2>2. file' \in [Op -> {"none", "sent"} \cup Ended]
    BY <1>4 DEF run_freshness_file_server_retrieve
  <2>3. QED
    BY <1>4, <2>1, <2>2 DEF run_freshness_file_server_retrieve
<1>5. ASSUME NEW c \in Op, run_freshness_hash_server_store(c) PROVE TypeOK'
  <2>1. CASE CheckVersion(c)
    BY <1>5, <2>1 DEF CheckVersion, HashStep
  <2>2. CASE CheckPermissions(c)
    <3>1. permissions' \in BOOLEAN
      BY <2>2, Zenon DEF CheckPermissions
    <3>2. hash' \in [Op -> {"none", "sent", "permissions", "version", "entry"} \cup Ended]
      BY <2>2 DEF CheckPermissions, HashStep
    <3>3. QED
      BY <2>2, <3>1, <3>2 DEF CheckPermissions
  <2>3. CASE StoreVersion(c) \/ StoreEntry(c)
    BY <1>5, <2>3 DEF StoreVersion, StoreEntry, HashStep
  <2>4. QED
    BY <1>5, <2>1, <2>2, <2>3 DEF run_freshness_hash_server_store
<1>6. ASSUME NEW c \in Op, run_freshness_hash_server_retrieve(c) PROVE TypeOK'
  BY <1>6 DEF run_freshness_hash_server_retrieve, GetEntry, GetVersion, HashStep
<1>7. ASSUME NEW c \in Op, RequestFails(c) PROVE TypeOK'
  BY <1>7 DEF RequestFails
<1>8. CASE UNCHANGED vars
  BY <1>8 DEF vars
<1>9. QED
  BY <1>1, <1>2, <1>3, <1>4, <1>5, <1>6, <1>7, <1>8 DEF Next

(* Permissions come before the version, and stay.                          *)
LEMMA StoreStep == StoreInv /\ [Next]_vars => StoreInv'
<1> SUFFICES ASSUME StoreInv, [Next]_vars PROVE GrantInv' /\ InitialStoreAccepted'
  BY TypeStep DEF StoreInv
<1> USE FreshnessAssumption DEF objects, requests, history, Op, StoreInv, TypeOK
<1>1. ASSUME NEW c \in Op, Begin(c) PROVE GrantInv' /\ InitialStoreAccepted'
  BY <1>1 DEF Begin, GrantInv, InitialStoreAccepted
<1>2. ASSUME NEW c \in Op, End(c) PROVE GrantInv' /\ InitialStoreAccepted'
  BY <1>2 DEF End, GrantInv, InitialStoreAccepted
<1>3. ASSUME NEW c \in Op, CheckVersion(c) PROVE GrantInv' /\ InitialStoreAccepted'
  BY <1>3 DEF CheckVersion, HashStep, GrantInv, InitialStoreAccepted
<1>4. ASSUME NEW c \in Op, CheckPermissions(c) PROVE GrantInv' /\ InitialStoreAccepted'
  BY <1>4 DEF CheckPermissions, HashStep, GrantInv, InitialStoreAccepted
<1>5. ASSUME NEW c \in Op, StoreVersion(c) \/ StoreEntry(c) PROVE GrantInv' /\ InitialStoreAccepted'
  BY <1>5 DEF StoreVersion, StoreEntry, HashStep, GrantInv, InitialStoreAccepted
<1>6. ASSUME NEW c \in Op, GetEntry(c) \/ GetVersion(c) PROVE GrantInv' /\ InitialStoreAccepted'
  BY <1>6 DEF GetEntry, GetVersion, HashStep, GrantInv, InitialStoreAccepted
<1>7. ASSUME NEW c \in Op, RequestFails(c) PROVE GrantInv' /\ InitialStoreAccepted'
  BY <1>7 DEF RequestFails, GrantInv, InitialStoreAccepted
<1>8. CASE UNCHANGED <<permissions, version, hash, newFile>>
  BY <1>8 DEF GrantInv, InitialStoreAccepted
<1>9. QED
  BY <1>1, <1>2, <1>3, <1>4, <1>5, <1>6, <1>7, <1>8 DEF Next, vars,
     run_freshness_file_server_store, run_freshness_file_server_retrieve,
     run_freshness_hash_server_store, run_freshness_hash_server_retrieve

(* The invariant of the hash server holds of every behaviour.              *)
THEOREM StoreInvariant == Spec => []StoreInv
<1>1. Init => StoreInv
  BY InitType, FreshnessAssumption DEF Init, StoreInv, GrantInv, InitialStoreAccepted, Op
<1>2. QED
  BY <1>1, StoreStep, PTL DEF Spec

(***************************************************************************)
(* The objects of the two servers and the requests keep their types: no    *)
(* interleaving of the operations stores a version for a hash or a missing *)
(* object.                                                                 *)
(***************************************************************************)
THEOREM TypeCorrect == Spec => []TypeOK
<1>1. StoreInv => TypeOK
  BY DEF StoreInv
<1>2. QED
  BY <1>1, StoreInvariant, PTL

(***************************************************************************)
(* run_freshness_hash_server_store never denies a store with the initial   *)
(* version, however many stores overlap it or stopped half-way before it.  *)
(***************************************************************************)
THEOREM InitialStoreAcceptedHolds == Spec => []InitialStoreAccepted
<1>1. StoreInv => InitialStoreAccepted
  BY DEF StoreInv
<1>2. QED
  BY <1>1, StoreInvariant, PTL

-----------------------------------------------------------------------------
(* What an operation that runs alone leaves and finds                      *)

\* Requests exist between the beginning and the end of their operation only.
RequestInv ==
    \A c \in Op :
        /\ file[c] = "none" <=> hash[c] = "none"
        /\ outcome[c] # "none" => file[c] = "done" /\ hash[c] = "done"
        /\ file[c] # "denied"
        /\ c \in Retrieve => hash[c] \notin {"permissions", "entry", "denied"}

\* A store that runs alone finds its own writes.
StoredAlone(s) ==
    /\ file[s] = "done" => content = s
    /\ hash[s] \in {"entry", "done"} => version = Ver[s]
    /\ hash[s] = "done" => entry = s

\* A retrieve that runs alone after store s reads what s wrote.
ReadAlone(r, s) ==
    /\ file[r] = "done" => got[r].content = s
    /\ hash[r] \in {"version", "done"} => got[r].entry = s
    /\ hash[r] = "done" => got[r].version = Ver[s]

AloneInv ==
    /\ \A c \in alone : c \in UnderWay /\ UnderWay \cap Store \subseteq {c}
    /\ \A s \in Store \cap alone : StoredAlone(s)
    /\ last # None =>
          /\ UnderWay \cap Store = {}
          /\ content = last /\ entry = last /\ version = Ver[last]
          /\ \A r \in Retrieve \cap alone : ReadAlone(r, last)

FreshInv == TypeOK /\ RequestInv /\ AloneInv

(* A request moves only while its operation is under way.                  *)
LEMMA RequestStep == TypeOK /\ RequestInv /\ [Next]_vars => RequestInv'
<1> SUFFICES ASSUME TypeOK, RequestInv, [Next]_vars PROVE RequestInv'
  OBVIOUS
<1> USE FreshnessAssumption DEF TypeOK, Op, Ended, objects, requests, history, RequestInv
<1>1. ASSUME NEW c \in Op, Begin(c) PROVE RequestInv'
  BY <1>1 DEF Begin
<1>2. ASSUME NEW c \in Op, End(c) PROVE RequestInv'
  <2>1. Report(c) # "none"
    BY DEF Report
  <2>2. QED
    BY <1>2, <2>1 DEF End, UnderWay
<1>3. ASSUME NEW c \in Op,
             run_freshness_file_server_store(c) \/ run_freshness_file_server_retrieve(c)
      PROVE  RequestInv'
  BY <1>3 DEF run_freshness_file_server_store, run_freshness_file_server_retrieve
<1>4. ASSUME NEW c \in Op, CheckVersion(c) \/ CheckPermissions(c) PROVE RequestInv'
  BY <1>4 DEF CheckVersion, CheckPermissions, HashStep
<1>5. ASSUME NEW c \in Op, StoreVersion(c) \/ StoreEntry(c) PROVE RequestInv'
  BY <1>5 DEF StoreVersion, StoreEntry, HashStep
<1>6. ASSUME NEW c \in Op, GetEntry(c) \/ GetVersion(c) PROVE RequestInv'
  BY <1>6 DEF GetEntry, GetVersion, HashStep
<1>7. ASSUME NEW c \in Op, RequestFails(c) PROVE RequestInv'
  BY <1>7 DEF RequestFails, UnderWay
<1>8. CASE UNCHANGED vars
  BY <1>8 DEF vars
<1>9. QED
  BY <1>1, <1>2, <1>3, <1>4, <1>5, <1>6, <1>7, <1>8 DEF Next,
     run_freshness_hash_server_store, run_freshness_hash_server_retrieve

(* A step of a server's request neither begins nor ends an operation, and  *)
(* its operation is under way.                                             *)
LEMMA ServerStep ==
    ASSUME TypeOK, RequestInv, NEW c \in Op,
           \/ run_freshness_file_server_store(c) \/ run_freshness_file_server_retrieve(c)
           \/ run_freshness_hash_server_store(c) \/ run_freshness_hash_server_retrieve(c)
           \/ RequestFails(c)
    PROVE  c \in UnderWay /\ UnderWay' = UnderWay /\ UNCHANGED <<outcome, alone, last>>
<1> USE DEF TypeOK, RequestInv, UnderWay, HashStep, history, run_freshness_file_server_store,
    run_freshness_file_server_retrieve, run_freshness_hash_server_store,
    run_freshness_hash_server_retrieve, CheckVersion, CheckPermissions, StoreVersion,
    StoreEntry, GetEntry, GetVersion, RequestFails
<1>1. c \in UnderWay
  OBVIOUS
<1>2. UNCHANGED <<outcome, alone, last>>
  OBVIOUS
<1>3. \A d \in Op : file'[d] = "none" <=> file[d] = "none"
  OBVIOUS
<1>4. QED
  BY <1>1, <1>2, <1>3

(* The operations that run alone keep what they wrote and read.            *)
LEMMA AloneStep == FreshInv /\ [Next]_vars => AloneInv'
<1> SUFFICES ASSUME FreshInv, [Next]_vars PROVE AloneInv'
  OBVIOUS
<1>1. TypeOK /\ RequestInv /\ AloneInv /\ TypeOK' /\ RequestInv'
  BY TypeStep, RequestStep DEF FreshInv
<1>2. ASSUME NEW c \in Op, Begin(c) PROVE AloneInv'
  <2>1. UnderWay' = UnderWay \cup {c} /\ c \notin UnderWay
    BY <1>1, <1>2 DEF Begin, UnderWay, TypeOK, RequestInv
  <2>2. UNCHANGED <<content, version, entry, got>>
    BY <1>2 DEF Begin, objects
  <2>3. \A d \in UnderWay : file'[d] = file[d] /\ hash'[d] = hash[d]
    BY <1>1, <1>2, <2>1 DEF Begin, TypeOK, UnderWay
  <2>4. file'[c] = "sent" /\ hash'[c] = "sent"
    BY <1>1, <1>2 DEF Begin, TypeOK
  <2>5. \A d \in alone' : d \in UnderWay' /\ UnderWay' \cap Store \subseteq {d}
    BY <1>1, <1>2, <2>1 DEF Begin, AloneInv
  <2>6. \A d \in alone' : d # c => d \in alone /\ d \in UnderWay
    BY <1>1, <1>2 DEF Begin, AloneInv
  <2>7. \A d \in Store \cap alone' : StoredAlone(d)'
    BY <1>1, <2>2, <2>3, <2>4, <2>6 DEF AloneInv, StoredAlone
  <2>8. last' # None => last' = last /\ c \notin Store
    BY <1>2 DEF Begin
  <2>9. last' # None => \A r \in Retrieve \cap alone' : ReadAlone(r, last)'
    BY <1>1, <2>2, <2>3, <2>4, <2>6, <2>8 DEF AloneInv, ReadAlone
  <2>10. QED
    BY <1>1, <2>1, <2>2, <2>5, <2>7, <2>8, <2>9 DEF AloneInv
<1>3. ASSUME NEW c \in Op, End(c) PROVE AloneInv'
  <2>1. UnderWay' = UnderWay \ {c} /\ c \in UnderWay
    <3>1. Report(c) # "none"
      BY DEF Report
    <3>2. QED
      BY <1>1, <1>3, <3>1 DEF End, UnderWay, TypeOK
  <2>2. UNCHANGED <<content, version, entry>> /\ alone' = alone \ {c}
    BY <1>3 DEF End, objects
  <2>3. \A d \in Op \ {c} : file'[d] = file[d] /\ hash'[d] = hash[d]
    BY <1>1, <1>3 DEF End, TypeOK
  <2>4. \A r \in Retrieve \ {c} : got'[r] = got[r]
    BY <1>3 DEF End
  <2>5. \A d \in alone' : d \in alone /\ d \in Op \ {c}
    BY <1>1, <2>2 DEF TypeOK
  <2>6. \A d \in Store \cap alone' : StoredAlone(d)'
    BY <1>1, <2>2, <2>3, <2>5 DEF AloneInv, StoredAlone
  <2>7. CASE c \in alone /\ Report(c) = "stored"
    <3>1. c \in Store /\ file[c] = "done" /\ hash[c] = "done" /\ last' = c
      BY <1>3, <2>7 DEF Report, End
    <3>2. content = c /\ entry = c /\ version = Ver[c]
      BY <1>1, <2>7, <3>1 DEF AloneInv, StoredAlone
    <3>3. UnderWay' \cap Store = {} /\ alone' = {}
      BY <1>1, <2>1, <2>2, <2>7, <3>1 DEF AloneInv
    <3>4. QED
      BY <2>2, <3>1, <3>2, <3>3 DEF AloneInv
  <2>8. CASE ~(c \in alone /\ Report(c) = "stored")
    <3>1. last' = last
      BY <1>3, <2>8 DEF End
    <3>2. last # None => \A r \in Retrieve \cap alone' : ReadAlone(r, last)'
      BY <1>1, <2>3, <2>4, <2>5, <3>1 DEF AloneInv, ReadAlone
    <3>3. QED
      BY <1>1, <2>1, <2>2, <2>5, <2>6, <3>1, <3>2 DEF AloneInv
  <2>9. QED
    BY <2>7, <2>8
<1>4. ASSUME NEW c \in Op, UnderWay' = UnderWay, c \in UnderWay,
             UNCHANGED <<outcome, alone, last>>,
             \A d \in Op \ {c} : file'[d] = file[d] /\ hash'[d] = hash[d],
             \A r \in Retrieve \ {c} : got'[r] = got[r],
             c \notin Store => UNCHANGED <<content, version, entry>>,
             c \in Store \cap alone => StoredAlone(c)',
             c \in Retrieve \cap alone /\ last # None => ReadAlone(c, last)'
      PROVE  AloneInv'
  <2>1. last # None => c \notin Store
    BY <1>1, <1>4 DEF AloneInv
  <2>2. \A d \in alone : d # c => c \notin Store
    BY <1>1, <1>4 DEF AloneInv
  <2>3. \A d \in Store \cap alone : StoredAlone(d)'
    BY <1>1, <1>4, <2>2 DEF AloneInv, StoredAlone, Op
  <2>4. last # None => \A r \in Retrieve \cap alone : ReadAlone(r, last)'
    BY <1>1, <1>4 DEF AloneInv, ReadAlone, Op
  <2>5. QED
    BY <1>1, <1>4, <2>1, <2>3, <2>4 DEF AloneInv
<1>5. ASSUME NEW c \in Op, RequestFails(c) PROVE AloneInv'
  <2>1. /\ file'[c] \in {file[c], "failed"} /\ hash'[c] \in {hash[c], "failed"}
        /\ UNCHANGED <<content, version, entry, got>>
        /\ \A d \in Op \ {c} : file'[d] = file[d] /\ hash'[d] = hash[d]
    BY <1>1, <1>5 DEF RequestFails, objects, TypeOK
  <2>2. c \in Store \cap alone => StoredAlone(c)'
    BY <1>1, <2>1 DEF AloneInv, StoredAlone
  <2>3. c \in Retrieve \cap alone /\ last # None => ReadAlone(c, last)'
    BY <1>1, <1>5, <2>1, ServerStep DEF AloneInv, ReadAlone
  <2>4. QED
    BY <1>1, <1>4, <1>5, <2>1, <2>2, <2>3, ServerStep
<1>6. ASSUME NEW c \in Op,
             run_freshness_file_server_store(c) \/ run_freshness_hash_server_store(c)
      PROVE  AloneInv'
  <2>1. c \in Store
    BY <1>1, <1>6 DEF run_freshness_file_server_store, run_freshness_hash_server_store,
       CheckVersion, CheckPermissions, StoreVersion, StoreEntry, HashStep, RequestInv, Op
  <2>2. /\ UNCHANGED got
        /\ \A d \in Op \ {c} : file'[d] = file[d] /\ hash'[d] = hash[d]
    BY <1>1, <1>6 DEF run_freshness_file_server_store, run_freshness_hash_server_store,
       CheckVersion, CheckPermissions, StoreVersion, StoreEntry, HashStep, TypeOK
  <2>3. c \in alone => StoredAlone(c)'
    <3> SUFFICES ASSUME c \in alone PROVE StoredAlone(c)'
      OBVIOUS
    <3>1. StoredAlone(c)
      BY <1>1, <2>1 DEF AloneInv
    <3>2. CASE run_freshness_file_server_store(c)
      BY <1>1, <3>1, <3>2 DEF run_freshness_file_server_store, StoredAlone, TypeOK
    <3>3. CASE CheckVersion(c) \/ CheckPermissions(c)
      BY <1>1, <3>1, <3>3 DEF CheckVersion, CheckPermissions, HashStep, StoredAlone, TypeOK, objects
    <3>4. CASE StoreVersion(c) \/ StoreEntry(c)
      BY <1>1, <3>1, <3>4 DEF StoreVersion, StoreEntry, HashStep, StoredAlone, TypeOK
    <3>5. QED
      BY <1>6, <3>2, <3>3, <3>4 DEF run_freshness_hash_server_store
  <2>4. c \notin Retrieve
    BY <2>1, FreshnessAssumption
  <2>5. QED
    BY <1>1, <1>4, <1>6, <2>1, <2>2, <2>3, <2>4, ServerStep
<1>7. ASSUME NEW c \in Op,
             run_freshness_file_server_retrieve(c) \/ run_freshness_hash_server_retrieve(c)
      PROVE  AloneInv'
  <2>1. c \in Retrieve /\ c \notin Store /\ UNCHANGED <<content, version, entry>>
    BY <1>7, FreshnessAssumption DEF run_freshness_file_server_retrieve, objects,
       run_freshness_hash_server_retrieve, GetEntry, GetVersion
  <2>2. /\ \A r \in Retrieve \ {c} : got'[r] = got[r]
        /\ \A d \in Op \ {c} : file'[d] = file[d] /\ hash'[d] = hash[d]
    BY <1>1, <1>7 DEF run_freshness_file_server_retrieve, run_freshness_hash_server_retrieve,
       GetEntry, GetVersion, HashStep, TypeOK
  <2>3. c \in alone /\ last # None => ReadAlone(c, last)'
    <3> SUFFICES ASSUME c \in alone, last # None PROVE ReadAlone(c, last)'
      OBVIOUS
    <3>1. ReadAlone(c, last) /\ content = last /\ entry = last /\ version = Ver[last]
      BY <1>1, <2>1 DEF AloneInv
    <3>2. last' = last
      BY <1>1, <1>7, ServerStep
    <3>3. CASE run_freshness_file_server_retrieve(c)
      BY <1>1, <2>1, <3>1, <3>2, <3>3 DEF run_freshness_file_server_retrieve, ReadAlone, TypeOK
    <3>4. CASE GetEntry(c)
      BY <1>1, <2>1, <3>1, <3>2, <3>4 DEF GetEntry, HashStep, ReadAlone, TypeOK
    <3>5. CASE GetVersion(c)
      BY <1>1, <2>1, <3>1, <3>2, <3>5 DEF GetVersion, HashStep, ReadAlone, TypeOK
    <3>6. QED
      BY <1>7, <3>3, <3>4, <3>5 DEF run_freshness_hash_server_retrieve
  <2>4. QED
    BY <1>1, <1>4, <1>7, <2>1, <2>2, <2>3, ServerStep
<1>8. CASE UNCHANGED vars
  BY <1>1, <1>8 DEF vars, objects, requests, history, AloneInv, StoredAlone, ReadAlone, UnderWay
<1>9. QED
  BY <1>2, <1>3, <1>5, <1>6, <1>7, <1>8 DEF Next

(* The invariant of the operations that run alone holds of every behaviour.*)
THEOREM FreshInvariant == Spec => []FreshInv
<1>1. Init => FreshInv
  BY InitType DEF Init, FreshInv, RequestInv, AloneInv
<1>2. FreshInv /\ [Next]_vars => FreshInv'
  BY TypeStep, RequestStep, AloneStep DEF FreshInv
<1>3. QED
  BY <1>1, <1>2, PTL DEF Spec

(***************************************************************************)
(* A store that ran alone makes the file fresh again: the retrieves that   *)
(* run alone after it and lose no request report its content and its       *)
(* version, whatever earlier overlapping or half-done stores left on the   *)
(* two servers.                                                            *)
(***************************************************************************)
THEOREM FreshAfterStoreHolds == Spec => FreshAfterStore
<1>1. FreshInv /\ [Next]_vars =>
      [\A c \in Retrieve :
          End(c) /\ last # None /\ c \in alone /\ "failed" \notin {file[c], hash[c]} =>
              /\ outcome'[c] = "fresh"
              /\ got[c].content = last
              /\ got[c].version = Ver[last]]_vars
  <2> SUFFICES ASSUME FreshInv, NEW c \in Retrieve, End(c), last # None, c \in alone,
                      "failed" \notin {file[c], hash[c]}
               PROVE  outcome'[c] = "fresh" /\ got[c].content = last /\ got[c].version = Ver[last]
    OBVIOUS
  <2>1. c \in Op /\ c \notin Store
    BY FreshnessAssumption DEF Op
  <2>2. file[c] = "done" /\ hash[c] = "done"
    BY <2>1 DEF End, Ended, FreshInv, RequestInv
  <2>3. ReadAlone(c, last)
    BY DEF FreshInv, AloneInv
  <2>4. Report(c) = "fresh"
    BY <2>1, <2>2, <2>3 DEF Report, ReadAlone
  <2>5. QED
    BY <2>1, <2>2, <2>3, <2>4 DEF End, ReadAlone, FreshInv, TypeOK
<1>2. QED
  BY <1>1, FreshInvariant, PTL DEF Spec, FreshAfterStore

=============================================================================
