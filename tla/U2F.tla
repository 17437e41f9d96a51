-------------------------------- MODULE U2F ---------------------------------
(***************************************************************************)
(* U2F authentication of one user's operations.  An operation asks every   *)
(* party for a challenge, signs the root of a Merkle tree over them and    *)
(* returns to each party the root, the signature and the path of its own   *)
(* challenge.  A party keeps one challenge per user.  The attempt limiter  *)
(* counts what it rejects, under a key made of the request's "op"; this is *)
(* empty for a U2F and for a passcode authentication alike, so the user's  *)
(* passcodes use up, and give back, the same attempts.  U2F operations of  *)
(* the same user may overlap; what happens when one party handles two      *)
(* counted requests at a time is the subject of AuthGate.                  *)
(***************************************************************************)
EXTENDS Naturals, Sequences, SequencesExt, FiniteSets

CONSTANTS
    N,                    \* number of parties
    Op,                   \* U2F authentications of the user
    Passcode,             \* passcode authentications of the user
    MAX_FAULTY_ATTEMPTS,
    None                  \* no challenge yet

ASSUME U2FAssumption ==
    /\ N \in Nat \ {0}
    /\ IsFiniteSet(Op) /\ IsFiniteSet(Passcode)
    /\ MAX_FAULTY_ATTEMPTS \in Nat \ {0}
    /\ None \notin (1..N) \X Nat

VARIABLES
    issued,    \* issued[o][p]: challenge p made for o
    slot,      \* slot[p]: the object auth_u2f_challenge
    made,      \* made[p]: number of challenges p made, each a new one
    answer,    \* answer[o]: what the client of o sends to each party
    failed,    \* operations that end without an answer
    verdict,   \* verdict[o][p]: what p said to o's answer
    passcode,  \* passcode[c]: what came of the passcode authentication c
    counter,   \* counter[p]: attempts left
    locked     \* parties that refuse attempts for now

vars == <<issued, slot, made, answer, failed, verdict, passcode, counter, locked>>

Party == 1..N

-----------------------------------------------------------------------------
(* The Merkle tree.  Hashes are free: a node is the pair below it.  A node
   without a sibling moves up as it is (merkletools).                       *)

Leaf(c) == <<"leaf", c>>
Node(l, r) == <<"node", l, r>>

Above(level) ==
    [i \in 1..((Len(level) + 1) \div 2) |->
        IF 2 * i <= Len(level) THEN Node(level[2 * i - 1], level[2 * i]) ELSE level[2 * i - 1]]

\* the levels of the tree, the leaves first; one leaf per level is enough
Levels(cs) ==
    LET level[k \in 0..Len(cs)] ==
            IF k = 0 THEN [i \in 1..Len(cs) |-> Leaf(cs[i])] ELSE Above(level[k - 1])
    IN  level

build_tree(cs) == Levels(cs)[Len(cs)][1]

\* the place of leaf i's path in every level, and who is beside a place
Positions(i, n) ==
    LET pos[k \in 0..n] == IF k = 0 THEN i ELSE (pos[k - 1] + 1) \div 2
    IN  pos
Beside(j) == IF j % 2 = 1 THEN j + 1 ELSE j - 1

\* what a path takes from a level: the sibling, or nothing where there is none
PathStep(level, j) ==
    IF Beside(j) \in 1..Len(level)
    THEN [side |-> IF Beside(j) < j THEN "left" ELSE "right", hash |-> level[Beside(j)]]
    ELSE [side |-> "none", hash |-> None]

get_proof(cs, i) ==
    [k \in 1..Len(cs) |-> PathStep(Levels(cs)[k - 1], Positions(i, Len(cs))[k - 1])]

Combine(step, h) ==
    IF step.side = "left" THEN Node(step.hash, h)
    ELSE IF step.side = "right" THEN Node(h, step.hash) ELSE h

validate_proof(proof, leaf, root) ==
    LET h[k \in 0..Len(proof)] == IF k = 0 THEN leaf ELSE Combine(proof[k], h[k - 1])
    IN  h[Len(proof)] = root

-----------------------------------------------------------------------------
Init ==
    /\ issued = [o \in Op |-> [p \in Party |-> None]]
    /\ slot = [p \in Party |-> None]
    /\ made = [p \in Party |-> 0]
    /\ answer = [o \in Op |-> None]
    /\ failed = {}
    /\ verdict = [o \in Op |-> [p \in Party |-> "none"]]
    /\ passcode = [c \in Passcode |-> "none"]
    /\ counter = [p \in Party |-> MAX_FAULTY_ATTEMPTS]
    /\ locked = {}

\* p makes a challenge, stores it over the last one, then answers the request
auth_u2f_gen_challenge(o, p) ==
    /\ issued[o][p] = None
    /\ made' = [made EXCEPT ![p] = @ + 1]
    /\ issued' = [issued EXCEPT ![o][p] = <<p, made'[p]>>]
    /\ slot' = [slot EXCEPT ![p] = <<p, made'[p]>>]
    /\ UNCHANGED <<answer, failed, verdict, passcode, counter, locked>>

\* Mutant: the challenges stay in the order in which they came.
SortedAsTheyCame(o, came) == [i \in 1..N |-> issued[o][came[i]]]

\* sorted_challenges: by the number of the party
Sorted(o, came) ==
    LET keys == CHOOSE k \in SetToSeqs(ToSet(came)) :
                    \A i, j \in DOMAIN k : i < j => k[i] < k[j]
    IN  [i \in 1..N |-> issued[o][keys[i]]]

\* signatures with the user's key, which only the user's clients have
sign_message(m) == <<"signed", m>>
verify_signature(m, s) == s = sign_message(m)

\* the root, a path for each party and the signature of the root
generate_response(cs) ==
    [root |-> build_tree(cs),
     proofs |-> [i \in 1..N |-> get_proof(cs, i)],
     sig |-> sign_message(build_tree(cs))]

\* invoke returns when every party has answered, with the results in the
\* order in which they came; the client signs and sends
Sign(o, came) ==
    /\ answer[o] = None /\ o \notin failed
    /\ \A p \in Party : issued[o][p] # None
    /\ answer' = [answer EXCEPT ![o] = generate_response(Sorted(o, came))]
    /\ UNCHANGED <<issued, slot, made, failed, verdict, passcode, counter, locked>>

\* one party gave no challenge (its result has no such key), or the client
\* went away: the challenges the others stored stay behind
Fail(o) ==
    /\ answer[o] = None /\ o \notin failed
    /\ failed' = failed \cup {o}
    /\ UNCHANGED <<issued, slot, made, answer, verdict, passcode, counter, locked>>

verify_response(o, p) ==
    /\ verify_signature(answer[o].root, answer[o].sig)
    /\ validate_proof(answer[o].proofs[p], Leaf(slot[p]), answer[o].root)

\* Mutant: every attempt is counted, also one that is let in.
CountAll(ps, ok) ==
    /\ counter' = [p \in Party |-> IF p \in ps THEN counter[p] - 1 ELSE counter[p]]
    /\ locked' = (locked \ ps) \cup {p \in ps : counter'[p] = 0}

\* the limiter of handler_body at the parties ps; it only asks whether n <= 0
Count(ps, ok) ==
    /\ counter' = [p \in Party |-> IF p \notin ps THEN counter[p]
                                   ELSE IF ok THEN MAX_FAULTY_ATTEMPTS
                                   ELSE IF counter[p] > 0 THEN counter[p] - 1 ELSE 0]
    /\ locked' = (locked \ ps) \cup {p \in ps : counter'[p] = 0}

auth_u2f_verify_challenge(o, p) ==
    /\ answer[o] # None /\ verdict[o][p] = "none"
    /\ IF p \in locked
       THEN /\ verdict' = [verdict EXCEPT ![o][p] = "locked"]
            /\ UNCHANGED <<counter, locked>>
       ELSE /\ verdict' = [verdict EXCEPT ![o][p] = IF verify_response(o, p) THEN "passed" ELSE "failed"]
            /\ Count({p}, verify_response(o, p))
    /\ UNCHANGED <<issued, slot, made, answer, failed, passcode>>

\* The parties compare the passcode with the stored one in one computation, so
\* all get the same result and count it.  A party that is locked refuses before
\* it starts the computation; the others wait for it and count nothing.
auth_passcode(c, right) ==
    /\ passcode[c] = "none"
    /\ IF locked # {}
       THEN /\ passcode' = [passcode EXCEPT ![c] = "locked"]
            /\ UNCHANGED <<counter, locked>>
       ELSE /\ passcode' = [passcode EXCEPT ![c] = IF right THEN "passed" ELSE "failed"]
            /\ Count(Party, right)
    /\ UNCHANGED <<issued, slot, made, answer, failed, verdict>>

\* LOCKOUT_PERIOD is over: attempts are let in one by one, the counter stays
Expire(p) ==
    /\ p \in locked
    /\ locked' = locked \ {p}
    /\ UNCHANGED <<issued, slot, made, answer, failed, verdict, passcode, counter>>

Next ==
    \/ \E o \in Op, p \in Party :
          auth_u2f_gen_challenge(o, p) \/ auth_u2f_verify_challenge(o, p)
    \/ \E o \in Op, came \in SetToSeqs(Party) : Sign(o, came)
    \/ \E o \in Op : Fail(o)
    \/ \E c \in Passcode, right \in BOOLEAN : auth_passcode(c, right)
    \/ \E p \in Party : Expire(p)

Spec == Init /\ [][Next]_vars

-----------------------------------------------------------------------------
(***************************************************************************)
(* A party that is not locked says yes to exactly those answers that are   *)
(* about the challenge it made last: whatever the order in which the       *)
(* challenges reached the client, the path it sends to a party is the path *)
(* of that party's challenge, and it fits no other challenge.              *)
(***************************************************************************)
VerdictIsFreshness ==
    [][\A o \in Op, p \in Party :
          verdict[o][p] = "none" /\ verdict'[o][p] \in {"passed", "failed"} =>
              (verdict'[o][p] = "passed" <=> issued[o][p] = slot[p])]_vars

(***************************************************************************)
(* The user is locked out of a party by nothing but as many rejections as  *)
(* there are attempts: wrong passcodes, and U2F operations which this      *)
(* party overtook with a later challenge.  U2F operations one after the    *)
(* other, right passcodes and requests that are given up lock nobody out.  *)
(***************************************************************************)
LockedOnlyByFailures ==
    \A p \in locked :
        MAX_FAULTY_ATTEMPTS <=
            Cardinality({c \in Passcode : passcode[c] = "failed"})
            + Cardinality({o \in Op : /\ verdict[o][p] = "failed"
                                      /\ \E q \in Op : /\ issued[q][p] # None
                                                       /\ issued[q][p][2] > issued[o][p][2]})
=============================================================================
