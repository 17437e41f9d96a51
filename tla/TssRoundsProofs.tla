-------------------------- MODULE TssRoundsProofs --------------------------
(***************************************************************************)
(* Proofs about the message loops of KeyGenParty and SigningParty, for any *)
(* number of parties and any script of broadcast and point-to-point types. *)
(*                                                                         *)
(* The invariant counts.  What a party has sent to, and received from,     *)
(* another one is a function of where its loop is (Sent and Rcvd), and the *)
(* two differ by at most one.  A connection holds exactly what was sent    *)
(* and not received, in the order of the types.                            *)
(***************************************************************************)
EXTENDS TssRounds, Integers, TLAPS

\* In the current slot, party p has sent its message to q.
HasSent(p, q) ==
    IF slot[p] \in P2P
    THEN q < peer[p] \/ (q = peer[p] /\ phase[p] = "recv")
    ELSE phase[p] = "recv" \/ (phase[p] = "send" /\ q < peer[p])

\* In the current slot, party p has received the message of q.
HasRcvd(p, q) ==
    IF slot[p] \in P2P THEN q < peer[p] ELSE phase[p] = "recv" /\ q < peer[p]

Sent(p, q) == IF HasSent(p, q) THEN slot[p] ELSE slot[p] - 1
Rcvd(p, q) == IF HasRcvd(p, q) THEN slot[p] ELSE slot[p] - 1

\* s holds the types after r, in order.
IsRun(s, r) == \A i \in 1 .. Len(s) : s[i] = r + i

LoopInv ==
    \A p \in Party :
        /\ peer[p] # p
        /\ slot[p] \notin P2P /\ phase[p] = "select" => peer[p] = First(p)
        /\ slot[p] = L + 1 => phase[p] = "select"
        /\ status[p] = "done" => slot[p] = L + 1

WireInv ==
    \A p, q \in Party :
        IF p = q THEN wire[p][q] = <<>>
        ELSE /\ Sent(p, q) = Rcvd(q, p) + Len(wire[p][q])
             /\ IsRun(wire[p][q], Rcvd(q, p))

RoundsInv == TypeOK /\ TypesAgree /\ LoopInv /\ WireInv

-----------------------------------------------------------------------------
(* otherPartyIDs is walked in order: First is its least element, Last its  *)
(* greatest, and After(p, q) comes right after q.                          *)
LEMMA Order ==
    ASSUME NEW p \in Party
    PROVE  /\ First(p) \in Party \ {p}
           /\ \A q \in Party \ {p} : First(p) <= q /\ q <= Last(p)
           /\ \A q \in Party \ {p} : q # Last(p) =>
                 /\ After(p, q) \in Party \ {p}
                 /\ \A r \in Party \ {p} : r < After(p, q) <=> r <= q
BY RoundsAssumption DEF Party, First, Last, After

(* Sending the next type keeps a run a run.                                *)
LEMMA AppendRun ==
    ASSUME NEW s \in Seq(Type), NEW r \in Nat, IsRun(s, r),
           NEW t \in Type, t = r + Len(s) + 1
    PROVE  /\ Append(s, t) \in Seq(Type)
           /\ Len(Append(s, t)) = Len(s) + 1
           /\ IsRun(Append(s, t), r)
BY DEF IsRun, Type

(* Receiving takes the least type of a run.                                *)
LEMMA TailRun ==
    ASSUME NEW s \in Seq(Type), NEW r \in Nat, IsRun(s, r), s # <<>>
    PROVE  /\ Head(s) = r + 1
           /\ Tail(s) \in Seq(Type)
           /\ Len(Tail(s)) = Len(s) - 1
           /\ IsRun(Tail(s), r + 1)
BY DEF IsRun, Type

(* A party is at most one message ahead of what it has received.           *)
LEMMA Counts ==
    ASSUME TypeOK, NEW p \in Party, NEW q \in Party
    PROVE  /\ Sent(p, q) \in Nat /\ Rcvd(p, q) \in Nat
           /\ Rcvd(p, q) <= Sent(p, q) /\ Sent(p, q) <= Rcvd(p, q) + 1
           /\ Sent(p, q) <= slot[p]
           /\ slot[p] - 1 <= Rcvd(p, q)
<1>1. slot[p] \in 1 .. L + 1 /\ L \in Nat
  BY RoundsAssumption DEF TypeOK
<1>2. HasRcvd(p, q) => HasSent(p, q)
  BY DEF HasSent, HasRcvd
<1>3. QED
  BY <1>1, <1>2 DEF Sent, Rcvd

-----------------------------------------------------------------------------
(* At the start nothing is sent, received or under way.                    *)
LEMMA InitRounds == Init => RoundsInv
<1> SUFFICES ASSUME Init PROVE RoundsInv
  OBVIOUS
<1> USE RoundsAssumption
<1>1. TypeOK
  <2>1. \A p \in Party : First(p) \in Party
    BY Order
  <2>2. 1 \in 1 .. L + 1
    OBVIOUS
  <2>3. QED
    BY <2>1, <2>2 DEF Init, TypeOK
<1>2. TypesAgree
  BY DEF Init, TypesAgree
<1>3. LoopInv
  BY Order DEF Init, LoopInv, Type
<1>4. ASSUME NEW p \in Party, NEW q \in Party, p # q
      PROVE  Sent(p, q) = 0 /\ Rcvd(p, q) = 0
  <2>1. First(p) <= q /\ First(p) \in Party /\ q \in Int /\ First(p) \in Int
    BY <1>4, Order DEF Party
  <2>2. ~ (q < First(p))
    BY <2>1
  <2>3. slot[p] = 1 /\ phase[p] = "select" /\ peer[p] = First(p)
    BY DEF Init
  <2>4. ~ HasSent(p, q) /\ ~ HasRcvd(p, q)
    BY <2>2, <2>3 DEF HasSent, HasRcvd
  <2>5. QED
    BY <2>3, <2>4 DEF Sent, Rcvd
<1>5. WireInv
  <2> SUFFICES ASSUME NEW p \in Party, NEW q \in Party
               PROVE  IF p = q THEN wire[p][q] = <<>>
                      ELSE /\ Sent(p, q) = Rcvd(q, p) + Len(wire[p][q])
                           /\ IsRun(wire[p][q], Rcvd(q, p))
    BY DEF WireInv
  <2>1. wire[p][q] = <<>>
    BY DEF Init
  <2>2. CASE p # q
    BY <1>4, <2>1, <2>2 DEF IsRun
  <2>3. QED
    BY <2>1, <2>2
<1>6. QED
  BY <1>1, <1>2, <1>3, <1>5 DEF RoundsInv

(* Taking a message from outCh sends and receives nothing.                 *)
LEMMA TakeCounts ==
    ASSUME RoundsInv, NEW p \in Party, TakeMessage(p)
    PROVE  \A a, b \in Party : a # b =>
              Sent(a, b)' = Sent(a, b) /\ Rcvd(a, b)' = Rcvd(a, b)
<1> SUFFICES ASSUME NEW a \in Party, NEW b \in Party, a # b
             PROVE  Sent(a, b)' = Sent(a, b) /\ Rcvd(a, b)' = Rcvd(a, b)
  OBVIOUS
<1>1. slot' = slot /\ peer' = peer /\ phase \in [Party -> {"select", "send", "recv"}]
  BY DEF TakeMessage, RoundsInv, TypeOK
<1>2. CASE a # p
  BY <1>1, <1>2 DEF TakeMessage, Sent, Rcvd, HasSent, HasRcvd
<1>3. CASE a = p
  <2>1. phase[p] = "select" /\ phase'[p] = "send"
    BY <1>1 DEF TakeMessage
  <2>2. slot[p] \notin P2P => ~ (b < peer[p])
    <3>1. First(p) <= b /\ First(p) \in Int /\ b \in Int
      BY <1>3, Order DEF Party
    <3>2. slot[p] \notin P2P => peer[p] = First(p)
      BY <2>1 DEF RoundsInv, LoopInv
    <3>3. QED
      BY <3>1, <3>2
  <2>3. HasSent(p, b)' = HasSent(p, b) /\ HasRcvd(p, b)' = HasRcvd(p, b)
    BY <1>1, <2>1, <2>2 DEF HasSent, HasRcvd
  <2>4. QED
    BY <1>1, <1>3, <2>3 DEF Sent, Rcvd
<1>4. QED
  BY <1>2, <1>3

(* Sending counts for the party sent to, and for no other.                 *)
LEMMA SendCounts ==
    ASSUME RoundsInv, NEW p \in Party, sendTSSMessage(p)
    PROVE  /\ ~ HasSent(p, peer[p])
           /\ \A a, b \in Party : a # b =>
                /\ Sent(a, b)' = IF a = p /\ b = peer[p] THEN slot[p] ELSE Sent(a, b)
                /\ Rcvd(a, b)' = Rcvd(a, b)
<1> DEFINE q == peer[p]
<1>1. /\ q \in Party \ {p} /\ q \in Int
      /\ phase \in [Party -> {"select", "send", "recv"}]
      /\ peer \in [Party -> Party]
      /\ phase[p] = "send" /\ slot' = slot
  BY DEF RoundsInv, TypeOK, LoopInv, sendTSSMessage, Party
<1>2. ~ HasSent(p, q)
  BY <1>1 DEF HasSent
<1>3. ASSUME NEW a \in Party, NEW b \in Party, a # p
      PROVE  Sent(a, b)' = Sent(a, b) /\ Rcvd(a, b)' = Rcvd(a, b)
  <2>1. slot'[a] = slot[a] /\ peer'[a] = peer[a] /\ phase'[a] = phase[a]
    BY <1>1, <1>3 DEF sendTSSMessage
  <2>2. QED
    BY <2>1 DEF Sent, Rcvd, HasSent, HasRcvd
<1>4. ASSUME NEW b \in Party \ {p}
      PROVE  /\ HasSent(p, b)' = (b = q \/ HasSent(p, b))
             /\ HasRcvd(p, b)' = HasRcvd(p, b)
  <2>1. b \in Int /\ First(p) \in Int /\ Last(p) \in Int /\ First(p) <= b /\ b <= Last(p)
    BY Order, RoundsAssumption DEF Party, Last
  <2>2. CASE slot[p] \in P2P
    <3>1. phase'[p] = "recv" /\ peer'[p] = q
      BY <1>1, <2>2 DEF sendTSSMessage
    <3>2. QED
      BY <1>1, <2>1, <2>2, <3>1 DEF HasSent, HasRcvd
  <2>3. CASE slot[p] \notin P2P /\ q # Last(p)
    <3>1. phase'[p] = "send" /\ peer'[p] = After(p, q)
      BY <1>1, <2>3 DEF sendTSSMessage
    <3>2. b < After(p, q) <=> b <= q
      BY <1>1, <2>3, Order
    <3>3. QED
      BY <1>1, <2>1, <2>3, <3>1, <3>2 DEF HasSent, HasRcvd
  <2>4. CASE slot[p] \notin P2P /\ q = Last(p)
    <3>1. phase'[p] = "recv" /\ peer'[p] = First(p)
      BY <1>1, <2>4 DEF sendTSSMessage
    <3>2. QED
      BY <1>1, <2>1, <2>4, <3>1 DEF HasSent, HasRcvd
  <2>5. QED
    BY <2>2, <2>3, <2>4
<1>5. ASSUME NEW b \in Party \ {p}
      PROVE  /\ Sent(p, b)' = IF b = q THEN slot[p] ELSE Sent(p, b)
             /\ Rcvd(p, b)' = Rcvd(p, b)
  BY <1>1, <1>4 DEF Sent, Rcvd
<1>6. QED
  BY <1>2, <1>3, <1>5

(* Receiving, when the type is the expected one, counts for the party      *)
(* received from, and for no other.                                        *)
LEMMA RecvCounts ==
    ASSUME RoundsInv, NEW p \in Party, phase[p] = "recv", Advance(p)
    PROVE  /\ ~ HasRcvd(p, peer[p])
           /\ \A a, b \in Party : a # b =>
                /\ Sent(a, b)' = Sent(a, b)
                /\ Rcvd(a, b)' = IF a = p /\ b = peer[p] THEN slot[p] ELSE Rcvd(a, b)
<1> DEFINE q == peer[p]
<1>1. /\ q \in Party \ {p} /\ q \in Int
      /\ phase \in [Party -> {"select", "send", "recv"}]
      /\ peer \in [Party -> Party]
      /\ slot \in [Party -> 1 .. L + 1] /\ slot[p] \in Int
  <2>1. q \in Party \ {p} /\ slot[p] \in 1 .. L + 1
    BY DEF RoundsInv, TypeOK, LoopInv
  <2>2. q \in Int /\ slot[p] \in Int
    BY <2>1, RoundsAssumption DEF Party
  <2>3. QED
    BY <2>1, <2>2 DEF RoundsInv, TypeOK
<1>2. ~ HasRcvd(p, q)
  BY <1>1 DEF HasRcvd
<1>3. ASSUME NEW a \in Party, NEW b \in Party, a # p
      PROVE  Sent(a, b)' = Sent(a, b) /\ Rcvd(a, b)' = Rcvd(a, b)
  <2>1. slot'[a] = slot[a] /\ peer'[a] = peer[a] /\ phase'[a] = phase[a]
    BY <1>1, <1>3 DEF Advance
  <2>2. QED
    BY <2>1 DEF Sent, Rcvd, HasSent, HasRcvd
<1>4. ASSUME NEW b \in Party \ {p}
      PROVE  /\ Sent(p, b)' = Sent(p, b)
             /\ Rcvd(p, b)' = IF b = q THEN slot[p] ELSE Rcvd(p, b)
  <2>1. b \in Int /\ First(p) \in Int /\ Last(p) \in Int /\ First(p) <= b /\ b <= Last(p)
    BY Order, RoundsAssumption DEF Party, Last
  <2>2. CASE q = Last(p)
    <3>1. slot'[p] = slot[p] + 1 /\ peer'[p] = First(p) /\ phase'[p] = "select"
      BY <1>1, <2>2 DEF Advance
    <3>2. ~ HasSent(p, b)' /\ ~ HasRcvd(p, b)'
      BY <2>1, <3>1 DEF HasSent, HasRcvd
    <3>3. HasSent(p, b) /\ (b # q => HasRcvd(p, b))
      BY <1>1, <2>1, <2>2 DEF HasSent, HasRcvd
    <3>4. QED
      BY <1>1, <3>1, <3>2, <3>3 DEF Sent, Rcvd
  <2>3. CASE q # Last(p)
    <3>1. slot' = slot /\ peer'[p] = After(p, q)
      BY <1>1, <2>3 DEF Advance
    <3>2. b < After(p, q) <=> b <= q
      BY <1>1, <2>3, Order
    <3>3. phase'[p] = IF slot[p] \in P2P THEN "select" ELSE "recv"
      BY <1>1, <2>3 DEF Advance
    <3>4. HasSent(p, b)' = HasSent(p, b)
      BY <1>1, <2>1, <3>1, <3>2, <3>3 DEF HasSent
    <3>5. HasRcvd(p, b)' = (b = q \/ HasRcvd(p, b))
      BY <1>1, <2>1, <3>1, <3>2, <3>3 DEF HasRcvd
    <3>6. QED
      BY <3>1, <3>4, <3>5 DEF Sent, Rcvd
  <2>4. QED
    BY <2>2, <2>3
<1>5. QED
  BY <1>2, <1>3, <1>4

(* A pair of parties whose counts and connection stay keeps its part of    *)
(* WireInv.                                                                *)
LEMMA WireKeptPair ==
    ASSUME WireInv, NEW a \in Party, NEW b \in Party,
           a # b => Sent(a, b)' = Sent(a, b) /\ Rcvd(b, a)' = Rcvd(b, a),
           wire'[a][b] = wire[a][b]
    PROVE  (IF a = b THEN wire[a][b] = <<>>
            ELSE /\ Sent(a, b) = Rcvd(b, a) + Len(wire[a][b])
                 /\ IsRun(wire[a][b], Rcvd(b, a)))'
<1>1. CASE a = b
  BY <1>1 DEF WireInv
<1>2. CASE a # b
  <2>1. Sent(a, b) = Rcvd(b, a) + Len(wire[a][b]) /\ IsRun(wire[a][b], Rcvd(b, a))
    BY <1>2 DEF WireInv
  <2>2. Sent(a, b)' = Rcvd(b, a)' + Len(wire'[a][b])
    BY <1>2, <2>1
  <2>3. IsRun(wire'[a][b], Rcvd(b, a)')
    BY <1>2, <2>1
  <2>4. QED
    BY <1>2, <2>2, <2>3 DEF IsRun
<1>3. QED
  BY <1>1, <1>2

(* A step that leaves the counts and the connections alone keeps WireInv.  *)
LEMMA WireKept ==
    ASSUME WireInv, wire' = wire,
           \A a, b \in Party : a # b =>
              Sent(a, b)' = Sent(a, b) /\ Rcvd(a, b)' = Rcvd(a, b)
    PROVE  WireInv'
BY WireKeptPair DEF WireInv

-----------------------------------------------------------------------------
(* TakeMessage changes the phase only.                                     *)
LEMMA StepTake ==
    ASSUME RoundsInv, NEW p \in Party, TakeMessage(p)
    PROVE  RoundsInv'
<1>1. TypeOK' /\ TypesAgree'
  BY DEF RoundsInv, TypeOK, TypesAgree, TakeMessage
<1>2. LoopInv'
  <2>1. phase'[p] = "send" /\ slot[p] # L + 1
    BY RoundsAssumption DEF RoundsInv, TypeOK, TakeMessage
  <2>2. \A a \in Party \ {p} : phase'[a] = phase[a]
    BY DEF RoundsInv, TypeOK, TakeMessage
  <2>3. QED
    BY <2>1, <2>2 DEF RoundsInv, LoopInv, TakeMessage
<1>3. WireInv'
  BY TakeCounts, WireKept DEF RoundsInv, TakeMessage
<1>4. QED
  BY <1>1, <1>2, <1>3 DEF RoundsInv

(* What is sent is the type after the last one on the connection.          *)
LEMMA StepSend ==
    ASSUME RoundsInv, NEW p \in Party, sendTSSMessage(p)
    PROVE  RoundsInv'
<1>0. PICK q \in Party \ {p} : q = peer[p]
  BY DEF RoundsInv, TypeOK, LoopInv
<1>1. /\ q \in Party \ {p} /\ q = peer[p]
      /\ slot[p] \in Type
      /\ wire \in [Party -> [Party -> Seq(Type)]]
      /\ wire[p][q] \in Seq(Type)
  <2>1. slot[p] \in 1 .. L + 1 /\ slot[p] # L + 1
    BY DEF RoundsInv, TypeOK, LoopInv, sendTSSMessage
  <2>2. slot[p] \in Type
    BY <2>1, RoundsAssumption DEF Type
  <2>3. QED
    BY <1>0, <2>2 DEF RoundsInv, TypeOK
<1>2. slot[p] = Rcvd(q, p) + Len(wire[p][q]) + 1 /\ Rcvd(q, p) \in Nat
      /\ IsRun(wire[p][q], Rcvd(q, p))
  <2>1. Sent(p, q) = slot[p] - 1
    BY <1>1, SendCounts DEF Sent
  <2>2. Sent(p, q) = Rcvd(q, p) + Len(wire[p][q]) /\ IsRun(wire[p][q], Rcvd(q, p))
    BY <1>1 DEF RoundsInv, WireInv
  <2>3. Rcvd(q, p) \in Nat
    BY <1>1, Counts DEF RoundsInv
  <2>4. Len(wire[p][q]) \in Nat /\ slot[p] \in Nat
    BY <1>1 DEF Type
  <2>5. QED
    BY <2>1, <2>2, <2>3, <2>4
<1>3. /\ Append(wire[p][q], slot[p]) \in Seq(Type)
      /\ Len(Append(wire[p][q], slot[p])) = Len(wire[p][q]) + 1
      /\ IsRun(Append(wire[p][q], slot[p]), Rcvd(q, p))
  BY <1>1, <1>2, AppendRun
<1>4. /\ wire'[p][q] = Append(wire[p][q], slot[p])
      /\ \A a, b \in Party : ~ (a = p /\ b = q) => wire'[a][b] = wire[a][b]
      /\ wire' \in [Party -> [Party -> Seq(Type)]]
  BY <1>1, <1>3 DEF sendTSSMessage
<1>A. PICK x \in Party \ {p} : peer' = [peer EXCEPT ![p] = x]
  <2>1. First(p) \in Party \ {p} /\ (q # Last(p) => After(p, q) \in Party \ {p})
    BY <1>1, Order
  <2>2. CASE slot[p] \notin P2P /\ q # Last(p)
    BY <1>1, <2>1, <2>2 DEF sendTSSMessage
  <2>3. CASE slot[p] \in P2P
    BY <1>1, <2>3 DEF sendTSSMessage
  <2>4. CASE slot[p] \notin P2P /\ q = Last(p)
    BY <1>1, <2>1, <2>4 DEF sendTSSMessage
  <2>5. QED
    BY <2>2, <2>3, <2>4
<1>5. TypeOK' /\ TypesAgree'
  <2>1. peer' \in [Party -> Party]
    BY <1>A DEF RoundsInv, TypeOK
  <2>2. phase' \in [Party -> {"select", "send", "recv"}]
    BY DEF RoundsInv, TypeOK, sendTSSMessage
  <2>3. QED
    BY <1>4, <2>1, <2>2 DEF RoundsInv, TypeOK, TypesAgree, sendTSSMessage
<1>6. LoopInv'
  <2>1. \A a \in Party : peer'[a] # a
    BY <1>A DEF RoundsInv, TypeOK, LoopInv
  <2>2. phase'[p] \in {"send", "recv"} /\ slot[p] # L + 1 /\ status[p] # "done"
    BY <1>1, RoundsAssumption DEF RoundsInv, TypeOK, sendTSSMessage, LoopInv
  <2>3. \A a \in Party \ {p} : peer'[a] = peer[a] /\ phase'[a] = phase[a]
    BY DEF RoundsInv, TypeOK, sendTSSMessage
  <2>4. QED
    BY <2>1, <2>2, <2>3 DEF RoundsInv, LoopInv, sendTSSMessage
<1>7. WireInv'
  <2> SUFFICES ASSUME NEW a \in Party, NEW b \in Party
               PROVE  (IF a = b THEN wire[a][b] = <<>>
                       ELSE /\ Sent(a, b) = Rcvd(b, a) + Len(wire[a][b])
                            /\ IsRun(wire[a][b], Rcvd(b, a)))'
    BY DEF WireInv
  <2>2. CASE ~ (a = p /\ b = q)
    <3>1. a # b => Sent(a, b)' = Sent(a, b) /\ Rcvd(b, a)' = Rcvd(b, a)
      BY <1>1, <2>2, SendCounts
    <3>2. wire'[a][b] = wire[a][b]
      BY <1>4, <2>2
    <3>3. QED
      BY <3>1, <3>2, WireKeptPair DEF RoundsInv
  <2>3. CASE a = p /\ b = q
    <3>1. Rcvd(q, p)' = Rcvd(q, p) /\ Sent(p, q)' = slot[p]
      BY <1>1, SendCounts
    <3>2. Sent(p, q)' = Rcvd(q, p)' + Len(wire'[p][q])
      <4>1. wire[p][q] \in Seq(Type)
        BY <1>1
      <4>2. Len(wire[p][q]) \in Nat
        BY <4>1
      <4>3. wire'[p][q] = Append(wire[p][q], slot[p])
        BY <1>4
      <4>4. Len(wire'[p][q]) = Len(wire[p][q]) + 1
        BY <1>3, <4>3
      <4>5. QED
        BY <1>2, <3>1, <4>2, <4>4
    <3>3. IsRun(wire[p][q], Rcvd(q, p))'
      BY <1>3, <1>4, <3>1 DEF IsRun
    <3>4. QED
      BY <1>1, <2>3, <3>2, <3>3
  <2>4. QED
    BY <2>2, <2>3
<1>8. QED
  BY <1>5, <1>6, <1>7 DEF RoundsInv

(* What is received is the type that was sent last: the branch that ends   *)
(* the process on a mismatch is not taken.                                 *)
LEMMA StepRecv ==
    ASSUME RoundsInv, NEW p \in Party, recvTSSMessage(p)
    PROVE  RoundsInv'
<1>0. PICK q \in Party \ {p} : q = peer[p]
  BY DEF RoundsInv, TypeOK, LoopInv
<1>1. /\ phase[p] = "recv" /\ status[p] = "run"
      /\ wire \in [Party -> [Party -> Seq(Type)]]
      /\ wire[q][p] \in Seq(Type)
      /\ wire[q][p] # <<>>
  BY <1>0 DEF RoundsInv, TypeOK, recvTSSMessage
<1>2. slot[p] \in Type /\ slot[p] \in Nat /\ L \in Nat
  <2>1. slot[p] \in 1 .. L + 1 /\ slot[p] # L + 1
    BY <1>1 DEF RoundsInv, TypeOK, LoopInv
  <2>2. QED
    BY <2>1, RoundsAssumption DEF Type
<1>3. Rcvd(p, q) = slot[p] - 1 /\ Rcvd(p, q) \in Nat
  <2>1. q \in Int
    BY DEF Party
  <2>2. ~ HasRcvd(p, q)
    BY <1>0, <2>1 DEF HasRcvd
  <2>3. QED
    BY <2>2, Counts DEF Rcvd, RoundsInv
<1>4. /\ Sent(q, p) = Rcvd(p, q) + Len(wire[q][p])
      /\ IsRun(wire[q][p], Rcvd(p, q))
  BY DEF RoundsInv, WireInv
<1>5. /\ Head(wire[q][p]) = Rcvd(p, q) + 1
      /\ Tail(wire[q][p]) \in Seq(Type)
      /\ Len(Tail(wire[q][p])) = Len(wire[q][p]) - 1
      /\ IsRun(Tail(wire[q][p]), Rcvd(p, q) + 1)
  BY <1>1, <1>3, <1>4, TailRun
<1>6. Head(wire[q][p]) = slot[p] /\ Rcvd(p, q) + 1 = slot[p]
  BY <1>2, <1>3, <1>5
<1>7. /\ Advance(p) /\ UNCHANGED <<status, mismatch>>
      /\ updating' = [updating EXCEPT ![p] = @ \cup {<<slot[p], q>>}]
      /\ wire' = [wire EXCEPT ![q][p] = Tail(@)]
  BY <1>0, <1>6 DEF recvTSSMessage
<1>8. /\ wire'[q][p] = Tail(wire[q][p])
      /\ \A a, b \in Party : ~ (a = q /\ b = p) => wire'[a][b] = wire[a][b]
      /\ wire' \in [Party -> [Party -> Seq(Type)]]
  BY <1>1, <1>5, <1>7
<1>9. PICK x \in Party \ {p} :
         /\ peer' = [peer EXCEPT ![p] = x]
         /\ \/ q = Last(p) /\ x = First(p) /\ slot' = [slot EXCEPT ![p] = @ + 1]
               /\ phase' = [phase EXCEPT ![p] = "select"]
            \/ /\ slot' = slot
               /\ phase' = [phase EXCEPT ![p] = IF slot[p] \in P2P THEN "select" ELSE "recv"]
  <2>1. First(p) \in Party \ {p} /\ (q # Last(p) => After(p, q) \in Party \ {p})
    BY Order
  <2>2. CASE q = Last(p)
    BY <1>0, <1>7, <2>1, <2>2 DEF Advance
  <2>3. CASE q # Last(p)
    BY <1>0, <1>7, <2>1, <2>3 DEF Advance
  <2>4. QED
    BY <2>2, <2>3
<1>10. TypeOK' /\ TypesAgree'
  <2>1. peer' \in [Party -> Party] /\ phase' \in [Party -> {"select", "send", "recv"}]
    BY <1>9 DEF RoundsInv, TypeOK
  <2>2. slot' \in [Party -> 1 .. L + 1]
    <3>1. slot[p] + 1 \in 1 .. L + 1
      BY <1>2 DEF Type
    <3>2. QED
      BY <1>9, <3>1 DEF RoundsInv, TypeOK
  <2>3. updating' \in [Party -> SUBSET (Type \X Party)]
    <3>1. <<slot[p], q>> \in Type \X Party
      BY <1>2
    <3>2. QED
      BY <1>7, <3>1 DEF RoundsInv, TypeOK
  <2>4. QED
    BY <1>7, <1>8, <2>1, <2>2, <2>3 DEF RoundsInv, TypeOK, TypesAgree
<1>11. LoopInv'
  <2>1. \A a \in Party \ {p} : /\ peer'[a] = peer[a] /\ phase'[a] = phase[a]
                               /\ slot'[a] = slot[a]
    BY <1>9 DEF RoundsInv, TypeOK
  <2>2. peer'[p] = x /\ status[p] # "done" /\ slot[p] # L + 1
    BY <1>1, <1>9 DEF RoundsInv, TypeOK, LoopInv
  <2>3. /\ slot'[p] \notin P2P /\ phase'[p] = "select" => x = First(p)
        /\ slot'[p] = L + 1 => phase'[p] = "select"
    BY <1>9, <2>2 DEF RoundsInv, TypeOK
  <2>4. QED
    BY <1>7, <2>1, <2>2, <2>3 DEF RoundsInv, LoopInv
<1>12. WireInv'
  <2> SUFFICES ASSUME NEW a \in Party, NEW b \in Party
               PROVE  (IF a = b THEN wire[a][b] = <<>>
                       ELSE /\ Sent(a, b) = Rcvd(b, a) + Len(wire[a][b])
                            /\ IsRun(wire[a][b], Rcvd(b, a)))'
    BY DEF WireInv
  <2>1. CASE ~ (a = q /\ b = p)
    <3>1. a # b => Sent(a, b)' = Sent(a, b) /\ Rcvd(b, a)' = Rcvd(b, a)
      BY <1>0, <1>1, <1>7, <2>1, RecvCounts
    <3>2. wire'[a][b] = wire[a][b]
      BY <1>8, <2>1
    <3>3. QED
      BY <3>1, <3>2, WireKeptPair DEF RoundsInv
  <2>2. CASE a = q /\ b = p
    <3>1. Sent(q, p)' = Sent(q, p) /\ Rcvd(p, q)' = slot[p]
      BY <1>0, <1>1, <1>7, RecvCounts
    <3>2. Sent(q, p)' = Rcvd(p, q)' + Len(wire'[q][p])
      <4>1. wire[q][p] \in Seq(Type)
        BY <1>1
      <4>2. Len(wire[q][p]) \in Nat
        BY <4>1
      <4>3. Len(wire'[q][p]) = Len(wire[q][p]) - 1
        BY <1>5, <1>8
      <4>4. QED
        BY <1>2, <1>3, <1>4, <3>1, <4>2, <4>3
    <3>3. IsRun(wire'[q][p], Rcvd(p, q)')
      BY <1>5, <1>6, <1>8, <3>1
    <3>4. QED
      BY <2>2, <3>2, <3>3 DEF IsRun
  <2>3. QED
    BY <2>1, <2>2
<1>13. QED
  BY <1>10, <1>11, <1>12 DEF RoundsInv

(* The other steps leave the loop's place and the connections alone; a     *)
(* party ends with its result only after the last type.                    *)
LEMMA StepOther ==
    ASSUME RoundsInv, NEW p \in Party,
           RecvFails(p) \/ Update(p) \/ Finish(p) \/ Crash(p)
    PROVE  RoundsInv'
<1>1. UNCHANGED <<slot, phase, peer, wire, mismatch>>
  BY DEF RecvFails, Update, Finish, Crash
<1>2. TypeOK' /\ TypesAgree'
  <2>1. status' \in [Party -> {"run", "done", "dead", "killed"}]
    BY DEF RoundsInv, TypeOK, RecvFails, Update, Finish, Crash
  <2>2. updating' \in [Party -> SUBSET (Type \X Party)]
    <3>1. updating \in [Party -> SUBSET (Type \X Party)]
      BY DEF RoundsInv, TypeOK
    <3>2. updating' = updating \/ \E m \in updating[p] : updating' = [updating EXCEPT ![p] = @ \ {m}]
      BY DEF RecvFails, Update, Finish, Crash
    <3>3. QED
      BY <3>1, <3>2
  <2>3. QED
    BY <1>1, <2>1, <2>2 DEF RoundsInv, TypeOK, TypesAgree
<1>3. LoopInv'
  <2>1. \A a \in Party : status'[a] = "done" => slot[a] = L + 1
    BY DEF RoundsInv, TypeOK, LoopInv, RecvFails, Update, Finish, Crash
  <2>2. QED
    BY <1>1, <2>1 DEF RoundsInv, LoopInv
<1>4. WireInv'
  <2>1. \A a, b \in Party : Sent(a, b)' = Sent(a, b) /\ Rcvd(a, b)' = Rcvd(a, b)
    BY <1>1 DEF Sent, Rcvd, HasSent, HasRcvd
  <2>2. QED
    BY <1>1, <2>1, WireKept DEF RoundsInv
<1>5. QED
  BY <1>2, <1>3, <1>4 DEF RoundsInv

-----------------------------------------------------------------------------
(* Every step of a party preserves the invariant.                          *)
LEMMA RoundsStep == RoundsInv /\ [Next]_vars => RoundsInv'
<1> SUFFICES ASSUME RoundsInv, [Next]_vars PROVE RoundsInv'
  OBVIOUS
<1>1. ASSUME NEW p \in Party, PartyLoop(p) \/ Crash(p)
      PROVE  RoundsInv'
  BY <1>1, StepTake, StepSend, StepRecv, StepOther DEF PartyLoop
<1>2. CASE UNCHANGED vars
  <2>1. UNCHANGED <<status, slot, phase, peer, wire, updating, mismatch>>
    BY <1>2 DEF vars
  <2>2. \A a, b \in Party : Sent(a, b)' = Sent(a, b) /\ Rcvd(a, b)' = Rcvd(a, b)
    BY <2>1 DEF Sent, Rcvd, HasSent, HasRcvd
  <2>3. WireInv'
    BY <2>1, <2>2, WireKept DEF RoundsInv
  <2>4. QED
    BY <2>1, <2>3 DEF RoundsInv, TypeOK, TypesAgree, LoopInv
<1>3. QED
  BY <1>1, <1>2 DEF Next

(* The counting invariant holds of every behaviour of the loops.           *)
THEOREM RoundsInvariant == Spec => []RoundsInv
<1>1. QED
  BY InitRounds, RoundsStep, PTL DEF Spec

(* The loops' variables keep their types; in particular the walk through   *)
(* otherPartyIDs never leaves the parties.                                 *)
THEOREM TypeCorrect == Spec => []TypeOK
<1>1. RoundsInv => TypeOK
  BY DEF RoundsInv
<1>2. QED
  BY <1>1, RoundsInvariant, PTL

(***************************************************************************)
(* In KeyGenParty and SigningParty the branch "Message received has type   *)
(* %s whereas message sent has type %s" is unreachable, for any number of  *)
(* parties, any script of types and any interleaving, crashes included.    *)
(***************************************************************************)
THEOREM TypesAgreeHolds == Spec => []TypesAgree
<1>1. RoundsInv => TypesAgree
  BY DEF RoundsInv
<1>2. QED
  BY <1>1, RoundsInvariant, PTL

(***************************************************************************)
(* Send-then-receive keeps the loops in lock step: no connection ever      *)
(* holds more than two messages in one direction.                          *)
(***************************************************************************)
THEOREM AtMostTwoInFlightHolds == Spec => []AtMostTwoInFlight
<1>1. RoundsInv => AtMostTwoInFlight
  <2> SUFFICES ASSUME RoundsInv, NEW p \in Party, NEW q \in Party
               PROVE  Len(wire[p][q]) <= 2
    BY DEF AtMostTwoInFlight
  <2>1. CASE p = q
    BY <2>1 DEF RoundsInv, WireInv
  <2>2. CASE p # q
    <3>1. /\ Sent(p, q) = Rcvd(q, p) + Len(wire[p][q])
          /\ Sent(q, p) = Rcvd(p, q) + Len(wire[q][p])
      BY <2>2 DEF RoundsInv, WireInv
    <3>2. wire[p][q] \in Seq(Type) /\ wire[q][p] \in Seq(Type)
      BY DEF RoundsInv, TypeOK
    <3>3. Len(wire[p][q]) \in Nat /\ Len(wire[q][p]) \in Nat
      BY <3>2
    <3>4. /\ Sent(p, q) \in Nat /\ Rcvd(p, q) \in Nat /\ Sent(p, q) <= Rcvd(p, q) + 1
          /\ Sent(q, p) \in Nat /\ Rcvd(q, p) \in Nat /\ Sent(q, p) <= Rcvd(q, p) + 1
      BY Counts DEF RoundsInv
    <3>5. Rcvd(p, q) <= Sent(q, p)
      BY <3>1, <3>3, <3>4
    <3>6. Sent(p, q) <= Rcvd(q, p) + 2
      BY <3>4, <3>5
    <3>7. QED
      BY <3>1, <3>3, <3>4, <3>6
  <2>3. QED
    BY <2>1, <2>2
<1>2. QED
  BY <1>1, RoundsInvariant, PTL

(***************************************************************************)
(* A party that has its result has read everything that was ever sent to   *)
(* it, so that its comm.Close() discards nothing.                          *)
(***************************************************************************)
THEOREM DoneHasReadAllHolds == Spec => []DoneHasReadAll
<1>1. RoundsInv => DoneHasReadAll
  <2> SUFFICES ASSUME RoundsInv, NEW p \in Party, NEW q \in Party, status[p] = "done"
               PROVE  wire[q][p] = <<>>
    BY DEF DoneHasReadAll
  <2>1. CASE p = q
    BY <2>1 DEF RoundsInv, WireInv
  <2>2. CASE p # q
    <3>1. slot[p] = L + 1 /\ L \in Nat
      BY RoundsAssumption DEF RoundsInv, LoopInv
    <3>2. L <= Rcvd(p, q) /\ Rcvd(p, q) \in Nat
      <4>1. slot[p] - 1 <= Rcvd(p, q) /\ Rcvd(p, q) \in Nat
        BY Counts DEF RoundsInv
      <4>2. QED
        BY <3>1, <4>1
    <3>3. Sent(q, p) <= L /\ Sent(q, p) \in Nat
      <4>1. slot[q] \in 1 .. L + 1 /\ Sent(q, p) \in Nat /\ Sent(q, p) <= slot[q]
        BY Counts DEF RoundsInv, TypeOK
      <4>2. CASE slot[q] # L + 1
        BY <3>1, <4>1, <4>2
      <4>3. CASE slot[q] = L + 1
        <5>1. L + 1 \notin P2P
          BY <3>1, RoundsAssumption DEF Type
        <5>2. ~ HasSent(q, p)
          BY <4>3, <5>1 DEF RoundsInv, LoopInv, HasSent
        <5>3. QED
          BY <3>1, <4>1, <4>3, <5>2 DEF Sent
      <4>4. QED
        BY <4>2, <4>3
    <3>4. Sent(q, p) = Rcvd(p, q) + Len(wire[q][p])
      BY <2>2 DEF RoundsInv, WireInv
    <3>5. wire[q][p] \in Seq(Type)
      BY DEF RoundsInv, TypeOK
    <3>6. Len(wire[q][p]) \in Nat
      BY <3>5
    <3>7. Len(wire[q][p]) = 0
      BY <3>1, <3>2, <3>3, <3>4, <3>6
    <3>8. QED
      BY <3>5, <3>7
  <2>3. QED
    BY <2>1, <2>2
<1>2. QED
  BY <1>1, RoundsInvariant, PTL

=============================================================================
