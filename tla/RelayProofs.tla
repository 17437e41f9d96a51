---------------------------- MODULE RelayProofs ----------------------------
(***************************************************************************)
(* Proofs about the relay, for any set of parties, tags and connections.   *)
(*                                                                         *)
(* JoinsMatch and RolesDiffer are not inductive.  They follow from where a *)
(* connection can be: a fresh one is nowhere in the relay; one that was    *)
(* stored to wait (Stored) never becomes the connection that completes a   *)
(* pair, and the other way round; a map holds a connection only under the  *)
(* key of its own request.  That is JoinInv.                               *)
(*                                                                         *)
(* That the relay implements Rendezvous needs MeetInv: the two ends of a   *)
(* forwarder come up together, so a handshake never adds a second session. *)
(* Both hold for every reuse of tags.                                      *)
(*                                                                         *)
(* OneForwarderPerSocket, WaiterComplete and SessionEndsByItsEnds need the *)
(* discipline Reuse = "released".  Their invariant is ReuseInv: the relay  *)
(* holds at most one connection for every request, so no lookup, removal   *)
(* or close of one pair can hit the connection of another.                 *)
(***************************************************************************)
EXTENDS Relay, TLAPS

Fresh(c) == sock[c] \in {"none", "queued"}

Stored(c) == \/ \E k \in Key : openConns[k] = c \/ tlsConns[k] = c
             \/ c \in {dstConn, destTLS}
             \/ \E f \in Conn : c = fdst[f] \/ c = fdtls[f]

Pairing == {"getTLS", "ready1", "ready2", "fork"}

\* A connection is filed under the key of its own request.
KeyInv == \A k \in Key : openConns[k] # Nil => Req[openConns[k]] = k

LoopInv ==
    /\ pc \notin {"accept", "crashed"} => cur \in Conn
    /\ pc \in {"accept", "crashed"} => cur = Nil
    /\ pc \in Pairing => dstConn \in Conn /\ Req[dstConn] = PeerKey(cur)
    /\ pc \in {"ready1", "ready2", "fork"} => destTLS \in Conn

CurInv ==
    cur \in Conn =>
        /\ fwd[cur] = "none"
        /\ pc # "storeConn" => ~ Stored(cur)
        /\ pc \notin {"ready2", "fork"} => ready[cur] = "none"
        /\ ready[cur] \in {"none", "server"}

FreshInv ==
    \A c \in Conn :
        /\ client[c] = "idle" => sock[c] = "none"
        /\ Fresh(c) => /\ ~ Stored(c)
                       /\ fwd[c] = "none"
                       /\ c # cur
                       /\ ready[c] = "none"

RoleInv ==
    \A c \in Conn :
        /\ fwd[c] # "none" => ~ Stored(c) /\ ready[c] \in {"none", "server"}
        /\ Stored(c) => ready[c] \in {"none", "client"}

FwdInv ==
    \A f \in Conn : fwd[f] # "none" =>
        fdst[f] \in Conn /\ Req[fdst[f]] = PeerKey(f)

JoinInv == /\ TypeOK
           /\ KeyInv
           /\ LoopInv
           /\ CurInv
           /\ FreshInv
           /\ RoleInv
           /\ FwdInv

-----------------------------------------------------------------------------
(* Every key a request yields is a key of the maps, and a connection is    *)
(* stored under its own request.                                           *)
LEMMA KeysTyped ==
    \A c \in Conn : OwnKey(c) \in Key /\ PeerKey(c) \in Key /\ OwnKey(c) = Req[c]
<1> SUFFICES ASSUME NEW c \in Conn
             PROVE  OwnKey(c) \in Key /\ PeerKey(c) \in Key /\ OwnKey(c) = Req[c]
  OBVIOUS
<1>1. Req[c] \in Key
  BY RelayAssumption
<1>2. QED
  BY <1>1 DEF OwnKey, PeerKey, getKey, Key

(* At the start the maps are empty and every connection is fresh.          *)
LEMMA InitJoin == Init => JoinInv
<1> SUFFICES ASSUME Init PROVE JoinInv
  OBVIOUS
<1> USE RelayAssumption DEF Init
<1>1. TypeOK
  BY DEF TypeOK, SockState, LoopState, FwdState, ClientState, Mode
<1>2. \A c \in Conn : ~ Stored(c)
  BY DEF Stored
<1>3. KeyInv /\ LoopInv /\ CurInv /\ FwdInv
  BY DEF KeyInv, LoopInv, CurInv, FwdInv, Pairing
<1>4. FreshInv /\ RoleInv
  BY <1>2 DEF FreshInv, RoleInv
<1>5. QED
  BY <1>1, <1>3, <1>4 DEF JoinInv

(* The accepted connection was fresh: it is nowhere else in the relay.     *)
LEMMA StepAccept ==
    ASSUME JoinInv, NEW c \in Conn, Accept(c)
    PROVE  JoinInv'
<1> USE RelayAssumption, KeysTyped DEF Accept, store, loop, forwarders, clients, relayVars
<1>1. TypeOK'
  BY DEF JoinInv, LoopInv, TypeOK, SockState, LoopState, FwdState, ClientState, Mode
<1>2. KeyInv'
  BY DEF JoinInv, LoopInv, TypeOK, KeyInv
<1>3. LoopInv'
  BY DEF JoinInv, TypeOK, KeyInv, LoopInv, Pairing
<1>4. CurInv'
  BY DEF JoinInv, TypeOK, LoopInv, CurInv, FreshInv, RoleInv, Fresh, Stored, Pairing
<1>5. FreshInv'
  BY DEF JoinInv, TypeOK, LoopInv, CurInv, FreshInv, Fresh, Stored, Pairing
<1>6. RoleInv'
  BY DEF JoinInv, TypeOK, LoopInv, CurInv, FreshInv, RoleInv, Fresh, Stored, Pairing
<1>7. FwdInv'
  BY DEF JoinInv, TypeOK, LoopInv, FwdInv, Pairing
<1>8. QED
  BY <1>1, <1>2, <1>3, <1>4, <1>5, <1>6, <1>7 DEF JoinInv

(* The handshake changes the loop's place only.                            *)
LEMMA StepHandshake ==
    ASSUME JoinInv, Handshake
    PROVE  JoinInv'
<1> USE RelayAssumption, KeysTyped DEF Handshake, store, loop, forwarders, clients, relayVars
<1>1. TypeOK'
  BY DEF JoinInv, LoopInv, TypeOK, SockState, LoopState, FwdState, ClientState, Mode
<1>2. KeyInv'
  BY DEF JoinInv, LoopInv, TypeOK, KeyInv
<1>3. LoopInv'
  BY DEF JoinInv, TypeOK, KeyInv, LoopInv, Pairing
<1>4. CurInv'
  BY DEF JoinInv, TypeOK, LoopInv, CurInv, FreshInv, RoleInv, Fresh, Stored, Pairing
<1>5. FreshInv'
  BY DEF JoinInv, TypeOK, LoopInv, CurInv, FreshInv, Fresh, Stored, Pairing
<1>6. RoleInv'
  BY DEF JoinInv, TypeOK, LoopInv, CurInv, FreshInv, RoleInv, Fresh, Stored, Pairing
<1>7. FwdInv'
  BY DEF JoinInv, TypeOK, LoopInv, FwdInv, Pairing
<1>8. QED
  BY <1>1, <1>2, <1>3, <1>4, <1>5, <1>6, <1>7 DEF JoinInv

(* A connection that is turned away is closed and leaves the loop.         *)
LEMMA StepReject ==
    ASSUME JoinInv, HandshakeFails \/ ReadFails
    PROVE  JoinInv'
<1> USE RelayAssumption, KeysTyped DEF HandshakeFails, ReadFails, RejectCurrent, AcceptNext, store, loop, forwarders, clients, relayVars
<1>1. TypeOK'
  BY DEF JoinInv, LoopInv, TypeOK, SockState, LoopState, FwdState, ClientState, Mode
<1>2. KeyInv'
  BY DEF JoinInv, LoopInv, TypeOK, KeyInv
<1>3. LoopInv'
  BY DEF JoinInv, TypeOK, KeyInv, LoopInv, Pairing
<1>4. CurInv'
  BY DEF JoinInv, TypeOK, LoopInv, CurInv, FreshInv, RoleInv, Fresh, Stored, Pairing
<1>5. FreshInv'
  BY DEF JoinInv, TypeOK, LoopInv, CurInv, FreshInv, Fresh, Stored, Pairing
<1>6. RoleInv'
  BY DEF JoinInv, TypeOK, LoopInv, CurInv, FreshInv, RoleInv, Fresh, Stored, Pairing
<1>7. FwdInv'
  BY DEF JoinInv, TypeOK, LoopInv, FwdInv, Pairing
<1>8. QED
  BY <1>1, <1>2, <1>3, <1>4, <1>5, <1>6, <1>7 DEF JoinInv

(* The looked-up connection was filed under the mirror key.                *)
LEMMA StepGetConnection ==
    ASSUME JoinInv, GetConnection
    PROVE  JoinInv'
<1> USE RelayAssumption, KeysTyped DEF GetConnection, store, loop, forwarders, clients, relayVars
<1>1. TypeOK'
  BY DEF JoinInv, LoopInv, TypeOK, SockState, LoopState, FwdState, ClientState, Mode
<1>2. KeyInv'
  BY DEF JoinInv, LoopInv, TypeOK, KeyInv
<1>3. LoopInv'
  BY DEF JoinInv, TypeOK, KeyInv, LoopInv, Pairing
<1>4. CurInv'
  BY DEF JoinInv, TypeOK, LoopInv, CurInv, FreshInv, RoleInv, Fresh, Stored, Pairing
<1>5. FreshInv'
  BY DEF JoinInv, TypeOK, LoopInv, CurInv, FreshInv, Fresh, Stored, Pairing
<1>6. RoleInv'
  BY DEF JoinInv, TypeOK, LoopInv, CurInv, FreshInv, RoleInv, Fresh, Stored, Pairing
<1>7. FwdInv'
  BY DEF JoinInv, TypeOK, LoopInv, FwdInv, Pairing
<1>8. QED
  BY <1>1, <1>2, <1>3, <1>4, <1>5, <1>6, <1>7 DEF JoinInv

(* From here the current connection is Stored, and will never pair.        *)
LEMMA StepStoreTLS ==
    ASSUME JoinInv, StoreTLSConnection
    PROVE  JoinInv'
<1> USE RelayAssumption, KeysTyped DEF StoreTLSConnection, getKey, store, loop, forwarders, clients, relayVars
<1>1. TypeOK'
  BY DEF JoinInv, LoopInv, TypeOK, SockState, LoopState, FwdState, ClientState, Mode
<1>2. KeyInv'
  BY DEF JoinInv, LoopInv, TypeOK, KeyInv
<1>3. LoopInv'
  BY DEF JoinInv, TypeOK, KeyInv, LoopInv, Pairing
<1>4. CurInv'
  BY DEF JoinInv, TypeOK, LoopInv, CurInv, FreshInv, RoleInv, Fresh, Stored, Pairing
<1>5. FreshInv'
  BY DEF JoinInv, TypeOK, LoopInv, CurInv, FreshInv, Fresh, Stored, Pairing
<1>6. RoleInv'
  BY DEF JoinInv, TypeOK, LoopInv, CurInv, FreshInv, RoleInv, Fresh, Stored, Pairing
<1>7. FwdInv'
  BY DEF JoinInv, TypeOK, LoopInv, FwdInv, Pairing
<1>8. QED
  BY <1>1, <1>2, <1>3, <1>4, <1>5, <1>6, <1>7 DEF JoinInv

(* The current connection is filed under its own key, or closed.           *)
LEMMA StepStoreConn ==
    ASSUME JoinInv, StoreConnection
    PROVE  JoinInv'
<1> USE RelayAssumption, KeysTyped DEF StoreConnection, RejectCurrent, AcceptNext, getKey, store, loop, forwarders, clients, relayVars
<1>1. TypeOK'
  BY DEF JoinInv, LoopInv, TypeOK, SockState, LoopState, FwdState, ClientState, Mode
<1>2. KeyInv'
  BY DEF JoinInv, LoopInv, TypeOK, KeyInv
<1>3. LoopInv'
  BY DEF JoinInv, TypeOK, KeyInv, LoopInv, Pairing
<1>4. CurInv'
  BY DEF JoinInv, TypeOK, LoopInv, CurInv, FreshInv, RoleInv, Fresh, Stored, Pairing
<1>5. FreshInv'
  BY DEF JoinInv, TypeOK, LoopInv, CurInv, FreshInv, Fresh, Stored, Pairing
<1>6. RoleInv'
  BY DEF JoinInv, TypeOK, LoopInv, CurInv, FreshInv, RoleInv, Fresh, Stored, Pairing
<1>7. FwdInv'
  BY DEF JoinInv, TypeOK, LoopInv, FwdInv, Pairing
<1>8. QED
  BY <1>1, <1>2, <1>3, <1>4, <1>5, <1>6, <1>7 DEF JoinInv

(* The partner's TLS object comes from tlsConns: it is Stored.             *)
LEMMA StepGetTLS ==
    ASSUME JoinInv, GetTLSConnection
    PROVE  JoinInv'
<1> USE RelayAssumption, KeysTyped DEF GetTLSConnection, RejectCurrent, AcceptNext, store, loop, forwarders, clients, relayVars
<1>1. TypeOK'
  BY DEF JoinInv, LoopInv, TypeOK, SockState, LoopState, FwdState, ClientState, Mode, Pairing
<1>2. KeyInv'
  BY DEF JoinInv, LoopInv, TypeOK, KeyInv
<1>3. LoopInv'
  BY DEF JoinInv, TypeOK, KeyInv, LoopInv, Pairing
<1>4. CurInv'
  BY DEF JoinInv, TypeOK, LoopInv, CurInv, FreshInv, RoleInv, Fresh, Stored, Pairing
<1>5. FreshInv'
  BY DEF JoinInv, TypeOK, LoopInv, CurInv, FreshInv, Fresh, Stored, Pairing
<1>6. RoleInv'
  BY DEF JoinInv, TypeOK, LoopInv, CurInv, FreshInv, RoleInv, Fresh, Stored, Pairing
<1>7. FwdInv'
  BY DEF JoinInv, TypeOK, LoopInv, FwdInv, Pairing
<1>8. QED
  BY <1>1, <1>2, <1>3, <1>4, <1>5, <1>6, <1>7 DEF JoinInv

(* Only the current connection, which is not Stored, becomes server.       *)
LEMMA StepReadyServer ==
    ASSUME JoinInv, SendReadyServer
    PROVE  JoinInv'
<1> USE RelayAssumption, KeysTyped DEF SendReadyServer, sendReady, store, loop, forwarders, clients, relayVars
<1>1. TypeOK'
  BY DEF JoinInv, LoopInv, TypeOK, SockState, LoopState, FwdState, ClientState, Mode
<1>2. KeyInv'
  BY DEF JoinInv, LoopInv, TypeOK, KeyInv
<1>3. LoopInv'
  BY DEF JoinInv, TypeOK, KeyInv, LoopInv, Pairing
<1>4. CurInv'
  BY DEF JoinInv, TypeOK, LoopInv, CurInv, FreshInv, RoleInv, Fresh, Stored, Pairing
<1>5. FreshInv'
  BY DEF JoinInv, TypeOK, LoopInv, CurInv, FreshInv, Fresh, Stored, Pairing
<1>6. RoleInv'
  BY DEF JoinInv, TypeOK, LoopInv, CurInv, FreshInv, RoleInv, Fresh, Stored, Pairing
<1>7. FwdInv'
  BY DEF JoinInv, TypeOK, LoopInv, FwdInv, Pairing
<1>8. QED
  BY <1>1, <1>2, <1>3, <1>4, <1>5, <1>6, <1>7 DEF JoinInv

(* The connection taken from the map was stored, so it becomes the client. *)
LEMMA StepReadyClient ==
    ASSUME JoinInv, SendReadyClient
    PROVE  JoinInv'
<1> USE RelayAssumption, KeysTyped DEF SendReadyClient, sendReady, store, loop, forwarders, clients, relayVars
<1>1. TypeOK'
  BY DEF JoinInv, LoopInv, TypeOK, SockState, LoopState, FwdState, ClientState, Mode
<1>2. KeyInv'
  BY DEF JoinInv, LoopInv, TypeOK, KeyInv
<1>3. LoopInv'
  BY DEF JoinInv, TypeOK, KeyInv, LoopInv, Pairing
<1>4. CurInv'
  BY DEF JoinInv, TypeOK, LoopInv, CurInv, FreshInv, RoleInv, Fresh, Stored, Pairing
<1>5. FreshInv'
  BY DEF JoinInv, TypeOK, LoopInv, CurInv, FreshInv, Fresh, Stored, Pairing
<1>6. RoleInv'
  BY DEF JoinInv, TypeOK, LoopInv, CurInv, FreshInv, RoleInv, Fresh, Stored, Pairing
<1>7. FwdInv'
  BY DEF JoinInv, TypeOK, LoopInv, FwdInv, Pairing
<1>8. QED
  BY <1>1, <1>2, <1>3, <1>4, <1>5, <1>6, <1>7 DEF JoinInv

(* The loop's connection becomes one end of a pair, the stored one the     *)
(* other: the roles of both are settled.                                   *)
LEMMA StepFork ==
    ASSUME JoinInv, Fork
    PROVE  JoinInv'
<1> USE RelayAssumption, KeysTyped DEF Fork, AcceptNext, store, loop, forwarders, clients, relayVars
<1>1. TypeOK'
  BY DEF JoinInv, LoopInv, TypeOK, SockState, LoopState, FwdState, ClientState, Mode
<1>2. KeyInv'
  BY DEF JoinInv, LoopInv, TypeOK, KeyInv
<1>3. LoopInv'
  BY DEF JoinInv, TypeOK, KeyInv, LoopInv, Pairing
<1>4. CurInv'
  BY DEF JoinInv, TypeOK, LoopInv, CurInv, FreshInv, RoleInv, Fresh, Stored, Pairing
<1>5. FreshInv'
  BY DEF JoinInv, TypeOK, LoopInv, CurInv, FreshInv, Fresh, Stored, Pairing
<1>6. RoleInv'
  BY DEF JoinInv, TypeOK, LoopInv, CurInv, FreshInv, RoleInv, Fresh, Stored, Pairing
<1>7. FwdInv'
  BY DEF JoinInv, TypeOK, LoopInv, FwdInv, Pairing
<1>8. QED
  BY <1>1, <1>2, <1>3, <1>4, <1>5, <1>6, <1>7 DEF JoinInv

(* A crash empties the maps and closes every socket in use.                *)
LEMMA StepMapRace ==
    ASSUME JoinInv, MapRace
    PROVE  JoinInv'
<1> USE RelayAssumption, KeysTyped DEF MapRace, Active, store, loop, forwarders, clients, relayVars
<1>1. TypeOK'
  BY DEF JoinInv, LoopInv, TypeOK, SockState, LoopState, FwdState, ClientState, Mode
<1>2. KeyInv'
  BY DEF JoinInv, LoopInv, TypeOK, KeyInv
<1>3. LoopInv'
  BY DEF JoinInv, TypeOK, KeyInv, LoopInv, Pairing
<1>4. CurInv'
  BY DEF JoinInv, TypeOK, LoopInv, CurInv, FreshInv, RoleInv, Fresh, Stored, Pairing
<1>5. FreshInv'
  BY DEF JoinInv, TypeOK, LoopInv, CurInv, FreshInv, Fresh, Stored, Pairing
<1>6. RoleInv'
  BY DEF JoinInv, TypeOK, LoopInv, CurInv, FreshInv, RoleInv, Fresh, Stored, Pairing
<1>7. FwdInv'
  BY DEF JoinInv, TypeOK, LoopInv, FwdInv, Pairing
<1>8. QED
  BY <1>1, <1>2, <1>3, <1>4, <1>5, <1>6, <1>7 DEF JoinInv

(* A forwarder closes connections that are not fresh.                      *)
LEMMA StepClose ==
    ASSUME JoinInv, NEW f \in Conn, PumpEnds(f) \/ ForwardingFinished(f)
    PROVE  JoinInv'
<1> USE RelayAssumption, KeysTyped DEF Ends, PumpEnds, ForwardingFinished, ForwarderStep, CloseAll, store, loop, forwarders, clients, relayVars
<1>1. TypeOK'
  BY DEF JoinInv, LoopInv, TypeOK, SockState, LoopState, FwdState, ClientState, Mode
<1>2. KeyInv'
  BY DEF JoinInv, LoopInv, TypeOK, KeyInv
<1>3. LoopInv'
  BY DEF JoinInv, TypeOK, KeyInv, LoopInv, Pairing
<1>4. CurInv'
  BY DEF JoinInv, TypeOK, LoopInv, CurInv, FreshInv, RoleInv, Fresh, Stored, Pairing
<1>5. FreshInv'
  BY DEF JoinInv, TypeOK, LoopInv, CurInv, FreshInv, Fresh, Stored, Pairing
<1>6. RoleInv'
  BY DEF JoinInv, TypeOK, LoopInv, CurInv, FreshInv, RoleInv, Fresh, Stored, Pairing
<1>7. FwdInv'
  BY DEF JoinInv, TypeOK, LoopInv, FwdInv, Pairing
<1>8. QED
  BY <1>1, <1>2, <1>3, <1>4, <1>5, <1>6, <1>7 DEF JoinInv

(* Removing entries only makes fewer connections Stored.                   *)
LEMMA StepRemove ==
    ASSUME JoinInv, NEW f \in Conn, RemoveConnection(f) \/ RemoveTLSConnection(f)
    PROVE  JoinInv'
<1> USE RelayAssumption, KeysTyped DEF RemoveConnection, RemoveTLSConnection, ForwarderStep, store, loop, forwarders, clients, relayVars
<1>1. TypeOK'
  BY DEF JoinInv, LoopInv, TypeOK, SockState, LoopState, FwdState, ClientState, Mode
<1>2. KeyInv'
  BY DEF JoinInv, LoopInv, TypeOK, KeyInv
<1>3. LoopInv'
  BY DEF JoinInv, TypeOK, KeyInv, LoopInv, Pairing
<1>4. CurInv'
  BY DEF JoinInv, TypeOK, LoopInv, CurInv, FreshInv, RoleInv, Fresh, Stored, Pairing
<1>5. FreshInv'
  BY DEF JoinInv, TypeOK, LoopInv, CurInv, FreshInv, Fresh, Stored, Pairing
<1>6. RoleInv'
  BY DEF JoinInv, TypeOK, LoopInv, CurInv, FreshInv, RoleInv, Fresh, Stored, Pairing
<1>7. FwdInv'
  BY DEF JoinInv, TypeOK, LoopInv, FwdInv, Pairing
<1>8. QED
  BY <1>1, <1>2, <1>3, <1>4, <1>5, <1>6, <1>7 DEF JoinInv

(* A dialled connection is fresh.                                          *)
LEMMA StepDial ==
    ASSUME JoinInv, NEW c \in Conn, Dial(c)
    PROVE  JoinInv'
<1> USE RelayAssumption, KeysTyped DEF Dial, store, loop, forwarders, clients, relayVars
<1>1. TypeOK'
  BY DEF JoinInv, LoopInv, TypeOK, SockState, LoopState, FwdState, ClientState, Mode
<1>2. KeyInv'
  BY DEF JoinInv, LoopInv, TypeOK, KeyInv
<1>3. LoopInv'
  BY DEF JoinInv, TypeOK, KeyInv, LoopInv, Pairing
<1>4. CurInv'
  BY DEF JoinInv, TypeOK, LoopInv, CurInv, FreshInv, RoleInv, Fresh, Stored, Pairing
<1>5. FreshInv'
  BY DEF JoinInv, TypeOK, LoopInv, CurInv, FreshInv, Fresh, Stored, Pairing
<1>6. RoleInv'
  BY DEF JoinInv, TypeOK, LoopInv, CurInv, FreshInv, RoleInv, Fresh, Stored, Pairing
<1>7. FwdInv'
  BY DEF JoinInv, TypeOK, LoopInv, FwdInv, Pairing
<1>8. QED
  BY <1>1, <1>2, <1>3, <1>4, <1>5, <1>6, <1>7 DEF JoinInv

(* A step that leaves the relay alone, and takes no client back to its     *)
(* start, preserves the invariant.                                         *)
LEMMA RelayUntouched ==
    ASSUME JoinInv, UNCHANGED relayVars,
           client' \in [Conn -> ClientState], gone' \subseteq Conn,
           \A d \in Conn : client'[d] = "idle" => client[d] = "idle"
    PROVE  JoinInv'
<1> USE DEF relayVars, store, loop, forwarders
<1>1. TypeOK'
  BY DEF JoinInv, TypeOK
<1>2. KeyInv'
  BY DEF JoinInv, KeyInv
<1>3. LoopInv'
  BY DEF JoinInv, LoopInv, PeerKey
<1>4. \A d \in Conn : Stored(d)' <=> Stored(d)
  BY DEF Stored
<1>5. CurInv'
  BY <1>4 DEF JoinInv, CurInv
<1>6. FreshInv'
  BY <1>4 DEF JoinInv, FreshInv, Fresh
<1>7. RoleInv'
  BY <1>4 DEF JoinInv, RoleInv
<1>8. FwdInv'
  BY DEF JoinInv, FwdInv, PeerKey
<1>9. QED
  BY <1>1, <1>2, <1>3, <1>5, <1>6, <1>7, <1>8 DEF JoinInv

(* The client steps other than Dial leave the relay alone.                 *)
LEMMA StepClient ==
    ASSUME JoinInv, NEW c \in Conn, ClientStep(c) \/ SeeGarbage(c) \/ Die(c)
    PROVE  JoinInv'
<1> USE DEF ClientStep, Ask, RecvReady, SeeClosed, Finish, SeeGarbage, Die
<1>1. UNCHANGED relayVars
  OBVIOUS
<1>2. /\ client' \in [Conn -> ClientState]
      /\ \A d \in Conn : client'[d] = "idle" => client[d] = "idle"
  BY DEF JoinInv, TypeOK, ClientState
<1>3. gone' \subseteq Conn
  BY DEF JoinInv, TypeOK
<1>4. QED
  BY <1>1, <1>2, <1>3, RelayUntouched

(* So does the end-to-end handshake.                                       *)
LEMMA StepSession ==
    ASSUME JoinInv, NEW f \in Conn, SessionE2E(f)
    PROVE  JoinInv'
<1>1. UNCHANGED relayVars
  BY DEF SessionE2E
<1>2. /\ client' \in [Conn -> ClientState]
      /\ \A d \in Conn : client'[d] = "idle" => client[d] = "idle"
  BY DEF SessionE2E, JoinInv, TypeOK, ClientState
<1>3. gone' \subseteq Conn
  BY DEF SessionE2E, JoinInv, TypeOK
<1>4. QED
  BY <1>1, <1>2, <1>3, RelayUntouched

-----------------------------------------------------------------------------
(* Every step of the relay and of its clients preserves the invariant.     *)
LEMMA JoinStep == JoinInv /\ [Next]_vars => JoinInv'
<1> SUFFICES ASSUME JoinInv, [Next]_vars PROVE JoinInv'
  OBVIOUS
<1>1. CASE receiveWaitAndForward
  BY <1>1, StepAccept, StepHandshake, StepReject, StepGetConnection,
     StepStoreTLS, StepStoreConn, StepGetTLS, StepReadyServer, StepReadyClient,
     StepFork
  DEF receiveWaitAndForward
<1>2. CASE MapRace
  BY <1>2, StepMapRace
<1>3. CASE \E f \in Conn : startForwarding(f)
  BY <1>3, StepClose, StepRemove DEF startForwarding
<1>4. CASE \E c \in Conn : Dial(c) \/ ClientStep(c) \/ SeeGarbage(c) \/ Die(c)
  BY <1>4, StepDial, StepClient
<1>5. CASE \E f \in Conn : SessionE2E(f)
  BY <1>5, StepSession
<1>6. CASE UNCHANGED vars
  BY <1>6 DEF vars, store, loop, forwarders, clients, JoinInv, TypeOK, KeyInv,
     LoopInv, CurInv, FreshInv, RoleInv, FwdInv, Fresh, Stored, PeerKey
<1>7. QED
  BY <1>1, <1>2, <1>3, <1>4, <1>5, <1>6 DEF Next

(* The inductive invariant holds of every behaviour of the relay.          *)
THEOREM JoinInvariant == Spec => []JoinInv
<1>1. QED
  BY InitJoin, JoinStep, PTL DEF Spec

(***************************************************************************)
(* Every value the maps, the accept loop and the forwarders can hold has   *)
(* its type, whatever the clients do.                                      *)
(***************************************************************************)
THEOREM TypeCorrect == Spec => []TypeOK
<1>1. JoinInv => TypeOK
  BY DEF JoinInv
<1>2. QED
  BY <1>1, JoinInvariant, PTL

(***************************************************************************)
(* authorize and startForwarding join two distinct connections only when   *)
(* their requests mirror each other, whatever the reuse of tags and the    *)
(* interleaving of arrivals with clean-ups.                                *)
(***************************************************************************)
THEOREM JoinsMatchHolds == Spec => []JoinsMatch
<1>1. JoinInv => JoinsMatch
  <2> SUFFICES ASSUME JoinInv, NEW f \in Conn, fwd[f] # "none"
               PROVE  fdst[f] \in Conn \ {f} /\ Mirrored(f, fdst[f])
    BY DEF JoinsMatch
  <2>1. fdst[f] \in Conn /\ Req[fdst[f]] = PeerKey(f)
    BY DEF JoinInv, FwdInv
  <2>2. Stored(fdst[f]) /\ ~ Stored(f)
    BY <2>1 DEF JoinInv, RoleInv, Stored
  <2>3. Mirrored(f, fdst[f])
    BY <2>1 DEF Mirrored, PeerKey, getKey
  <2>4. QED
    BY <2>1, <2>2, <2>3
<1>2. QED
  BY <1>1, JoinInvariant, PTL

(***************************************************************************)
(* sendReady never makes both ends of a pair TLS servers or both clients.  *)
(***************************************************************************)
THEOREM RolesDifferHolds == Spec => []RolesDiffer
<1>1. JoinInv => RolesDiffer
  BY DEF JoinInv, RolesDiffer, RoleInv, FwdInv, Stored
<1>2. QED
  BY <1>1, JoinInvariant, PTL

-----------------------------------------------------------------------------
(* The relay implements Rendezvous                                         *)

\* A client is up together with the other end of its forwarder, and only so.
UpInv ==
    /\ \A f \in Conn : fwd[f] # "none" /\ client[f] = "up" => client[fdst[f]] = "up"
    /\ \A c \in Conn : client[c] = "up" /\ fwd[c] = "none" =>
          \E f \in Conn : fwd[f] # "none" /\ fdst[f] = c

MeetInv == JoinInv /\ UpInv

(* The connection the loop is about to join has no session yet.            *)
LEMMA CurNotUp ==
    ASSUME MeetInv, pc = "fork"
    PROVE  cur \in Conn /\ client[cur] # "up" /\ fwd[cur] = "none"
BY DEF MeetInv, UpInv, JoinInv, LoopInv, CurInv, Stored

(* A forwarder keeps its ends, and a new one begins at a connection that   *)
(* has no session.                                                         *)
LEMMA ForwardersKept ==
    ASSUME MeetInv, [Next]_vars
    PROVE  \A f \in Conn :
              /\ fwd[f] # "none" => fwd'[f] # "none" /\ fdst'[f] = fdst[f]
              /\ fwd[f] = "none" /\ fwd'[f] # "none" => client[f] # "up" /\ client' = client
<1> USE DEF store, loop, forwarders, clients, relayVars
<1>1. CASE UNCHANGED <<fwd, fdst>>
  BY <1>1
<1>2. CASE Fork
  BY <1>2, CurNotUp DEF Fork, MeetInv, JoinInv, TypeOK
<1>3. CASE MapRace
  BY <1>3 DEF MapRace, Active, MeetInv, JoinInv, TypeOK
<1>4. CASE \E f \in Conn : startForwarding(f)
  BY <1>4 DEF startForwarding, PumpEnds, ForwardingFinished, RemoveConnection,
     RemoveTLSConnection, ForwarderStep, MeetInv, JoinInv, TypeOK
<1>5. CASE receiveWaitAndForward /\ ~Fork
  BY <1>1, <1>5 DEF receiveWaitAndForward, Accept, Handshake, HandshakeFails, ReadFails,
     GetConnection, StoreTLSConnection, StoreConnection, GetTLSConnection,
     SendReadyServer, SendReadyClient
<1>6. CASE \E c \in Conn : SessionE2E(c) \/ Dial(c) \/ ClientStep(c) \/ SeeGarbage(c) \/ Die(c)
  BY <1>1, <1>6 DEF SessionE2E, Dial, ClientStep, Ask, RecvReady, SeeClosed, Finish, SeeGarbage, Die
<1>7. CASE UNCHANGED vars
  BY <1>1, <1>7 DEF vars
<1>8. QED
  BY <1>2, <1>3, <1>4, <1>5, <1>6, <1>7 DEF Next

(* What the steps other than the end-to-end handshake do to the clients:   *)
(* nobody comes up, nobody is sent back.                                   *)
LEMMA ClientsKept ==
    ASSUME MeetInv, [Next]_vars, \A f \in Conn : ~SessionE2E(f)
    PROVE  \A c \in Conn : client'[c] = "up" <=> client[c] = "up"
<1> USE DEF store, loop, forwarders, clients, relayVars
<1>1. CASE UNCHANGED client
  BY <1>1
<1>2. CASE receiveWaitAndForward \/ MapRace \/ \E f \in Conn : startForwarding(f)
  BY <1>1, <1>2 DEF receiveWaitAndForward, Accept, Handshake, HandshakeFails, ReadFails,
     GetConnection, StoreTLSConnection, StoreConnection, GetTLSConnection,
     SendReadyServer, SendReadyClient, Fork, MapRace, startForwarding, PumpEnds,
     ForwardingFinished, RemoveConnection, RemoveTLSConnection
<1>3. CASE \E c \in Conn : Dial(c) \/ ClientStep(c) \/ SeeGarbage(c) \/ Die(c)
  BY <1>3 DEF Dial, ClientStep, Ask, RecvReady, SeeClosed, Finish, SeeGarbage, Die,
     MeetInv, JoinInv, TypeOK
<1>4. CASE UNCHANGED vars
  BY <1>1, <1>4 DEF vars
<1>5. QED
  BY <1>2, <1>3, <1>4 DEF Next

(* The end-to-end handshake is between the two ends of one forwarder, and  *)
(* neither of them has a session with anybody else.                        *)
LEMMA HandshakeIsNew ==
    ASSUME MeetInv, NEW f \in Conn, SessionE2E(f)
    PROVE  /\ fdst[f] \in Conn \ {f} /\ Mirrored(f, fdst[f])
           /\ \A g \in Conn \ {f} : fwd[g] # "none" =>
                 /\ g \notin Ends(f)
                 /\ fdst[g] \in Ends(f) => fdst[g] = fdst[f] /\ client[g] # "up"
<1> USE DEF SessionE2E, Running, Ends
<1>1. fwd[f] # "none" /\ fdst[f] \in Conn /\ Req[fdst[f]] = PeerKey(f)
  BY DEF MeetInv, JoinInv, FwdInv
<1>2. ~Stored(f) /\ Stored(fdst[f])
  BY <1>1 DEF MeetInv, JoinInv, RoleInv, Stored
<1>3. Mirrored(f, fdst[f])
  BY <1>1 DEF Mirrored, PeerKey, getKey
<1>4. ASSUME NEW g \in Conn \ {f}, fwd[g] # "none"
      PROVE  /\ g \notin Ends(f)
             /\ fdst[g] \in Ends(f) => fdst[g] = fdst[f] /\ client[g] # "up"
  <2>1. ~Stored(g) /\ Stored(fdst[g])
    BY <1>4 DEF MeetInv, JoinInv, RoleInv, Stored
  <2>2. QED
    BY <1>1, <1>2, <1>4, <2>1 DEF MeetInv, UpInv
<1>5. QED
  BY <1>1, <1>2, <1>3, <1>4

(* At the start nobody is up.                                              *)
LEMMA InitMeet == Init => MeetInv
BY InitJoin DEF Init, MeetInv, UpInv

(* Every step keeps the two ends of a forwarder up together.              *)
LEMMA MeetStep == MeetInv /\ [Next]_vars => MeetInv'
<1> SUFFICES ASSUME MeetInv, [Next]_vars PROVE UpInv'
  BY JoinStep DEF MeetInv
<1>1. CASE \A f \in Conn : ~SessionE2E(f)
  <2>1. \A f \in Conn : fwd[f] # "none" => fdst[f] \in Conn
    BY DEF MeetInv, JoinInv, FwdInv
  <2>2. QED
    BY <1>1, <2>1, ForwardersKept, ClientsKept DEF MeetInv, UpInv
<1>2. ASSUME NEW f \in Conn, SessionE2E(f)
      PROVE  UpInv'
  <2>1. client' = [c \in Conn |-> IF c \in Ends(f) THEN "up" ELSE client[c]]
    BY <1>2 DEF SessionE2E
  <2>2. UNCHANGED <<fwd, fdst>> /\ fwd[f] # "none"
    BY <1>2 DEF SessionE2E, Running, relayVars, forwarders
  <2>3. \A g \in Conn : fwd[g] # "none" => fdst[g] \in Conn
    BY DEF MeetInv, JoinInv, FwdInv
  <2>4. \A g \in Conn : fwd'[g] # "none" /\ client'[g] = "up" => client'[fdst'[g]] = "up"
    BY <1>2, <2>1, <2>2, <2>3, HandshakeIsNew DEF MeetInv, UpInv, Ends
  <2>5. \A c \in Conn : client'[c] = "up" /\ fwd'[c] = "none" =>
           \E g \in Conn : fwd'[g] # "none" /\ fdst'[g] = c
    BY <2>1, <2>2 DEF MeetInv, UpInv, Ends
  <2>6. QED
    BY <2>4, <2>5 DEF UpInv
<1>3. QED
  BY <1>1, <1>2

(* So a client of the relay is up only together with its one partner.      *)
THEOREM MeetInvariant == Spec => []MeetInv
<1>1. QED
  BY InitMeet, MeetStep, PTL DEF Spec

(* A connection that has met somebody is up.                               *)
LEMMA MetIsUp ==
    ASSUME NEW c \in Conn, c \in UNION Sessions
    PROVE  client[c] = "up"
BY DEF Sessions

(* Whoever a relay forwarder serves has arrived.                           *)
LEMMA EndsArrived ==
    ASSUME MeetInv, NEW f \in Conn, fwd[f] # "none", NEW c \in Ends(f)
    PROVE  c \in Conn /\ client[c] # "idle"
<1>1. fdst[f] \in Conn
  BY DEF MeetInv, JoinInv, FwdInv
<1>2. Stored(fdst[f])
  BY DEF Stored
<1>3. ~Fresh(f) /\ ~Fresh(fdst[f])
  BY <1>1, <1>2 DEF MeetInv, JoinInv, FreshInv
<1>4. QED
  BY <1>1, <1>3 DEF MeetInv, JoinInv, FreshInv, Fresh, Ends

(* Without an end-to-end handshake the sessions stay as they are.          *)
LEMMA SessionsKept ==
    ASSUME MeetInv, [Next]_vars, \A f \in Conn : ~SessionE2E(f)
    PROVE  Sessions' = Sessions
<1>1. \A f \in Conn : fwd[f] # "none" => Ends(f)' = Ends(f) /\ Ends(f) \subseteq Conn
  BY ForwardersKept, EndsArrived DEF Ends
<1>2. \A f \in Conn : (fwd[f] # "none" /\ \A c \in Ends(f) : client[c] = "up")
                    <=> (fwd[f] # "none" /\ \A c \in Ends(f) : client[c] = "up")'
  <2> SUFFICES ASSUME NEW f \in Conn
               PROVE  (fwd[f] # "none" /\ \A c \in Ends(f) : client[c] = "up")
                    <=> (fwd'[f] # "none" /\ \A c \in Ends(f)' : client'[c] = "up")
    OBVIOUS
  <2>1. CASE fwd[f] # "none"
    BY <1>1, <2>1, ForwardersKept, ClientsKept
  <2>2. CASE fwd[f] = "none"
    BY <2>2, ForwardersKept DEF Ends
  <2>3. QED
    BY <2>1, <2>2
<1>3. QED
  BY <1>1, <1>2 DEF Sessions

(* An end-to-end handshake is a meeting of two that wait for each other.   *)
LEMMA HandshakeMeets ==
    ASSUME MeetInv, NEW f \in Conn, SessionE2E(f)
    PROVE  R!Meet(f, fdst[f])
<1>1. fwd[f] # "none" /\ fdst[f] \in Conn \ {f} /\ Mirrored(f, fdst[f])
  BY HandshakeIsNew DEF SessionE2E, Running
<1>2. \A c \in Ends(f) : client[c] = "ready" /\ c \notin gone /\ c \in Conn
  BY <1>1 DEF SessionE2E, Ends
<1>3. \A c \in Ends(f) : R!Waiting(c)
  BY <1>2, MetIsUp DEF R!Waiting
<1>4. client' = [c \in Conn |-> IF c \in Ends(f) THEN "up" ELSE client[c]]
  BY DEF SessionE2E
<1>5. UNCHANGED <<fwd, fdst, gone>>
  BY DEF SessionE2E, relayVars, forwarders
<1>6. Sessions' = Sessions \cup {Ends(f)}
  <2>1. \A g \in Conn : Ends(g)' = Ends(g)
    BY <1>5 DEF Ends
  <2>2. \A g \in Conn : fwd[g] # "none" => Ends(g) \subseteq Conn
    BY EndsArrived
  <2>3. \A c \in Ends(f) : client'[c] = "up"
    BY <1>2, <1>4
  <2>4. ASSUME NEW g \in Conn \ {f}, fwd[g] # "none"
        PROVE  (\A c \in Ends(g) : client'[c] = "up") <=> (\A c \in Ends(g) : client[c] = "up")
    BY <1>4, <2>2, <2>4, HandshakeIsNew DEF Ends
  <2>5. QED
    BY <1>1, <1>5, <2>1, <2>3, <2>4 DEF Sessions
<1>7. {c \in Conn : client[c] # "idle"}' = {c \in Conn : client[c] # "idle"}
  BY <1>2, <1>4
<1>8. QED
  BY <1>1, <1>3, <1>5, <1>6, <1>7 DEF R!Meet, Ends

(* Every step of the relay and its clients is an arrival, a meeting, a     *)
(* leaving, or nothing that the clients can see.                           *)
LEMMA RendezvousStep == MeetInv /\ [Next]_vars => [R!RNext]_(R!rvars)
<1> SUFFICES ASSUME MeetInv, [Next]_vars PROVE [R!RNext]_(R!rvars)
  OBVIOUS
<1>1. CASE \E f \in Conn : SessionE2E(f)
  BY <1>1, HandshakeMeets, HandshakeIsNew DEF R!RNext
<1>2. CASE \A f \in Conn : ~SessionE2E(f)
  <2>1. Sessions' = Sessions
    BY <1>2, SessionsKept
  <2>2. CASE UNCHANGED clients
    BY <2>1, <2>2 DEF R!rvars, clients
  <2>3. ASSUME NEW c \in Conn, Dial(c)
        PROVE  R!Arrive(c)
    <3>1. /\ client[c] = "idle" /\ UNCHANGED gone
          /\ client' = [client EXCEPT ![c] = "dialed"]
      BY <2>3 DEF Dial
    <3>2. {d \in Conn : client[d] # "idle"}' = {d \in Conn : client[d] # "idle"} \cup {c}
      BY <3>1 DEF MeetInv, JoinInv, TypeOK
    <3>3. QED
      BY <2>1, <3>1, <3>2 DEF R!Arrive
  <2>4. ASSUME NEW c \in Conn, Ask(c) \/ RecvReady(c)
        PROVE  UNCHANGED R!rvars
    <3>1. {d \in Conn : client[d] # "idle"}' = {d \in Conn : client[d] # "idle"} /\ gone' = gone
      BY <2>4 DEF Ask, RecvReady, MeetInv, JoinInv, TypeOK
    <3>2. QED
      BY <2>1, <3>1 DEF R!rvars
  <2>5. ASSUME NEW c \in Conn, SeeClosed(c) \/ Finish(c) \/ SeeGarbage(c) \/ Die(c)
        PROVE  R!Leave(gone' \ gone)
    <3>1. c \notin gone /\ gone' = gone \cup {c} /\ UNCHANGED client
      BY <2>5 DEF SeeClosed, Finish, SeeGarbage, Die
    <3>2. client[c] # "idle"
      <4>1. CASE SeeClosed(c) \/ Finish(c) \/ Die(c)
        BY <4>1 DEF SeeClosed, Finish, Die
      <4>2. CASE SeeGarbage(c)
        BY <4>2, EndsArrived DEF SeeGarbage, Crossed, Running
      <4>3. QED
        BY <2>5, <4>1, <4>2
    <3>3. gone' \ gone = {c} /\ {c} \subseteq {d \in Conn : client[d] # "idle"} \ gone
      BY <3>1, <3>2
    <3>4. {d \in Conn : client[d] # "idle"}' = {d \in Conn : client[d] # "idle"}
      BY <3>1
    <3>5. QED
      BY <2>1, <3>1, <3>3, <3>4 DEF R!Leave
  <2>6. CASE receiveWaitAndForward \/ MapRace \/ \E f \in Conn : startForwarding(f)
    <3>1. UNCHANGED clients
      BY <2>6 DEF receiveWaitAndForward, Accept, Handshake, HandshakeFails, ReadFails,
         GetConnection, StoreTLSConnection, StoreConnection, GetTLSConnection,
         SendReadyServer, SendReadyClient, Fork, MapRace, startForwarding, PumpEnds,
         ForwardingFinished, RemoveConnection, RemoveTLSConnection, clients
    <3>2. QED
      BY <2>2, <3>1
  <2>7. QED
    BY <1>2, <2>2, <2>3, <2>4, <2>5, <2>6 DEF Next, ClientStep, R!RNext, vars
<1>3. QED
  BY <1>1, <1>2

(***************************************************************************)
(* The relay implements Rendezvous, for every set of parties, tags and     *)
(* connections and every reuse of tags: whatever authorize and             *)
(* startForwarding do with maps, sockets and goroutines, a client sees     *)
(* arrivals, meetings of two that ask for each other and leavings only,    *)
(* and no connection ever has two sessions.                                *)
(***************************************************************************)
THEOREM RelayImplementsRendezvous == Spec => ImplementsRendezvous
<1>1. Init => R!RInit
  <2> SUFFICES ASSUME Init PROVE R!RInit
    OBVIOUS
  <2>1. Sessions = {}
    BY DEF Init, Sessions
  <2>2. QED
    BY <2>1 DEF Init, R!RInit
<1>2. QED
  BY <1>1, RendezvousStep, MeetInvariant, PTL DEF Spec, ImplementsRendezvous, R!RSpec

-----------------------------------------------------------------------------
(* When a tag is dialled again only after it was released                  *)

Held(c) == client[c] # "idle" /\ ~Released(c)

\* The relay holds at most one connection for every request.
UniqInv == \A c, d \in Conn : Held(c) /\ Held(d) /\ Req[c] = Req[d] => c = d

\* A TLS object is filed, and taken, under the key of its own request.
TlsInv ==
    /\ \A k \in Key : tlsConns[k] # Nil => Req[tlsConns[k]] = k
    /\ pc \in {"ready1", "ready2", "fork"} => Req[destTLS] = PeerKey(cur)
    /\ \A f \in Conn : fwd[f] # "none" => fdtls[f] \in Conn /\ Req[fdtls[f]] = PeerKey(f)

\* The connection the loop serves does not wait yet and belongs to no pair.
CurOutside ==
    cur \in Conn => /\ \A k \in Key : openConns[k] # cur
                    /\ \A f \in Conn : fdst[f] # cur
                    /\ pc = "storeConn" => tlsConns[OwnKey(cur)] = cur

\* The partner's entry leaves openConns before it leaves tlsConns.
RemovalOrder ==
    \A f \in Conn : fwd[f] \in {"rmTLS1", "rmTLS2"} => openConns[PeerKey(f)] # fdst[f]

\* While a session is pumped the socket of its other end is open.
OpenInv ==
    \A f \in Conn : Running(f) /\ client[f] = "up" => sock[fdst[f]] = "open"

ReuseInv == /\ MeetInv
            /\ UniqInv
            /\ TlsInv
            /\ CurOutside
            /\ RemovalOrder
            /\ WaiterComplete
            /\ OpenInv

(* What the relay has let go of it never takes up again.                   *)
LEMMA ReleasedStays ==
    ASSUME JoinInv, [Next]_vars, NEW c \in Conn, Released(c), client[c] # "idle"
    PROVE  Released(c)'
<1> USE RelayAssumption, KeysTyped DEF store, loop, forwarders, clients, relayVars, Ends, Active
<1>1. /\ sock[c] = "closed" /\ c \notin {cur, dstConn, destTLS}
      /\ \A k \in Key : openConns[k] # c /\ tlsConns[k] # c
      /\ \A f \in Conn : Active(f) => c \notin Ends(f) \cup {fdtls[f]}
  BY DEF Released
<1>2. CASE receiveWaitAndForward
  <2>1. sock'[c] = "closed"
    BY <1>1, <1>2 DEF receiveWaitAndForward, Accept, Handshake, HandshakeFails, ReadFails,
       RejectCurrent, AcceptNext, GetConnection, StoreTLSConnection, StoreConnection,
       GetTLSConnection, SendReadyServer, SendReadyClient, Fork, JoinInv, TypeOK
  <2>2. \A k \in Key : openConns'[k] # c /\ tlsConns'[k] # c
    BY <1>1, <1>2 DEF receiveWaitAndForward, Accept, Handshake, HandshakeFails, ReadFails,
       RejectCurrent, AcceptNext, GetConnection, StoreTLSConnection, StoreConnection,
       GetTLSConnection, SendReadyServer, SendReadyClient, Fork, JoinInv, TypeOK
  <2>3. \A f \in Conn : Active(f)' => c \notin (Ends(f) \cup {fdtls[f]})'
    BY <1>1, <1>2 DEF receiveWaitAndForward, Accept, Handshake, HandshakeFails, ReadFails,
       RejectCurrent, AcceptNext, GetConnection, StoreTLSConnection, StoreConnection,
       GetTLSConnection, SendReadyServer, SendReadyClient, Fork, JoinInv, TypeOK
  <2>4. c \notin {cur', dstConn', destTLS'}
    BY <1>1, <1>2 DEF receiveWaitAndForward, Accept, Handshake, HandshakeFails, ReadFails,
       RejectCurrent, AcceptNext, GetConnection, StoreTLSConnection, StoreConnection,
       GetTLSConnection, SendReadyServer, SendReadyClient, Fork, JoinInv, TypeOK, LoopInv
  <2>5. QED
    BY <2>1, <2>2, <2>3, <2>4 DEF Released
<1>3. CASE MapRace
  BY <1>1, <1>3 DEF MapRace, Released, JoinInv, TypeOK
<1>4. CASE \E f \in Conn : startForwarding(f)
  BY <1>1, <1>4 DEF startForwarding, PumpEnds, ForwardingFinished, RemoveConnection,
     RemoveTLSConnection, ForwarderStep, CloseAll, Released, JoinInv, TypeOK
<1>5. CASE UNCHANGED relayVars
  BY <1>1, <1>5 DEF Released
<1>6. CASE \E d \in Conn : Dial(d)
  BY <1>1, <1>6 DEF Dial, Released, JoinInv, TypeOK
<1>7. QED
  BY <1>2, <1>3, <1>4, <1>5, <1>6 DEF Next, ClientStep, SessionE2E, Ask, RecvReady, SeeClosed,
     Finish, SeeGarbage, Die, vars

(* MayDial keeps the held connections of one request apart.                *)
LEMMA UniqStep ==
    ASSUME Reuse = "released", JoinInv, UniqInv, [Next]_vars
    PROVE  UniqInv'
<1>1. ASSUME NEW c \in Conn, Held(c)', client[c] # "idle"
      PROVE  Held(c)
  BY <1>1, ReleasedStays DEF Held
<1>2. CASE \E x \in Conn : Dial(x)
  <2>1. PICK x \in Conn : Dial(x)
    BY <1>2
  <2>2. \A c \in Conn \ {x} : client'[c] = client[c]
    BY <2>1 DEF Dial, JoinInv, TypeOK
  <2>3. \A c \in Conn \ {x} : client[c] # "idle" /\ Req[c] = Req[x] => Released(c)
    BY <2>1, RelayAssumption DEF Dial, MayDial
  <2>4. \A c \in Conn \ {x} : Held(c)' => Req[c] # Req[x]
    BY <1>1, <2>2, <2>3 DEF Held
  <2>5. QED
    BY <1>1, <2>2, <2>4 DEF UniqInv, Held
<1>3. CASE \A x \in Conn : ~Dial(x)
  <2>1. \A c \in Conn : client'[c] # "idle" => client[c] # "idle"
    <3>1. CASE UNCHANGED client
      BY <3>1
    <3>2. CASE \E c \in Conn : SessionE2E(c) \/ Ask(c) \/ RecvReady(c)
      BY <3>2 DEF SessionE2E, Ask, RecvReady, JoinInv, TypeOK
    <3>3. QED
      BY <1>3, <3>1, <3>2 DEF Next, receiveWaitAndForward, Accept, Handshake, HandshakeFails,
         ReadFails, GetConnection, StoreTLSConnection, StoreConnection, GetTLSConnection,
         SendReadyServer, SendReadyClient, Fork, MapRace, startForwarding, PumpEnds,
         ForwardingFinished, RemoveConnection, RemoveTLSConnection, clients, ClientStep,
         SeeClosed, Finish, SeeGarbage, Die, vars
  <2>2. QED
    BY <1>1, <2>1 DEF UniqInv, Held
<1>4. QED
  BY <1>2, <1>3

(* Whatever a map, the loop or an active forwarder refers to is held.      *)
LEMMA WhatIsHeld ==
    ASSUME JoinInv, NEW c \in Conn,
           \/ \E k \in Key : openConns[k] = c \/ tlsConns[k] = c
           \/ c = cur
           \/ \E f \in Conn : Active(f) /\ c \in Ends(f)
    PROVE  Held(c)
<1>1. Stored(c) \/ c = cur \/ fwd[c] # "none"
  BY DEF Stored, Ends, Active
<1>2. client[c] # "idle"
  BY <1>1 DEF JoinInv, FreshInv, Fresh
<1>3. ~Released(c)
  BY DEF Released
<1>4. QED
  BY <1>2, <1>3 DEF Held

(* Two active forwarders never share the request of an end.                *)
LEMMA ForwardersApart ==
    ASSUME JoinInv, UniqInv, NEW f \in Conn, NEW g \in Conn, Active(f), Active(g),
           PeerKey(f) = PeerKey(g)
    PROVE  f = g
<1>1. Req[f] \in Key /\ Req[g] \in Key
  BY RelayAssumption
<1>2. Req[f] = Req[g]
  BY <1>1 DEF PeerKey, getKey, Key
<1>3. QED
  BY <1>2, WhatIsHeld DEF UniqInv, Ends

(* A TLS object stays under the key of its own request.                    *)
LEMMA TlsStep ==
    ASSUME JoinInv, TlsInv, [Next]_vars
    PROVE  TlsInv'
<1> USE RelayAssumption, KeysTyped DEF store, loop, forwarders, clients, relayVars, TlsInv
<1>1. CASE receiveWaitAndForward
  <2> USE <1>1 DEF receiveWaitAndForward, Accept, Handshake, HandshakeFails, ReadFails,
     RejectCurrent, AcceptNext, GetConnection, StoreTLSConnection, StoreConnection,
     GetTLSConnection, SendReadyServer, SendReadyClient, Fork
  <2>1. (\A k \in Key : tlsConns[k] # Nil => Req[tlsConns[k]] = k)'
    BY DEF JoinInv, TypeOK, LoopInv
  <2>2. (pc \in {"ready1", "ready2", "fork"} => Req[destTLS] = PeerKey(cur))'
    BY DEF JoinInv, TypeOK, LoopInv, PeerKey
  <2>3. (\A f \in Conn : fwd[f] # "none" => fdtls[f] \in Conn /\ Req[fdtls[f]] = PeerKey(f))'
    BY DEF JoinInv, TypeOK, LoopInv, PeerKey
  <2>4. QED
    BY <2>1, <2>2, <2>3
<1>2. CASE MapRace \/ \E f \in Conn : startForwarding(f)
  <2>1. \A k \in Key : tlsConns'[k] \in {tlsConns[k], Nil}
    <3>1. CASE MapRace
      BY <3>1 DEF MapRace
    <3>2. CASE \E f \in Conn : startForwarding(f)
      BY <3>2 DEF startForwarding, PumpEnds, ForwardingFinished, RemoveConnection,
         RemoveTLSConnection, JoinInv, TypeOK
    <3>3. QED
      BY <1>2, <3>1, <3>2
  <2>2. UNCHANGED fdtls /\ \A f \in Conn : fwd'[f] # "none" => fwd[f] # "none"
    <3>1. CASE MapRace
      BY <3>1 DEF MapRace, Active
    <3>2. CASE \E f \in Conn : startForwarding(f)
      BY <3>2 DEF startForwarding, PumpEnds, ForwardingFinished, RemoveConnection,
         RemoveTLSConnection, ForwarderStep, JoinInv, TypeOK
    <3>3. QED
      BY <1>2, <3>1, <3>2
  <2>3. UNCHANGED loop \/ pc' = "crashed"
    BY <1>2 DEF MapRace, startForwarding, PumpEnds, ForwardingFinished, RemoveConnection,
       RemoveTLSConnection
  <2>4. QED
    BY <2>1, <2>2, <2>3 DEF PeerKey
<1>3. CASE UNCHANGED <<store, loop, forwarders>>
  BY <1>3 DEF PeerKey
<1>4. QED
  BY <1>1, <1>2, <1>3 DEF Next, ClientStep, SessionE2E, Ask, RecvReady, SeeClosed,
     Finish, SeeGarbage, Die, Dial, vars

(* The loop's connection stays outside the pairs, and its TLS object is    *)
(* the one on file: the entry it found, if any, would be held under the    *)
(* same request.                                                           *)
LEMMA CurStep ==
    ASSUME JoinInv, UniqInv, TlsInv, CurOutside, [Next]_vars
    PROVE  CurOutside'
<1> USE RelayAssumption, KeysTyped DEF store, loop, forwarders, clients, relayVars
<1>1. CASE StoreTLSConnection
  <2>1. cur \in Conn /\ pc = "storeTLS"
    BY <1>1 DEF StoreTLSConnection, JoinInv, LoopInv
  <2>2. tlsConns[OwnKey(cur)] \in Conn \cup {Nil}
    BY <2>1 DEF JoinInv, TypeOK
  <2>3. tlsConns[OwnKey(cur)] # Nil => tlsConns[OwnKey(cur)] = cur
    <3>1. ASSUME tlsConns[OwnKey(cur)] \in Conn
          PROVE  tlsConns[OwnKey(cur)] = cur
      <4>1. Held(cur) /\ Held(tlsConns[OwnKey(cur)])
        BY <2>1, <3>1, WhatIsHeld
      <4>2. Req[tlsConns[OwnKey(cur)]] = Req[cur]
        BY <2>1, <3>1 DEF TlsInv
      <4>3. QED
        BY <2>1, <3>1, <4>1, <4>2 DEF UniqInv
    <3>2. QED
      BY <2>2, <3>1
  <2>4. tlsConns'[OwnKey(cur)] = cur
    BY <1>1, <2>1, <2>3 DEF StoreTLSConnection, JoinInv, TypeOK
  <2>5. QED
    BY <1>1, <2>1, <2>4 DEF StoreTLSConnection, CurOutside, OwnKey
<1>2. CASE \E f \in Conn : RemoveTLSConnection(f)
  <2>1. PICK f \in Conn : RemoveTLSConnection(f)
    BY <1>2
  <2>2. Active(f) /\ UNCHANGED <<openConns, loop, fdst>>
    BY <2>1 DEF RemoveTLSConnection, ForwarderStep, Active
  <2>3. cur \in Conn => Req[cur] # Req[f] /\ Req[cur] # PeerKey(f)
    <3>1. fwd[f] # "none" /\ fdst[f] \in Conn /\ Req[fdst[f]] = PeerKey(f)
      BY <2>2 DEF JoinInv, FwdInv, Active
    <3>2. Held(f) /\ Held(fdst[f]) /\ (cur \in Conn => Held(cur))
      BY <2>2, <3>1, WhatIsHeld DEF Ends
    <3>3. cur \in Conn => cur # f /\ cur # fdst[f]
      BY <3>1 DEF CurOutside, JoinInv, CurInv
    <3>4. QED
      BY <3>1, <3>2, <3>3 DEF UniqInv
  <2>4. cur \in Conn /\ pc = "storeConn" => tlsConns'[OwnKey(cur)] = cur
    BY <2>1, <2>3 DEF RemoveTLSConnection, CurOutside, JoinInv, TypeOK
  <2>5. QED
    BY <2>2, <2>4 DEF CurOutside, OwnKey
<1>3. CASE receiveWaitAndForward /\ ~StoreTLSConnection
  BY <1>3 DEF receiveWaitAndForward, Accept, Handshake, HandshakeFails, ReadFails,
     RejectCurrent, AcceptNext, GetConnection, StoreTLSConnection, StoreConnection,
     GetTLSConnection, SendReadyServer, SendReadyClient, Fork,
     JoinInv, TypeOK, LoopInv, FreshInv, Fresh, Stored, CurOutside, OwnKey
<1>4. CASE \E f \in Conn : PumpEnds(f) \/ ForwardingFinished(f) \/ RemoveConnection(f)
  <2>1. UNCHANGED <<tlsConns, loop, fdst>>
    BY <1>4 DEF PumpEnds, ForwardingFinished, RemoveConnection
  <2>2. \A k \in Key : openConns'[k] \in {openConns[k], Nil}
    BY <1>4 DEF PumpEnds, ForwardingFinished, RemoveConnection, JoinInv, TypeOK
  <2>3. QED
    BY <2>1, <2>2 DEF CurOutside, OwnKey
<1>5. CASE UNCHANGED <<store, loop, forwarders>>
  BY <1>5 DEF CurOutside, OwnKey
<1>6. CASE MapRace
  BY <1>6 DEF MapRace, CurOutside
<1>7. QED
  BY <1>1, <1>2, <1>3, <1>4, <1>5, <1>6 DEF Next, ClientStep, SessionE2E, Ask, RecvReady, SeeClosed,
     Finish, SeeGarbage, Die, Dial, vars, startForwarding

(* Only the loop files a connection, and never one of a pair.              *)
LEMMA RemovalStep ==
    ASSUME JoinInv, CurOutside, RemovalOrder, [Next]_vars
    PROVE  RemovalOrder'
<1> USE RelayAssumption, KeysTyped DEF store, loop, forwarders, clients, relayVars, RemovalOrder
<1>1. CASE receiveWaitAndForward
  BY <1>1 DEF receiveWaitAndForward, Accept, Handshake, HandshakeFails, ReadFails,
     RejectCurrent, AcceptNext, GetConnection, StoreTLSConnection, StoreConnection,
     GetTLSConnection, SendReadyServer, SendReadyClient, Fork,
     JoinInv, TypeOK, LoopInv, CurOutside, PeerKey
<1>2. CASE MapRace
  BY <1>2 DEF MapRace, Active, JoinInv, TypeOK
<1>3. CASE \E f \in Conn : startForwarding(f)
  <2>1. \A f \in Conn : fwd[f] # "none" => fdst[f] # Nil
    BY DEF JoinInv, FwdInv
  <2>2. QED
    BY <1>3, <2>1 DEF startForwarding, PumpEnds, ForwardingFinished, RemoveConnection,
     RemoveTLSConnection, ForwarderStep, JoinInv, TypeOK, PeerKey
<1>4. CASE UNCHANGED <<store, loop, forwarders>>
  BY <1>4 DEF PeerKey
<1>5. QED
  BY <1>1, <1>2, <1>3, <1>4 DEF Next, ClientStep, SessionE2E, Ask, RecvReady, SeeClosed,
     Finish, SeeGarbage, Die, Dial, vars

(* A waiter keeps its TLS object until its entry is gone: no clean-up of   *)
(* another pair has its key.                                               *)
LEMMA WaiterStep ==
    ASSUME JoinInv, UniqInv, CurOutside, RemovalOrder, WaiterComplete, [Next]_vars
    PROVE  WaiterComplete'
<1> USE RelayAssumption, KeysTyped DEF store, loop, forwarders, clients, relayVars
<1>1. CASE receiveWaitAndForward
  BY <1>1 DEF receiveWaitAndForward, Accept, Handshake, HandshakeFails, ReadFails,
     RejectCurrent, AcceptNext, GetConnection, StoreTLSConnection, StoreConnection,
     GetTLSConnection, SendReadyServer, SendReadyClient, Fork,
     JoinInv, TypeOK, LoopInv, CurOutside, WaiterComplete
<1>2. CASE MapRace \/ \E f \in Conn : PumpEnds(f) \/ ForwardingFinished(f) \/ RemoveConnection(f)
  BY <1>2 DEF MapRace, startForwarding, PumpEnds, ForwardingFinished, RemoveConnection,
     RemoveTLSConnection, ForwarderStep, JoinInv, TypeOK, WaiterComplete
<1>3. ASSUME NEW f \in Conn, RemoveTLSConnection(f)
      PROVE  WaiterComplete'
  <2>1. Active(f) /\ fwd[f] \in {"rmTLS1", "rmTLS2"} /\ UNCHANGED openConns
    BY <1>3 DEF RemoveTLSConnection, ForwarderStep, Active
  <2>2. openConns[OwnKey(f)] = Nil
    <3>1. openConns[OwnKey(f)] # f
      BY <2>1 DEF JoinInv, RoleInv, Stored
    <3>2. ASSUME openConns[OwnKey(f)] \in Conn
          PROVE  openConns[OwnKey(f)] = f
      <4>1. Req[openConns[OwnKey(f)]] = Req[f]
        BY <3>2 DEF JoinInv, KeyInv
      <4>2. Held(f) /\ Held(openConns[OwnKey(f)])
        BY <2>1, <3>2, WhatIsHeld DEF Ends
      <4>3. QED
        BY <3>2, <4>1, <4>2 DEF UniqInv
    <3>3. QED
      BY <3>1, <3>2 DEF JoinInv, TypeOK
  <2>3. openConns[PeerKey(f)] = Nil
    <3>1. openConns[PeerKey(f)] # fdst[f]
      BY <2>1 DEF RemovalOrder
    <3>2. fdst[f] \in Conn /\ Req[fdst[f]] = PeerKey(f)
      BY <2>1 DEF JoinInv, FwdInv
    <3>3. ASSUME openConns[PeerKey(f)] \in Conn
          PROVE  openConns[PeerKey(f)] = fdst[f]
      <4>1. Req[openConns[PeerKey(f)]] = PeerKey(f)
        BY <3>3 DEF JoinInv, KeyInv
      <4>2. Held(fdst[f]) /\ Held(openConns[PeerKey(f)])
        BY <2>1, <3>2, <3>3, WhatIsHeld DEF Ends
      <4>3. QED
        BY <3>2, <3>3, <4>1, <4>2 DEF UniqInv
    <3>4. QED
      BY <3>1, <3>3 DEF JoinInv, TypeOK
  <2>4. QED
    BY <1>3, <2>1, <2>2, <2>3 DEF RemoveTLSConnection, WaiterComplete, JoinInv, TypeOK
<1>4. CASE UNCHANGED store
  BY <1>4 DEF WaiterComplete
<1>5. QED
  BY <1>1, <1>2, <1>3, <1>4 DEF Next, ClientStep, SessionE2E, Ask, RecvReady, SeeClosed,
     Finish, SeeGarbage, Die, Dial, vars, startForwarding

(* The socket of a session's other end is closed by the session's own      *)
(* forwarder only.                                                         *)
LEMMA OpenStep ==
    ASSUME MeetInv, UniqInv, TlsInv, CurOutside, OpenInv, [Next]_vars
    PROVE  OpenInv'
<1> USE RelayAssumption DEF store, loop, forwarders, clients, relayVars
<1> SUFFICES ASSUME NEW f \in Conn, fwd'[f] = "run", client'[f] = "up"
             PROVE  sock'[fdst'[f]] = "open"
  BY DEF OpenInv, Running
<1>1. ASSUME NEW g \in Conn, SessionE2E(g)
      PROVE  sock'[fdst'[f]] = "open"
  <2>1. UNCHANGED <<fwd, fdst, sock>> /\ client' = [c \in Conn |-> IF c \in Ends(g) THEN "up" ELSE client[c]]
    BY <1>1 DEF SessionE2E
  <2>2. CASE f = g
    BY <1>1, <2>1, <2>2 DEF SessionE2E, Ends
  <2>3. CASE f # g
    <3>1. f \notin Ends(g)
      BY <1>1, <2>1, <2>3, HandshakeIsNew
    <3>2. QED
      BY <2>1, <3>1 DEF OpenInv, Running
  <2>4. QED
    BY <2>2, <2>3
<1>2. CASE \A g \in Conn : ~SessionE2E(g)
  <2>1. client[f] = "up"
    BY <1>2, ClientsKept
  <2>2. fwd[f] # "none" /\ fdst'[f] = fdst[f]
    BY <2>1, ForwardersKept
  <2>3. fwd[f] = "run"
    <3>1. CASE UNCHANGED fwd
      BY <3>1
    <3>2. CASE Fork
      BY <2>1, <3>2, CurNotUp DEF Fork, MeetInv, JoinInv, TypeOK
    <3>3. CASE MapRace
      BY <3>3 DEF MapRace, Active, MeetInv, JoinInv, TypeOK
    <3>4. CASE \E g \in Conn : startForwarding(g)
      BY <3>4 DEF startForwarding, PumpEnds, ForwardingFinished, RemoveConnection,
         RemoveTLSConnection, ForwarderStep, MeetInv, JoinInv, TypeOK
    <3>5. QED
      BY <1>2, <3>1, <3>2, <3>3, <3>4 DEF Next, receiveWaitAndForward, Accept, Handshake,
         HandshakeFails, ReadFails, GetConnection, StoreTLSConnection, StoreConnection,
         GetTLSConnection, SendReadyServer, SendReadyClient, ClientStep, Ask, RecvReady,
         SeeClosed, Finish, SeeGarbage, Die, Dial, vars
  <2>4. sock[fdst[f]] = "open" /\ fdst[f] \in Conn /\ Req[fdst[f]] = PeerKey(f) /\ Stored(fdst[f])
    BY <2>1, <2>3 DEF OpenInv, Running, MeetInv, JoinInv, FwdInv, Stored
  <2>5. fdst[f] # cur /\ fwd[fdst[f]] = "none"
    BY <2>4 DEF CurOutside, MeetInv, JoinInv, RoleInv
  <2>6. sock'[fdst[f]] = "open"
    <3>1. CASE UNCHANGED sock
      BY <2>4, <3>1
    <3>2. CASE receiveWaitAndForward
      BY <2>4, <2>5, <3>2 DEF receiveWaitAndForward, Accept, Handshake, HandshakeFails,
         ReadFails, RejectCurrent, AcceptNext, GetConnection, StoreTLSConnection,
         StoreConnection, GetTLSConnection, SendReadyServer, SendReadyClient, Fork,
         MeetInv, JoinInv, TypeOK
    <3>3. CASE MapRace
      BY <2>3, <3>3 DEF MapRace, Active, MeetInv, JoinInv, TypeOK
    <3>4. ASSUME NEW g \in Conn, PumpEnds(g) \/ ForwardingFinished(g)
          PROVE  sock'[fdst[f]] = "open"
      <4>1. /\ Active(g) /\ fwd[g] # "none" /\ fwd'[g] # "run"
            /\ \/ CloseAll(Ends(g)) \/ CloseAll(Ends(g) \cup {fdtls[g]})
        BY <3>4 DEF PumpEnds, ForwardingFinished, ForwarderStep, Active, MeetInv, JoinInv, TypeOK
      <4>2. g # f /\ Active(f)
        BY <2>3, <4>1 DEF Active
      <4>3. PeerKey(g) # PeerKey(f)
        BY <4>1, <4>2, ForwardersApart DEF MeetInv
      <4>4. fdst[f] # fdst[g] /\ fdst[f] # fdtls[g] /\ fdst[f] # g
        BY <2>4, <2>5, <4>1, <4>3 DEF MeetInv, JoinInv, FwdInv, TlsInv
      <4>5. QED
        BY <2>4, <4>1, <4>4 DEF CloseAll, Ends
    <3>5. CASE \E c \in Conn : Dial(c)
      BY <2>4, <3>5 DEF Dial, MeetInv, JoinInv, TypeOK, FreshInv
    <3>6. QED
      BY <1>2, <3>1, <3>2, <3>3, <3>4, <3>5 DEF Next, startForwarding, RemoveConnection,
         RemoveTLSConnection, ClientStep, Ask, RecvReady, SeeClosed, Finish, SeeGarbage,
         Die, vars
  <2>7. QED
    BY <2>2, <2>6
<1>3. QED
  BY <1>1, <1>2

(* The invariant of the relay under the discipline.                        *)
LEMMA InitReuse == Init => ReuseInv
<1> SUFFICES ASSUME Init PROVE ReuseInv
  OBVIOUS
<1>1. UniqInv /\ OpenInv
  BY DEF Init, UniqInv, OpenInv, Held, Running
<1>2. TlsInv /\ CurOutside /\ RemovalOrder /\ WaiterComplete
  BY RelayAssumption DEF Init, TlsInv, CurOutside, RemovalOrder, WaiterComplete
<1>3. QED
  BY <1>1, <1>2, InitMeet DEF ReuseInv

(* Every step keeps it.                                                    *)
LEMMA ReuseStep ==
    ASSUME Reuse = "released"
    PROVE  ReuseInv /\ [Next]_vars => ReuseInv'
<1> SUFFICES ASSUME ReuseInv, [Next]_vars PROVE ReuseInv'
  OBVIOUS
<1>1. MeetInv' /\ UniqInv'
  BY MeetStep, UniqStep DEF ReuseInv, MeetInv
<1>2. TlsInv' /\ CurOutside' /\ RemovalOrder'
  BY TlsStep, CurStep, RemovalStep DEF ReuseInv, MeetInv
<1>3. WaiterComplete' /\ OpenInv'
  BY WaiterStep, OpenStep DEF ReuseInv, MeetInv
<1>4. QED
  BY <1>1, <1>2, <1>3 DEF ReuseInv

(* It holds of every behaviour in which parties keep the discipline.       *)
THEOREM ReuseInvariant ==
    ASSUME Reuse = "released"
    PROVE  Spec => []ReuseInv
<1>1. ReuseInv /\ [Next]_vars => ReuseInv'
  BY ReuseStep
<1>2. QED
  BY <1>1, InitReuse, PTL DEF Spec

(***************************************************************************)
(* If a party dials a tag again only after the relay has let go of the     *)
(* earlier connection, two startForwarding goroutines never read from one  *)
(* socket.                                                                 *)
(***************************************************************************)
THEOREM OneForwarderHolds ==
    ASSUME Reuse = "released"
    PROVE  Spec => []OneForwarderPerSocket
<1>1. ReuseInv => OneForwarderPerSocket
  <2> SUFFICES ASSUME ReuseInv, NEW f \in Conn, NEW g \in Conn, f # g, Running(f), Running(g)
               PROVE  Ends(f) \cap Ends(g) = {}
    BY DEF OneForwarderPerSocket
  <2>1. Active(f) /\ Active(g) /\ fwd[f] # "none" /\ fwd[g] # "none"
    BY DEF Running, Active
  <2>2. ~Stored(f) /\ ~Stored(g) /\ Stored(fdst[f]) /\ Stored(fdst[g])
    BY <2>1 DEF ReuseInv, MeetInv, JoinInv, RoleInv, Stored
  <2>3. PeerKey(f) # PeerKey(g)
    BY <2>1, ForwardersApart DEF ReuseInv, MeetInv
  <2>4. fdst[f] # fdst[g]
    BY <2>1, <2>3 DEF ReuseInv, MeetInv, JoinInv, FwdInv
  <2>5. QED
    BY <2>2, <2>4 DEF Ends
<1>2. QED
  BY <1>1, ReuseInvariant, PTL

(***************************************************************************)
(* Under the same discipline a waiting connection always has its own TLS   *)
(* object on file, although StoreTLSConnection's error is dropped, the     *)
(* maps have a lock each and startForwarding clears them key by key.       *)
(***************************************************************************)
THEOREM WaiterCompleteHolds ==
    ASSUME Reuse = "released"
    PROVE  Spec => []WaiterComplete
<1>1. ReuseInv => WaiterComplete
  BY DEF ReuseInv
<1>2. QED
  BY <1>1, ReuseInvariant, PTL

(***************************************************************************)
(* Under the same discipline the relay closes a session that is up only    *)
(* after one of its two ends has ended, or by going down as a whole: no    *)
(* closeConnections and no rejection hits the session of somebody else.    *)
(***************************************************************************)
THEOREM SessionEndsByItsEndsHolds ==
    ASSUME Reuse = "released"
    PROVE  Spec => SessionEndsByItsEnds
<1>1. ReuseInv /\ [Next]_vars =>
      [\A f \in Conn : (/\ Running(f) /\ client[f] = "up"
                        /\ sock[f] = "open" /\ sock'[f] = "closed" /\ pc' # "crashed")
                       => Ends(f) \cap gone # {}]_vars
  <2> SUFFICES ASSUME ReuseInv, [Next]_vars, NEW f \in Conn, fwd[f] = "run", client[f] = "up",
                      sock[f] = "open", sock'[f] = "closed", pc' # "crashed"
               PROVE  Ends(f) \cap gone # {}
    BY DEF Running
  <2>1. ~Stored(f) /\ f # cur
    BY DEF ReuseInv, MeetInv, JoinInv, RoleInv, CurInv
  <2>2. ASSUME NEW g \in Conn, PumpEnds(g) \/ ForwardingFinished(g)
        PROVE  g = f /\ PumpEnds(f)
    <3>1. f \in Ends(g) \cup {fdtls[g]}
      BY <2>2 DEF PumpEnds, ForwardingFinished, CloseAll
    <3>2. g = f
      BY <2>1, <3>1 DEF Ends, Stored
    <3>3. QED
      BY <2>2, <3>2 DEF ForwardingFinished, ForwarderStep
  <2>3. CASE PumpEnds(f)
    BY <2>3 DEF PumpEnds, Ends, ReuseInv, OpenInv, Running
  <2>4. ~receiveWaitAndForward
    BY <2>1 DEF receiveWaitAndForward, Accept, Handshake, HandshakeFails, ReadFails,
       RejectCurrent, AcceptNext, GetConnection, StoreTLSConnection, StoreConnection,
       GetTLSConnection, SendReadyServer, SendReadyClient, Fork, ReuseInv, MeetInv, JoinInv, TypeOK
  <2>5. ~MapRace
    BY DEF MapRace
  <2>6. \A c \in Conn : ~Dial(c)
    BY DEF Dial, ReuseInv, MeetInv, JoinInv, TypeOK
  <2>7. QED
    BY <2>2, <2>3, <2>4, <2>5, <2>6 DEF Next, startForwarding, RemoveConnection,
       RemoveTLSConnection, SessionE2E, ClientStep, Ask, RecvReady, SeeClosed, Finish,
       SeeGarbage, Die, relayVars, vars
<1>2. QED
  BY <1>1, ReuseInvariant, PTL DEF Spec, SessionEndsByItsEnds

=============================================================================
