# Flock: TLA+ models, checks and proofs

Flock runs an operation of a user (threshold signing, AES, secret recovery,
freshness of files, private information retrieval) as a multi-party computation
between three parties on three clouds. Each party is a stateless handler that
keeps its objects in its cloud's storage. A party that cannot accept connections
reaches the others through a relay.

This directory models the parts of Flock whose correctness depends on
interleavings, failures, order or the interplay of several parties' data: the
relay, the set-up of connections, the message rounds and the values of the MPC
programs, the message loops of threshold signing, the attempt limiter, U2F and the
freshness module. TLC checks the models on small instances, and TLAPS proves all their
safety properties and refinements for every instance, the bound on failed attempts for
requests that do not overlap. Paths below are relative
to `src/`.

## 1. Inventory

| Component | State | Operations | Interacts with | Hard behaviour |
|---|---|---|---|---|
| Relay data plane (`relay/pkg/server`) | the accept loop's locals | accept, handshake, `authorize`, `sendReady`, start of a forwarder | clients over TLS, the store, forwarders | one loop waits for every client in turn; forwarders clean up while it runs |
| Relay store (`relay/pkg/store`) | `openConns`, `tlsConns` | Store, Get, Remove on each map | accept loop and forwarders share it | one lock per map and per call; existence checks without a lock |
| Forwarder (`forwarder.go`, `startForwarding`) | two sockets | two pumps, close, clean-up by key | the two clients, the store | either pump may end first; clean-up long after the session |
| Relay clients (`relay/pkg/client`, `emp-tool/net/client.h`) | a connection | dial, request, wait for Ready, end-to-end TLS | relay, peer | 500 ms deadline, errors that end the process, tags used again |
| Connection set-up (`internal/cmd/signing/main.go`, `netmp.h`, `net_io_channel.h`) | the map or array of sockets | dial or ask in an order, listen, store | relay clients, the other parties' set-ups | order of dials, ports listened on twice, sessions that break half-way, an unsynchronised map |
| MPC message rounds (`mpc.h`, `fpremp.h`, `abitmp.h`, `flexible_input_output.h`, `ThreadPool.h`) | pool queue, sockets | tasks of each step, joins | the other parties | a pool task that waits for the pool, full socket buffers, messages without a type, a killed process |
| MPC values (the same files, `authshare_builder.h`) | authenticated bits, triples, garbled rows, labels | triple generation, garbling, input, evaluation, output | rounds | corrections that several parties must apply consistently |
| Threshold signing (`internal/signing`) | position in the protocol's script | take a message, send, receive, update | the other parties, tss-lib | lock-step exchange, parties ahead of each other, crash of one |
| Framing (`internal/networking/comm.go`) | sockets, locks | Send, Recv, Close | signing loops | partial reads, close with unread data |
| Attempt limiter (`handlers/handler_util.py` `handler_body`) | counter and timestamp objects | check, count, reset | every operation with authentication | read-modify-write by overlapping requests, clocks of several hosts, requests that stop half-way |
| U2F (`auth_u2f_gen_challenge`, `auth_u2f_verify_challenge`, `invoke_auth_u2f`) | one challenge object per party | generate, sign, verify | limiter, client, Merkle helpers | a second operation overwrites the challenge; results in any order; attempts shared with the passcode |
| Freshness (`run_freshness_*`, `client/invoke.py`) | content; hash, version, permissions | store, retrieve, update permissions | two servers, client | two independent requests per operation, lost requests, overlapping operations |
| PIR path (`run_handle_pir_requests`) | the file `/tmp/pir` | write request, run server | other workers of the host | one file for all workers |
| Storage backends (`handlers/storage.py`) | cloud objects | get, store, exists | all handlers | a read that fails |
| Client (`client/invoke.py`, `sharding_helper.py`) | none | invoke two or three parties and combine | all parties | answers in any order |
| Helpers (`util/crypto_util.py`) | none | Merkle proofs, signatures | U2F, freshness | - |
| Vendored `emp-*` kernels, control API, deployment, figures | - | - | - | not the concern of these models |

What makes each component correct:

* **Relay**: it joins only connections that ask for each other; it gives the two
  ends opposite TLS roles; a socket belongs to one session; a session ends only
  when one of its ends does; two parties that wait for each other are served; and
  everything of a session is released.
* **Set-up**: a socket leads to the party and the slot it is meant for; a set-up that
  returns has all its sockets; all set-ups return when nothing fails.
* **MPC rounds**: no message is read in the wrong step, no SSL object is used by two
  threads, nothing is left unread, nobody waits for ever, and nobody is more than a
  step ahead of those it hears from.
* **MPC values**: triples multiply, MACs verify, the evaluator follows the plain
  circuit, outputs are the circuit's, honest parties are not taken for cheaters.
* **Signing loops**: a party always receives the type it expects; nobody waits
  for ever; buffers are bounded; closing a connection loses nothing.
* **Limiter**: the number of failures before a lock is bounded; a request is
  refused only during the lockout.
* **U2F**: a party accepts exactly the answers about its last challenge, and only
  wrong passcodes and operations that were overtaken lock the user out.
* **Freshness**: what is retrieved is what was last stored; half-done stores can be
  repaired.

`PROJECT.json` lists under `hazards` the lines where these can go wrong.

## 2. Modules

| Module | Models | Relation to others |
|---|---|---|
| `Relay` | accept loop, store, forwarders, clients | implements `Rendezvous`; proofs in `RelayProofs` |
| `Rendezvous` | abstract: what the relay promises its clients | implemented by `Relay`, used by `MeshSetup` |
| `MeshSetup` | the set-ups of the Go signing program and of `NetIOMP`, over the relay and direct | composed with the relay through `Rendezvous`; proofs in `MeshSetupProofs` |
| `AgRounds` | tasks, sockets and joins of an MPC program | implements `Lockstep`; proofs in `AgRoundsProofs` |
| `Lockstep` | abstract: nobody leaves a step before those it hears from have entered it | implemented by `AgRounds` |
| `AgShares` | the values the same program computes | proofs in `AgSharesProofs` |
| `TssRounds` | `KeyGenParty` and `SigningParty` | proofs in `TssRoundsProofs` |
| `AuthGate` | the attempt limiter for one user and one operation | proofs in `AuthGateProofs` |
| `U2F` | challenges, the client's answer, the parties' verdicts | takes the limiter as one step; its steps are in `AuthGate`; proofs in `U2FProofs` |
| `Freshness` | both servers and the client for one file | proofs in `FreshnessProofs` |

`MC<Module>` gives the constants of a run their values. Operators introduced by a
"Mutant" comment are plausible errors. They are not part of any specification:
putting one in place of the definition that follows it must break the property
named in `PROJECT.json`.

### Relay and Rendezvous

`receiveWaitAndForward` is one sequential process. `pc` says where it is, `cur`
is the connection it serves, `dstConn` and `destTLS` are `authorize`'s locals.
Each access to `openConns` or `tlsConns` is an action because each takes its own
lock, so a forwarder's removals come between any two of them. The actions follow
the code in order: `Accept`, `Handshake` or `HandshakeFails`, `GetConnection` or
`ReadFails`, then `StoreTLSConnection` and `StoreConnection` for the first of a
pair, or `GetTLSConnection`, `SendReadyServer`, `SendReadyClient` and `Fork` for
the second. A wait for the client is the guard of the next action (`Handshake`
needs a live client, `SendReadyClient` and `Fork` need `Acked`): meanwhile nobody
else is accepted.

A forwarder is named by the connection whose arrival started it. `PumpEnds` is
the end of one pump and its `closeConnections`; `ForwardingFinished` is the end of
the other, the return of `run` and the two `Close` calls; then come the four
removals in the code's order.

The store's key is a record of source, destination and tag (`getKey`), where the code
joins the three by colons. The two agree on the names in use, which contain no colon:
parties are numbers, and tags are words joined by underscores.

`MapRace` is the outcome the Go runtime may produce when an existence check
without a lock coincides with a delete: the process stops, with all it holds.

A client dials (`Dial`), writes its request (`Ask`), reads the Ready message and
the close notification (`RecvReady`), and meets its peer through the forwarder
(`SessionE2E`). Every error path of the Go and the C++ client ends the process
(`log.Fatalf`, a `Close` on a nil connection, `abort`), so they are one action
(`SeeClosed`). `Die` is an early end: the platform stops the process, or the
500 ms deadline on the close notification expires. `SeeGarbage` is a TLS session
that fails because two forwarders pump one socket.

Which connections there are, and the request each will send, are constants.
`Reuse` says when a party may dial a tag again: after the relay has let go
(`"released"`), after its own earlier processes have ended (`"ended"`, all that a
party can know), or at any time (`"any"`: operations overlap). The tags of the
code are fixed strings, so all three happen.

`Rendezvous` is what is left of this for a client: connections arrive, two that ask
for each other meet, at most once in a connection's life, and they leave.
`ImplementsRendezvous` maps a session to the two ends of a forwarder that are both
up. It holds for `Reuse = "any"`: even when overlapping operations are mixed up inside
the relay, what comes up as a session is a pair that `Rendezvous` allows. That a
pair meets at all is `Established`.

### MeshSetup

A socket (`End`) is the slot it is stored in: whose, for which peer, of which
`NetIOMP`, `ios` or `ios2`. `Blocks(p)` is the order in which party p's program opens
its sockets, in groups it waits for before it goes on: one peer after the other in
`setupTLSWithRelay`; two listeners and dials beside each other in `setupTLS`; four
threads per `NetIOMP` over the relay; one thread in the order of the loops over
`i < j` for direct connections. Over the relay a socket goes through `Ask`, the
relay's `Meet` and `Secure` (the end-to-end handshake), which one end finishes before
the other. `Cut` breaks a session while an end is in its handshake. That end's process
then ends (`Abort`), in Go as in C++: `tlsClient` and `tlsServer` call `log.Fatalf`, and the
constructor of `NetIO` calls `abort`. The loop of `dialRelayTLS` looks like a retry but
never goes round, for both of its `continue`s come after something that has ended the
process; so a socket asks the relay once.

Direct connections go through `Listen` (a port that is in use ends the process), `Connect` (repeated until somebody listens), `Accept` (the
listener of `NetIO` closes after one connection and resets whoever else had connected,
which the constructor on the other side does not notice), `Reset` and `GiveUp` (five
seconds in `dialTLS`). Go stores the connection in a map by the remote address
(`Slot`, `Store`); two stores that overlap (`StoreRace`) stop the process, or lose an
entry. `Kill` is the platform, or the `Close` on a nil connection after a failed
authorisation. `excuse` records which of the events happened that the set-up is not
built to survive.

### AgRounds and Lockstep

A program (`aes_ctr`, `auth_passcode_3PC`, `sharding`) is a list of steps; a step is the
tasks handed to the `ThreadPool` and joined at its end, or operations of the main
thread. A task is a list of reads and writes on sockets. The pool runs the oldest
`PoolSize` unfinished tasks; `ABitMP::check` is a task that waits for tasks of the same
pool and so takes one thread away (`checking`). Every pair has two connections in each
of two `NetIOMP`s, chosen by `SendSocket`, `RecvSocket` and `Get` as in `netmp.h`. A
socket holds `Cap` messages per direction; a transfer that is larger than a buffer
(`Bulk`) is two messages. A message is the number of the step its sender was in.
`Crash` kills a process at chosen steps; `Broken` is the failed `SSL_read` or
`SSL_write` at the others, which ends them in turn.

`Lockstep` has only the step every party is in. `RoundsImplementLockstep` maps `pc` and
`down` to it. For a commit and an opening in consecutive steps (`sampleRandom`, the
exchange of X in `FpreMP::compute`) it says that nobody opens before all have committed.

### AgShares

A phase of the program is one action, and all parties' values are in the state. A
block is the set of its one-bits, so that XOR is symmetric difference. An authenticated
bit is a record of shares, keys and MACs of all parties. `LeakyTriple` is the whole of
`FpreMP::compute` up to the AND check: the garbled half-products of each pair (`Garble`,
`EvaluateBit`), under a pad bit for each pair (`Pads`), the local products, `Correct`
(the sender flips, the receiver changes its
key), and the check with phi. `CombineBucket` joins leaky triples; `FunctionDependent`
makes masks and labels and multiplies by Beaver's method; `Input` and `Output` are
`FlexIn` and `FlexOut` with private, public, unauthenticated and authenticated values;
`Evaluate` is party 1's walk over the garbled gates. `BuiltShare` is
`authshare_builder.h`, which makes the inputs from a plain value. Hashes, keys and labels
are operators given by the run. The correlated OT is its result.

### TssRounds

The two loops of the code differ only in the list of message types. A *script*
says which types there are, which are point-to-point, and in which round each is
sent. For each type a party goes through `TakeMessage`, `sendTSSMessage` (once per
destination of a broadcast) and `recvTSSMessage` (once per party, with the
comparison of types and `go party.Update`). `RoundStarted` and `Update` stand for
tss-lib: a round starts when the messages of the round before have been through
`Update`. `wire[p][q]` is the TCP/TLS stream from p to q, in order. A closed
connection makes `Recv` fail once it is empty, or at once if the closing side left
something unread (the reset may overtake what it had sent). A party that ends by an error
of the protocol is `"dead"`; one that the platform stops (`Crash`) is `"killed"`, and only
this excuses `NobodyStranded`.

### AuthGate

Each worker is a request in `handler_body`, with the function's locals `n`,
`last_failed_timestamp` and `current_time`; each `get_object` and `store_object` is
a step. `perf_counter` is real time plus an offset per host; `Skew` is the largest
difference of two offsets. `failures`, `lost` and `failedAt` are history variables that
state the properties. The authentication (passcode by MPC, or U2F) is a free choice
between success and failure. `Abort` is a request that ends before it has recorded its
outcome: the platform stops it, or `auth_passcode` raises because its program printed
no result.

### U2F

`slot[p]` is the object `auth_u2f_challenge` of party p, `issued` remembers which
challenge each operation was given. `Sign` is the client after all results are in, in
any order of completion (`came`): it sorts, builds the Merkle tree, signs the root and
sends each party its path. Hashes are free constructors, so `validate_proof` succeeds
exactly when the path leads to the root; so are signatures with the user's key, which
`verify_response` checks as well. A path has an entry for every level of the tree,
an empty one (`side = "none"`) where merkletools adds nothing. `Fail` is an operation that never answers; its challenges
stay behind. `auth_u2f_verify_challenge` is the verdict and the limiter's count in one
step, because the steps of the limiter are `AuthGate`'s subject; the counter is cut off
at 0, since the code only asks whether it is positive. The limiter's objects are named
after the request's `op`, which a U2F and a passcode authentication both leave empty
(`invoke.py:290` and `:371`), so the two kinds of authentication share `counter`.
`auth_passcode` is one step of all parties: they compute the comparison together and get
the same result. A party that is locked never starts the computation, the others then
wait until they are stopped, and nobody counts anything.

### Freshness

An operation is one call of the client, with a request to each server. Content and
hash are both represented by the store operation they came from, so comparing a
hash with a content is comparing two operations. Permissions are one flag: the
file's one owner is its only user. The hash server's steps are its storage accesses
in the code's order. `RequestFails` loses a request or its answer, or stops a server
in the middle of it.

## 3. Runs

| Run | Checks | Bounds |
|---|---|---|
| `relay_any` | `TypeOK`, `JoinsMatch`, `RolesDiffer`, `ImplementsRendezvous` | two connections of each of two parties under one tag, dialled at any time, one fragile; a fifth one under another tag whose certificate is rejected |
| `relay_released` | `OneForwarderPerSocket`, `WaiterComplete`, `SessionEndsByItsEnds` | the same four, and one connection of each party under a second tag; reuse after release |
| `relay_live` | `Established`, `JoinedIsReleased` | the same four, fairness |
| `relay_reuse` | `Established` (violated) | reuse after the party's own processes ended |
| `mesh_setup` | `TypeOK`, `SocketsMatch`, `ReadyHasAll`, `MeshCompletes` | all four programs, three parties, any of which may be killed; two `NetIOMP`s, over the relay with one of their two arrays; two kills or cuts |
| `ag_rounds` | `TypeOK`, `MessagesMatch`, `OneThreadPerSocket`, `CleanEnd`, `AllFinish`, `AllEnd`, `RoundsImplementLockstep` | three parties, four pool threads, sockets of one message; a kill inside `ABitMP::check`, in the first exchange of `FlexIn::input` or in the last of `FlexOut::output` |
| `ag_shares` | `TriplesMultiply`, `MacsVerify`, `EvaluationTracksWires`, `ResultIsTheCircuit`, `NoFalseCheat` | three parties, blocks of three bits, a circuit with AND, XOR and NOT, buckets of two, three mixtures of inputs and outputs |
| `tss_signing` | `TypeOK`, `TypesAgree`, `AtMostTwoInFlight`, `DoneHasReadAll`, `AllEnd`, `NobodyStranded` | three parties, the first types of signing, its closing broadcasts cut to two, one party may crash |
| `authgate_sequential` | `TypeOK`, `FailuresBounded`, `RefusedOnlyWhileLocked` | one request at a time on two hosts started at different times, two attempts, lockout 2, time up to 6, requests may stop, reads may fail |
| `authgate_workers` | `FailuresBounded` (violated) | two workers on one host, two attempts, before a lock expires, nothing fails |
| `u2f` | `LockedOnlyByFailures`, `VerdictIsFreshness` | three parties, two U2F operations, two passcodes, two attempts |
| `freshness_lost` | `TypeOK`, `InitialStoreAccepted`, `FreshAfterStore` | three stores and a retrieve, overlapping in any way; the requests of two of the stores may fail |

Why the bounds are enough for the cases that matter.

* Relay: two connections per side under one tag are what it takes for a clean-up to
  meet a new arrival and for two forwarders to share a socket; the second tag shows that
  sessions with different keys do not meet.
* Set-up: three is the number of parties the code is written for (the relay orders and
  port arithmetic are for three). Party 3's `ios2` port is listened on twice in one
  `NetIOMP` and the second `NetIOMP` lies right above, so two of them are explored where
  ports are used. Over the relay the threads for `ios` and `ios2` do the same under different
  tags, so one of the arrays is explored (`RelayKinds`); the second `NetIOMP` shows that
  nothing of the first is met by it. Two faults let a session break and another process
  fail while the first failure is still spreading.
* Rounds: sockets of one message make every write wait that could wait. The programs
  create four threads; the run also passes with two, while with one the pool
  thread inside `ABitMP::check` waits for ever for tasks nobody runs. The three points of
  the kill lie in the three kinds of steps: inside the check, among the pool tasks of
  main, and where some parties have already finished.
* Shares: one circuit in which an AND has a negated and a shared input, two leaky
  triples per bucket (one combination, repeated by larger buckets), and assignments in
  which every kind of input and output occurs. Pads differ between the pairs of a triple.
  Global keys are not zero: the code draws them at random (`abitmp.h`,
  `authshare_builder.h:41`), so this fails with probability 2^-128.
* Signing: three parties, and a script that contains each change of kind (broadcast to
  point-to-point and back, two types in one round); key generation has no other.
* Limiter: `MaxFailures` lies above every bound that is checked, so that it hides
  nothing, and time runs long enough for a lock to expire and a second one to set in. Two
  workers are the least that overlap; the repository starts four (`Dockerfile.ubuntu:107`)
  or eight (`README.md:68`), which have the same behaviours and more.
* U2F: with two operations one overtakes the other, at some parties or at all; with two
  passcodes and two attempts a lock comes from either kind alone or from both, and somebody
  comes after it. Operations are interchangeable, and so are passcodes, hence the symmetry.
* Freshness: three stores give content, version and hash three different origins.

Deadlock is checked in `ag_rounds` and `ag_shares`, where the end of the program is the
one place to stop. It is off elsewhere: those systems come to a legitimate stop when
the bounded set of connections, attempts or operations is used up, or, in the set-up,
when a killed party leaves others that wait.

### What the violated runs show

`relay_reuse`: a party can only know that its own process has ended, not that the
relay has cleaned up. When both dial the tag again at once, the new connection of
one meets the entry of the last session and is turned away, and its peer waits
for ever. `relay/README.md:17` promises a connection when both have connected.

`authgate_workers`: `handler_util.py:16` speaks of a "maximum number of faulty attempts",
and line 64 answers "Maximum faulty attempts reached". `handler_body` reads the counter,
authenticates, and stores its own copy less one, without a lock. Of two requests that
overlap, the second has read 1 before the first stores 0; it is let in, and with two attempts
allowed three fail, each of them recorded. `authgate_sequential` and the theorem
`FailuresBoundedHolds` show that the bound holds for requests that do not overlap.

### Other observations

These follow from the code and were seen with TLC, by larger or stricter instances than
the runs above. They contradict no statement of the repository, so they have no
run of their own.

* `time.perf_counter()` has a different origin on each host: the lockout is wrong by up
  to `Skew`, which is part of `RefusedOnlyWhileLocked`.
* While two stores overlap, the client can report tampering (`invoke.py:278`) although
  everybody is honest, because nothing orders the two requests of an operation.
  `FreshAfterStore` states what holds once a store has run alone.
* The bare `except` at `handler_util.py:54` takes any failed read for "the first run" of
  the comment on line 55, and gives all attempts back (`FailuresBounded` therefore counts
  from the last initialisation).
* `if True` at `handler_util.py:339` stands where the version check should be, so that the
  error on line 372 is never given. `FreshAfterStore` holds with or without the check and
  does not depend on it. The client sends version 0 with every store (`invoke.py:211`), so
  with the check every store but the first would be turned away.
* If one party ends during the set-up, the others wait for ever in all four programs
  (except for `dialTLS`, which gives up). A session that breaks during its handshake ends
  the process at every end that was not done, and with it the set-up of the third party.
  Nothing is tried again, although `dialRelayTLS` has a loop for it. These are `excuse`s of
  `MeshCompletes`.
* Wrong passcodes lock the user out of U2F as well, and a right one gives back the attempts
  that U2F used up: the limiter's key is the same for both.
* Two U2F operations that overlap can both be turned away, each by another party.

### Fairness

* `relay_live`: the accept loop and each forwarder are goroutines, so they take their
  enabled steps (weak fairness of `receiveWaitAndForward` and `startForwarding`); a
  client that is alive continues its protocol, sees a closed connection and ends its
  session (weak fairness of `ClientStep` and `SessionE2E`). Nothing makes a party dial
  or a process die. In the code a client that is alive but silent blocks the accept
  loop, since no read there has a deadline: `Established` says nothing about it.
  `Established` also excuses a pair of which one died early, and a relay stopped by
  `MapRace`.
* `mesh_setup`: each party's threads run, the relay joins two that ask for each other
  (what `Established` shows of `Relay`), and a listener takes who has connected. Nothing
  makes a process fail, a session break, a dial time out or two stores overlap.
* `ag_rounds`: the operating system runs some thread of a party that has one to run.
  Weak fairness of a party's work as a whole is enough, since a party's tasks of a
  step are finite.
* `tss_signing`: each party's process takes its enabled steps; no party is obliged to
  crash.

## 4. Proofs

### `RelayProofs`, for any parties, tags, connections and reuse

`TypeCorrect`, `JoinsMatchHolds` and `RolesDifferHolds` follow from `JoinInvariant`
(`Spec => []JoinInv`). `JoinsMatch` alone is not inductive: that the forwarder's two
ends mirror each other comes from the key the second one was found under, which
comes from the request of the connection that was stored there (`KeyInv`, `LoopInv`,
`FwdInv`). For `RolesDiffer` one needs that a connection is never on both sides: once
stored to wait it never completes a pair, and one that completed a pair is never
stored (`CurInv`, `RoleInv`). That rests on a connection being nowhere in the relay
before it is accepted (`FreshInv`). `TypeOK` includes that `authorize` has no nil
connection in hand when it calls `sendReady`. There is one lemma per group of actions
(`StepAccept` ... `StepSession`), and `JoinStep` puts them together. The only
assumption is `RelayAssumption`.

`RelayImplementsRendezvous` is the step simulation. It needs that a client is up together
with the other end of its forwarder and only so (`UpInv`): `SessionE2E` is `Meet`, the end
of a client is `Leave`, all other steps are stuttering. It holds for every `Reuse`.

The other three theorems assume `Reuse = "released"`, the discipline under which the
relay's store is used as it was meant to be; `relay_reuse` shows what happens without.
`ReuseInv` adds to `MeetInv` that the relay holds at most one connection per request
(`UniqInv`), that TLS objects lie under their own key (`TlsInv`), that the connection the
loop serves is not stored yet (`CurOutside`), that a partner's entry leaves `openConns`
before it leaves `tlsConns` (`RemovalOrder`), and `WaiterComplete` itself. Two forwarders
then have different keys (`ForwardersApart`), hence different sockets
(`OneForwarderHolds`). `SessionEndsByItsEndsHolds` also needs that the other socket is open
while a session is pumped (`OpenInv`). Each part has its own step lemma.

### `TssRoundsProofs`, for any number of parties and any script

`RoundsInvariant` (`Spec => []RoundsInv`) counts. What a party has sent to and
received from another is a function of where its loop stands (`Sent`, `Rcvd`), they
differ by at most one, and a connection holds exactly the types after what the other
side has received, in order (`WireInv`). `TypesAgreeHolds` is then immediate: the head
of the queue is the next type. `AtMostTwoInFlightHolds` follows because a sender is at
most one ahead of what it has received, and its peer likewise;
`DoneHasReadAllHolds` because nothing can be sent beyond the last type. Assumption:
`RoundsAssumption` (at least two parties, types ordered by round).

### `AuthGateProofs`, for any hosts, uptimes and limits

`RefusedOnlyWhileLockedHolds`, for any number of workers: every timestamp that is stored
or has been read is no later than some host's clock at the latest failed attempt
(`StampInv`), and two clocks differ by at most `Skew`. `FailuresBoundedHolds` is for one
worker (the hypothesis `Worker = {w}`); with two it is false. `CountInv` says what the
counter and the timestamp mean between two requests (`Settled`) and at each place of
`handler_body`: the counter has counted the failures since the last success or lock; one
that is used up is either behind by a failure that was not recorded or has the timestamp
of the latest failure. `authgate_workers` shows that the hypothesis is needed. Assumption:
`GateAssumption`.

### `FreshnessProofs`, for any operations, overlapping or not, losing requests or not

`InitialStoreAcceptedHolds`: a version is stored only where permissions are (`GrantInv`),
because the hash server stores permissions first. `FreshAfterStoreHolds`: while an
operation is `alone`, the servers hold what it has stored so far, or what the last such
store left (`AloneInv`); requests exist only between the beginning and the end of their
operation (`RequestInv`). Assumption: `FreshnessAssumption`.

### `U2FProofs`, for any number of parties and operations and any limit

`PathFitsItsLeafOnly` is about the Merkle tree alone: with any number of leaves, the path
of place i leads from leaf i to the root and from no other leaf. The levels halve
until one node is left, and the path's i-th entry is the sibling on level i, so combining
keeps the invariant "this is the node of the place on this level"; since hashes are free
constructors, two leaves that lead to the same node by the same path are equal.
`VerdictIsFreshnessHolds` follows from `ResponseInv`: an answer is made of all the
challenges issued to the operation, each at the place of its party (`AnswerInv`, which is
where the client's sort matters), and a party's slot holds its last challenge
(`ChallengeInv`). `LockedOnlyByFailuresHolds` counts: every attempt that is gone went to a
wrong passcode or to an overtaken operation, neither of which is ever taken back
(`CountInv`). Assumption: `U2FAssumption`.

### `MeshSetupProofs`, for any of the programs, one or two `NetIOMP`s, any kills and cuts

`MeshInvariant` (`Spec => []MeshInv`). The block in which a party opens a socket is the
socket's rank; that `Blocks` opens each socket of a party in exactly one block, and in which,
is worked out per program (`AllRanked`). Behind a party's current block every socket is
settled, ahead of it all are untouched (`RankInv`), so that a party's position follows from what
it holds. `TypeCorrect` and `ReadyHasAllHolds` are close to this. The latter also needs that a
socket is lost only by a map race and reset only by a party that is down (`StatInv`), that
one got over the relay has met its mirror (`MetInv`), and that of a session that broke one
end never gets through its handshake (`BrokenInv`): hence a set-up that has returned is at
the other end of it.

`SocketsMatchHolds` over the relay: a session is of two sockets made for each other
(`SessionInv`). By direct connections:
whoever waits to be accepted waits at its mirror (`QueueInv`), and what has been accepted is
linked to it (`LinkInv`). The hard case is a port on which two sockets of different slots
listen, one after the other. `RightListener` shows that nobody reaches the wrong one:
the party that dials and the one that listens would have to be in blocks that the
settled socket between the two rules out (`SamePort`, `Behind`). Assumption:
`MeshAssumption`; one or two `NetIOMP`s, since the programs create `io` and at most `io2`.

### `AgRoundsProofs`, for any number of parties, pool threads, buffers and kills

`RoundsInvariant` (`Spec => []RoundsInv`) counts per step and channel: what a party has sent
in a step is what the step contains less what its tasks still have to do, likewise what the
other side has received, and the difference is in the channel (`CountInv`), in the order of the
steps (`OrderInv`). This rests on the program: `ProgramAligned` shows for every N that in each
step what p sends to q on a socket is what q reads from it there, and that no two tasks of a
party use the same side of a socket (`Matched`, `GoodTasks`), from one lemma per kind of
step (`SendThenRecvMatched`, `ExchangeMatched`, `AbitComputeMatched`, `StarMatched` ...) and
lemmas about joining lists of steps.

`MessagesMatchHolds`: whoever reads is in a step whose messages are not all read, so the head
of the channel is not of a later step, and no earlier one has any left. `CleanEndHolds`: at
the end everything sent has been received. `OneThreadPerSocketHolds` follows from
`GoodTasks`. `RoundsImplementLockstepHolds`: a party that has left a step has read the
messages of that step from all it hears from, so these have entered it
(`HeardHaveEntered`). Assumption: `RoundsAssumption` (at least two parties, one thread, one
message of buffer).

### `AgSharesProofs`, for any parties, circuit, keys, hashes, shares and assignment

`SharesInvariant` (`Spec => []SharesInv`) says what each phase may take for granted; the
five properties of `ag_shares` follow from it. It is built upwards:

* Parity: `OddXor` (the parity of a symmetric difference), and `DoubleSum`, by induction
  over the parties: the products of all pairs of shares add up to the product of the sums.
* Authenticated bits: `Sound` (typed, and MACs verify) is kept by `Xor`, `Correct` and
  `AddPublic`, and what they open to is computed (`XorSound`, `CorrectSound`,
  `AddPublicSound`).
* Triples: `LeakyAndGood`, from `CrossPair` (the two shares of a half-gate add up to the two
  cross products, whatever the hash) and `DoubleSum`; `AndCheckPasses` (the contributions
  cancel bit by bit: `OwnSum`, `MixedSum`); `CombineGood`, by induction over the bucket;
  `BeaverSound`.
* Garbling: `RowSound` (the row's bit is the masked output), `BitOpens` and `LabelOpens`
  (what party 1 gets out of the opened rows is this bit and the label that belongs to it).
* The circuit: `CircuitTracks`, by induction over the wires.
* The phases: one lemma per action (`LeakyTripleStep` ... `OutputStep`).

Nothing is assumed of `H` and `G`: correctness does not depend on the hash. That global
keys are not zero is needed where a bit is read off a comparison (`BitOpens`,
`OutputOpens`). Assumption: `SharesAssumption`. As in the code's `num_ands`, triples are made
for the AND gates; a circuit without any never leaves the first phase of the model, so
the theorems say nothing about it.

### Inductions

The induction theorems of the library take a predicate as a parameter, which the
installed provers cannot instantiate. Inductions over data (a set's size, levels of a
tree, triples of a bucket, wires) are therefore done by a least counterexample: the set of
counterexamples is defined, and a least element of it (`NatMin`, `WFMin`) is refuted. That
a recursive function satisfies its equation is shown in the same way (`MasksDef`,
`LabelsDef`, `PlainDef`, `EvalDef`, `CombineDef`).

### Only model-checked

Liveness under fairness (`Established`, `JoinedIsReleased`, `MeshCompletes`, `AllFinish`,
`AllEnd`, `NobodyStranded`) is beyond this prover, and so is absence of deadlock, which needs
`ENABLED`. Every other property of a passing run is a theorem; `FailuresBounded`
for one worker, as its run has it.

## 5. Not modelled

* Certificates, TLS records, JSON: a handshake succeeds or fails, a message arrives
  whole. The length prefix of `comm.go` is read by one `Read`; over TLS a `Send` begins
  a record of its own, so it arrives whole, and no program uses the raw connections.
* The bytes a forwarder carries.
* The control API, which writes certificates before the relay is used.
* Of the MPC programs: the OT extension and base OTs beyond their messages, the digests
  by which `abitmp.h` checks consistency, the random assignment of triples to buckets,
  the block cipher and the hash, and the circuit files. A cheating party is not modelled.
* Generated and vendored code: the `float32_*` circuits (no program of the repository uses
  them), `sse2neon.h`, AES and SHA kernels, curves, Bristol parsers. They are the
  bulk of the C++ lines (the ten longest files alone are four fifths), have no state and no
  order of events, and would only be transliterated; the part of the C++ code that is
  modelled is therefore small as a share of all its lines.
* `run_freshness_permissions_update`. Storage keys begin with the user's name
  (`_get_prefixed_key`), so nobody but the owner reaches the objects of a file: what the
  update writes for other users is never read, and no client sends the request.
* The PIR path: all workers write their request to `/tmp/pir`. Nothing guards against
  overlap, so a model could only restate that; the computation is a library's.
* The older router variants in `netmp.h` and `main.go` that no program calls, cloud SDK
  calls, deployment, figures.

## 6. State of the plan

The modules, runs and proofs that were planned are done. Every type invariant, safety
invariant and action property that a run checks, and both refinements, are theorems; what
TLC alone checks is liveness.

A change of the code that touches a model is followed in this order: the definition and its
lines in `PROJECT.json`, the runs, the mutants, the proofs. An invariant that no longer
holds is first found by TLC: each inductive invariant is a conjunction of named parts, any
of which can be put into a `.cfg` through an `MC` module that extends the proof module's
definitions.

What would be worth adding, with a prover for it: the liveness of `Relay`, for which `JoinInv` and
`ReuseInv` already say what the fair steps find.
