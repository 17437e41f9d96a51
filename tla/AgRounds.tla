------------------------------ MODULE AgRounds ------------------------------
(***************************************************************************)
(* The message rounds of one run of an AG-MPC program (aes_ctr,            *)
(* auth_passcode_3PC, sharding): set-up, function_independent,             *)
(* function_dependent and online, as the tasks every step hands to the     *)
(* ThreadPool, the sockets each task reads and writes, and the join that   *)
(* ends the step.  What is in the messages is left to AgShares; here a     *)
(* message is the number of the step its sender was in.                    *)
(***************************************************************************)
EXTENDS Naturals, Sequences, Functions

CONSTANTS
    N,          \* nP, the number of parties
    PoolSize,   \* threads of the ThreadPool the program creates
    Cap,        \* messages a socket holds in one direction before a write waits
    Kill        \* <<p, k>>: the process of p may be killed while in step k

ASSUME RoundsAssumption ==
    /\ N \in Nat \ {0, 1}
    /\ PoolSize \in Nat \ {0}
    /\ Cap \in Nat \ {0}
    /\ Kill \subseteq (1..N) \X Nat

VARIABLES
    pc,         \* pc[p]: step the main thread of p is in
    queue,      \* queue[p]: unfinished pool tasks of p, oldest first
    direct,     \* direct[p]: operations the main thread performs itself
    checking,   \* checking[p]: a pool thread is inside ABitMP::check
    chan,       \* chan[c]: messages written to c and not yet read
    down        \* parties whose process has ended early

vars == <<pc, queue, direct, checking, chan, down>>

Party == 1..N

-----------------------------------------------------------------------------
(* Sockets.  A NetIOMP holds two connections per peer, ios and ios2; a
   program has two of them, io[0] and io[1].                               *)

Nets == {0, 1}
Sockets == {"ios", "ios2"}
Channel == {c \in Nets \X Sockets \X Party \X Party : c[3] # c[4]}

\* Mutant: one connection per peer for both directions.
SendSocketShared(a, b) == "ios"

\* the socket on which a's messages to b travel: both ends must agree
SendSocket(a, b) == IF a < b THEN "ios" ELSE "ios2"
RecvSocket(a, b) == IF a < b THEN "ios" ELSE "ios2"

Send(n, p, q) == [dir |-> "send", chan |-> <<n, SendSocket(p, q), p, q>>]
Recv(n, p, q) == [dir |-> "recv", chan |-> <<n, RecvSocket(q, p), q, p>>]

\* the same operation on the connection get(q, b) returns
Get(b) == IF b THEN "ios" ELSE "ios2"
SendOn(s, p, q) == [dir |-> "send", chan |-> <<1, s, p, q>>]
RecvOn(s, p, q) == [dir |-> "recv", chan |-> <<1, s, q, p>>]

\* a transfer larger than the socket's buffer
Bulk(op) == <<op, op>>

\* the k-th peer of p in the loops "for i < j, if i == party or j == party"
Peer(p, k) == IF k < p THEN k ELSE k + 1
Peers(p) == Party \ {p}

\* two tasks per peer, in the order they are enqueued
TwoPerPeer(p, First(_), Second(_)) ==
    [k \in 1..(2 * (N - 1)) |->
        IF k % 2 = 1 THEN First(Peer(p, (k + 1) \div 2))
                     ELSE Second(Peer(p, k \div 2))]

OnePerPeer(p, Task(_)) == [k \in 1..(N - 1) |-> Task(Peer(p, k))]

SendThenRecv(n, p) ==
    OnePerPeer(p, LAMBDA q : <<Send(n, p, q), Recv(n, p, q)>>)
SendAndRecv(n, p) ==
    TwoPerPeer(p, LAMBDA q : <<Send(n, p, q)>>, LAMBDA q : <<Recv(n, p, q)>>)
\* Mutant: one task per peer reads before it writes.
RecvThenSend(n, p) ==
    OnePerPeer(p, LAMBDA q : <<Recv(n, p, q), Send(n, p, q)>>)

RecvAndSend(n, p) ==
    TwoPerPeer(p, LAMBDA q : <<Recv(n, p, q)>>, LAMBDA q : <<Send(n, p, q)>>)
BulkSendAndRecv(n, p) ==
    TwoPerPeer(p, LAMBDA q : Bulk(Send(n, p, q)), LAMBDA q : Bulk(Recv(n, p, q)))

-----------------------------------------------------------------------------
(* The steps.  A step hands tasks to the pool ("pool"), performs operations
   on the main thread ("main"), or starts or ends the task of ABitMP::check,
   which waits for tasks of the same pool while it holds one of its threads. *)

Pool(tasks) == [by |-> "pool", tasks |-> tasks]
Main(ops) == [by |-> "main", tasks |-> <<ops>>]

\* base OTs of the Chou-Orlandi protocol: the sender opens
OtSend(s, p, q) == <<SendOn(s, p, q), RecvOn(s, p, q), SendOn(s, p, q)>>
OtRecv(s, p, q) == <<RecvOn(s, p, q), SendOn(s, p, q), RecvOn(s, p, q)>>

\* setup_send receives the base OTs, setup_recv sends them
SetupSend(p, q) == OtRecv(Get(p > q), p, q)
SetupRecv(p, q) == OtSend(Get(p < q), p, q)

AbitSetup(p) ==
    Pool([k \in 1..(2 * (N - 1)) |->
             LET q == Peer(p, (k + 1) \div 2)
             IN  IF (k % 2 = 1) = (p < q) THEN SetupSend(p, q) ELSE SetupRecv(p, q)])

\* send_cot reads the matrix that recv_cot writes
AbitCompute(p) ==
    Pool(TwoPerPeer(p, LAMBDA q : Bulk(RecvOn(Get(p > q), p, q)),
                       LAMBDA q : Bulk(SendOn(Get(p < q), p, q))))

SampleRandom(n, p) == <<Pool(SendThenRecv(n, p)), Pool(SendThenRecv(n, p))>>

Check1(p) == Pool(SendAndRecv(1, p))

Check2(p) ==
    << Pool(SendThenRecv(1, p)),    \* digests of shares, MACs and keys
       Pool(SendAndRecv(1, p)),     \* shares and MACs
       Pool(SendAndRecv(1, p)) >>   \* keys

Check(p) ==
    << [by |-> "begin", tasks |-> <<>>] >>
    \o SampleRandom(1, p) \o <<Check1(p)>> \o Check2(p)
    \o << [by |-> "end", tasks |-> <<>>] >>

\* Mutant: the reader stops one buffer early.
GarbleTriplesShort(p) ==
    Pool(OnePerPeer(p, LAMBDA q : IF p < q THEN Bulk(Send(0, p, q))
                                           ELSE <<Recv(0, p, q)>>))

\* half gates of the leaky triples: the lower party sends
GarbleTriples(p) ==
    Pool(OnePerPeer(p, LAMBDA q : IF p < q THEN Bulk(Send(0, p, q))
                                           ELSE Bulk(Recv(0, p, q))))

\* FpreMP::compute
Triples(p) ==
    << AbitCompute(p), GarbleTriples(p), Pool(SendAndRecv(0, p)) >>
    \o Check(p) \o << Pool(BulkSendAndRecv(0, p)) >>
    \o SampleRandom(0, p)
    \o << Pool(SendThenRecv(0, p)), Pool(SendThenRecv(0, p)) >>
    \o SampleRandom(0, p)
    \o << Pool(SendAndRecv(0, p)) >>

FunctionIndependent(p) == Triples(p) \o <<AbitCompute(p)>> \o Check(p)

\* everyone else writes on its main thread, party 1 reads with pool tasks
ToEvaluator(p, Size(_)) ==
    IF p = 1 THEN Pool([k \in 1..(N - 1) |-> Size(Recv(0, 1, k + 1))])
             ELSE Main(Size(Send(0, p, 1)))

FunctionDependent(p) ==
    << Pool(SendAndRecv(0, p)), ToEvaluator(p, Bulk) >>

\* FlexIn::input: plaintext masks, masked plaintexts, authenticated,
\* unauthenticated and public inputs
FlexInput(p) == [k \in 1..5 |-> Pool(RecvAndSend(0, p))]

\* Mutant: party 1, which knows the masked outputs, does not read the masks.
FlexOutputDeaf(p) ==
    << IF p = 1 THEN Pool([k \in 1..(N - 1) |-> <<Send(0, 1, k + 1)>>])
                ELSE Main(<<Recv(0, p, 1)>>),
       Pool(IF p = 1 THEN OnePerPeer(p, LAMBDA q : <<Send(0, p, q)>>)
                     ELSE RecvAndSend(0, p)) >>

\* FlexOut::output: party 1 returns the labels, then the masks are opened
FlexOutput(p) ==
    << IF p = 1 THEN Pool([k \in 1..(N - 1) |-> <<Send(0, 1, k + 1)>>])
                ELSE Main(<<Recv(0, p, 1)>>),
       Pool(RecvAndSend(0, p)) >>

Online(p) ==
    FlexInput(p) \o << ToEvaluator(p, LAMBDA op : <<op>>) >> \o FlexOutput(p)

\* run_agmpc
Program ==
    [p \in Party |-> <<AbitSetup(p)>> \o FunctionIndependent(p)
                     \o FunctionDependent(p) \o Online(p)]

Last == Len(Program[1])

-----------------------------------------------------------------------------
Init ==
    /\ pc = [p \in Party |-> 0]
    /\ queue = [p \in Party |-> <<>>]
    /\ direct = [p \in Party |-> <<>>]
    /\ checking = [p \in Party |-> FALSE]
    /\ chan = [c \in Channel |-> <<>>]
    /\ down = {}

Up(p) == p \notin down

\* Mutant: the futures are dropped, not waited for.
NotJoined(p) == direct[p] = <<>>

\* joinNclean has returned: every future of the step is ready
Joined(p) == queue[p] = <<>> /\ direct[p] = <<>>

(* The join of one step and the enqueues of the next; pc[p] passes Last when
   the last join returns.                                                  *)
NextStep(p) ==
    /\ Up(p) /\ Joined(p) /\ pc[p] <= Last
    /\ pc' = [pc EXCEPT ![p] = @ + 1]
    /\ IF pc[p] = Last
       THEN UNCHANGED <<queue, direct, checking>>
       ELSE LET step == Program[p][pc[p] + 1]
            IN  /\ queue' = [queue EXCEPT ![p] = IF step.by = "pool" THEN step.tasks ELSE <<>>]
                /\ direct' = [direct EXCEPT ![p] = IF step.by = "main" THEN step.tasks[1] ELSE <<>>]
                /\ checking' = [checking EXCEPT ![p] =
                                   (@ \/ step.by = "begin") /\ step.by # "end"]
    /\ UNCHANGED <<chan, down>>

(* The pool is a FIFO queue and a worker that ends a task takes the next one,
   so the tasks being worked on are the oldest unfinished ones, one per
   thread that is not inside ABitMP::check.                                *)
Threads(p) == IF checking[p] THEN PoolSize - 1 ELSE PoolSize
Running(p) == {k \in DOMAIN queue[p] : k <= Threads(p)}

\* what remains of a list of tasks once its k-th has performed an operation
Rest(tasks, k) ==
    IF Len(tasks[k]) > 1
    THEN [tasks EXCEPT ![k] = Tail(@)]
    ELSE SubSeq(tasks, 1, k - 1) \o SubSeq(tasks, k + 1, Len(tasks))

\* Mutant: a write never waits.
TransferUnbounded(p, op) ==
    \/ /\ op.dir = "send"
       /\ chan' = [chan EXCEPT ![op.chan] = Append(@, pc[p])]
    \/ /\ op.dir = "recv"
       /\ chan[op.chan] # <<>>
       /\ chan' = [chan EXCEPT ![op.chan] = Tail(@)]

\* p performs op on its socket
Transfer(p, op) ==
    \/ /\ op.dir = "send"
       /\ Len(chan[op.chan]) < Cap
       /\ chan' = [chan EXCEPT ![op.chan] = Append(@, pc[p])]
    \/ /\ op.dir = "recv"
       /\ chan[op.chan] # <<>>
       /\ chan' = [chan EXCEPT ![op.chan] = Tail(@)]

PoolStep(p, k) ==
    /\ Up(p) /\ k \in Running(p)
    /\ Transfer(p, Head(queue[p][k]))
    /\ queue' = [queue EXCEPT ![p] = Rest(@, k)]
    /\ UNCHANGED <<pc, direct, checking, down>>

MainStep(p) ==
    /\ Up(p) /\ direct[p] # <<>>
    /\ Transfer(p, Head(direct[p]))
    /\ direct' = [direct EXCEPT ![p] = Tail(@)]
    /\ UNCHANGED <<pc, queue, checking, down>>

\* the operations p's threads are at
Current(p) ==
    {Head(queue[p][k]) : k \in Running(p)}
    \cup (IF direct[p] = <<>> THEN {} ELSE {Head(direct[p])})

\* the other end of an operation's socket
Other(p, op) == IF op.dir = "send" THEN op.chan[4] ELSE op.chan[3]

Ended(p) == {p} \cup down

(* The process is killed, or SSL_read or SSL_write fails on a connection whose
   other end has gone: error() ends the process.                           *)
Crash(p) ==
    /\ Up(p) /\ pc[p] <= Last /\ <<p, pc[p]>> \in Kill
    /\ down' = Ended(p)
    /\ UNCHANGED <<pc, queue, direct, checking, chan>>

\* Mutant: recv_data_internal tries a failed SSL_read again.
BrokenRetries(p) ==
    /\ Up(p)
    /\ \E op \in Current(p) :
          /\ Other(p, op) \in down
          /\ op.dir = "recv" => chan[op.chan] = <<>>
          /\ down' = IF op.dir = "send" THEN Ended(p) ELSE down
    /\ UNCHANGED <<pc, queue, direct, checking, chan>>

Broken(p) ==
    /\ Up(p)
    /\ \E op \in Current(p) :
          /\ Other(p, op) \in down
          /\ op.dir = "recv" => chan[op.chan] = <<>>
    /\ down' = Ended(p)
    /\ UNCHANGED <<pc, queue, direct, checking, chan>>

Work(p) ==
    \/ NextStep(p)
    \/ \E k \in DOMAIN queue[p] : PoolStep(p, k)
    \/ MainStep(p)
    \/ Broken(p)

Finished == \A p \in Party : ~Up(p) \/ pc[p] > Last
Done == Finished /\ UNCHANGED vars

Next ==
    \/ \E p \in Party : Work(p) \/ Crash(p)
    \/ Done

\* the operating system runs every runnable thread
Spec == Init /\ [][Next]_vars /\ \A p \in Party : WF_vars(Work(p))

-----------------------------------------------------------------------------
Operation == [dir : {"send", "recv"}, chan : Channel]

(* Every variable has its type, an unfinished task has an operation left, and
   no socket holds more than Cap messages in one direction.                *)
TypeOK ==
    /\ pc \in [Party -> 0..(Last + 1)]
    /\ \A p \in Party : \A k \in DOMAIN queue[p] :
          queue[p][k] # <<>> /\ \A i \in DOMAIN queue[p][k] : queue[p][k][i] \in Operation
    /\ \A p \in Party : \A i \in DOMAIN direct[p] : direct[p][i] \in Operation
    /\ checking \in [Party -> BOOLEAN]
    /\ \A c \in Channel : Len(chan[c]) <= Cap /\ \A i \in DOMAIN chan[c] : chan[c][i] \in 1..Last
    /\ DOMAIN chan = Channel
    /\ down \subseteq Party

(* Messages carry no type: a read takes whatever comes next on the socket.
   Whatever a thread is about to read was sent in the very step the reader
   is in, although sender and reader are joined step by step only through
   these messages and two NetIOMPs are used in turn.                       *)
MessagesMatch ==
    \A p \in Party \ down : \A op \in Current(p) :
        (op.dir = "recv" /\ chan[op.chan] # <<>>) => Head(chan[op.chan]) = pc[p]

\* the SSL object an operation of p uses
Ssl(p, op) == <<op.chan[1], op.chan[2], Other(p, op)>>

(* An SSL object is not safe for use by two threads: no two threads of a
   process, pool or main, are ever in a read or write of the same one.     *)
OneThreadPerSocket ==
    \A p \in Party :
        /\ \A j, k \in Running(p) :
              Ssl(p, Head(queue[p][j])) = Ssl(p, Head(queue[p][k])) => j = k
        /\ direct[p] # <<>> =>
              \A k \in Running(p) : Ssl(p, Head(queue[p][k])) # Ssl(p, Head(direct[p]))

(* When a step ends, everything its tasks sent or read is accounted for: a
   party that has finished leaves no unread message behind, so the next run
   over the same connections (the loop over blocks in aes_ctr) starts clean. *)
CleanEnd ==
    (\A p \in Party : pc[p] > Last) => \A c \in Channel : chan[c] = <<>>

(* Four threads are enough for three parties: no cycle of full sockets and
   pool threads waiting in reads, the pool thread inside ABitMP::check
   included, stops a run in which nobody is killed.                        *)
AllFinish == <>(down # {} \/ \A p \in Party : pc[p] > Last)

(* If a process is killed no other party waits for it for ever.            *)
AllEnd == <>Finished

\* the parties p receives from in step k
Sources(step) ==
    {op.chan[3] : op \in {o \in UNION {Range(t) : t \in Range(step.tasks)} : o.dir = "recv"}}
SourcesOf == [p \in Party |-> [k \in 1..Last |-> Sources(Program[p][k])]]
Hears(p, k) == IF k \in 1..Last THEN SourcesOf[p][k] ELSE {}

L == INSTANCE Lockstep WITH at <- pc, gone <- down

(* The rounds implement Lockstep: nobody leaves a step before everyone it
   hears from there has entered it; in sampleRandom and in the X exchange of
   FpreMP::compute nobody opens before all have committed.                 *)
RoundsImplementLockstep == L!LockSpec
=============================================================================
