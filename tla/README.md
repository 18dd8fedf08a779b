# A TLA+ model of the core of strongSwan's IKE daemon

This directory holds TLA+ modules that model the core of charon, the IKE daemon
of this repository, together with TLC configurations and machine-checked
proofs. The repository is strongSwan 6.0.1 with post-quantum key exchanges and
an extension of its own: the selective retransmission of IKE fragments, driven
by FRAGMENT_ACK notifies. The model starts with the IKEv2 task manager, which
the extension changes, and goes on with what the task manager stands on (the
IKE_SA manager, the scheduler and the processor), what guards it (limits on
half-open IKE_SAs, cookies), what runs on top of it (rekeying and deletion of
CHILD_SAs), and smaller parts in which threads or edge cases make testing hard
(traps, address pools, the userland IPsec stack).

Paths below are relative to the repository root, which is `src/`.

## 1. Inventory

| component | state | operations | hard parts |
|---|---|---|---|
| task manager (`src/libcharon/sa/ikev2/task_manager_v2.c`) | two message-ID windows with stored packets, hashes and reassemblies; task queues; retransmit counter; fragment tracker; referenced job | `initiate`, `retransmit`, `process_message`, `process_request`, `process_response`, `build_response`, `handle_fragment`, `process_fragment_ack`, `reset`, `destroy` | loss, duplication and reordering of packets; jobs that outlive their request; both peers initiating |
| reassembly (`src/libcharon/encoding/message.c`) | fragments of one message | `add_fragment_v2` | duplicates, restarts with another fragment size |
| jobs (`src/libcharon/processing/jobs`) | message ID, IKE_SA identifier | `retransmit_job`, `delete_ike_sa_job`, `process_message_job` | never removed from the scheduler |
| IKE_SA (`src/libcharon/sa/ike_sa.c`) | state, CHILD_SAs, keys | dispatch of messages, `retransmit`, `reset` | retry of the whole negotiation |
| tasks (`src/libcharon/sa/ikev2/tasks`) | one exchange or several | `build`, `process`, `collide` | collisions of rekeyings and deletions; when keys are derived |
| IKE_SA manager (`src/libcharon/sa/ike_sa_manager.c`) | hash tables of entries, checked-out flags, waiting threads; hashes of initial messages; counts of half-open IKE_SAs; configurations being checked out | `checkout*`, `checkin*`, `check_uniqueness`, `flush` | threads, lost wakeups, deadlock, entries destroyed while waited for |
| scheduler, processor (`src/libstrongswan/processing`) | event heap; job queues by priority, worker threads | `schedule_job*`, `queue_job`, `execute_job`, `set_threads`, `cancel` | starvation, lost wakeups, cancellation |
| receiver (`src/libcharon/network/receiver.c`) | cookie secrets, times at which thresholds were reached | `receive_packets` | secrets that are switched, counts that others change, unsigned times |
| CHILD_SAs, traps, shunts | life cycle of IPsec SAs and policies | install, rekey, delete, acquire | rekey and delete crossing; the kernel called without a lock |
| address pools (`src/libcharon/attributes/mem_pool.c`) | online and offline leases in arrays | acquire, release | reuse of leases, IKE_SAs that share one |
| userland IPsec (`src/libipsec`) | SAs, replay windows, sequence numbers | checkout, delete, expire, verify, commit | threads that share one condition variable; window edges, wrap-around |
| IKEv1, plugins, credentials, vici | | | not part of the protocol core |

The components interact as follows. The receiver drops an initial message or
asks for a cookie if too many IKE_SAs are half open, and turns any other packet
into a `process_message` job. The processor executes it, which checks the
IKE_SA out of the manager exclusively, hands the message to its task manager and
checks the IKE_SA in again, or destroys it. The task manager sends packets and
schedules retransmit jobs; the scheduler, itself a job of the processor, passes
them on when they are due, and they check out the IKE_SA in the same way. Traps
make threads check out an IKE_SA by its configuration and initiate a CHILD_SA,
which the rekeying tasks of both peers replace from time to time.

What makes the task manager correct: a request is executed at most once and in
order, however often packets are repeated; it completes only with the response
to it; a lost response can be obtained again by sending the request again; every
request ends, with a response or with the IKE_SA; and the bookkeeping of
fragments and acknowledgments never loses a fragment that did not arrive. What
makes the parts with threads correct: what is waited for or referred to is not
freed, counters agree with what they count, no thread sleeps while what it waits
for is there, and every wait ends. `PROJECT.json` lists the hazards at their
lines.

## 2. Modules

### The message layer

* **Fragments** — pure operators: reassembly (`Accepts`, `Kept`, `AddFragment`,
  `Completes`), the content of a FRAGMENT_ACK (`FragmentAck`, with the guess of
  `ReassembledAck` once the reassembly is gone), and the tracker of the last
  fragmented message sent (`NewTracker`, `UpdateAckStatus`, `MissingPackets`).
* **TaskManager** — two peers with one IKE_SA. One action per handler:
  `Initiate`, `RetransmitJob`, `HalfOpenTimeout`, and `ProcessMessage`, whose
  disjuncts are the ways a message is handled: `ResendResponse`, `UnexpectedId`,
  `Dropped`, `CollectFragment`, `ProcessRequest`, `CloseOnRequest`,
  `ProcessResponse`, `InitiateNext` (a response and the request that follows it
  in the same call) and `CloseOnResponse`. `HeapAbort` is the undefined
  behaviour after the invalid free of a tracker.
* **ReliableExchange** — what the task manager promises to the tasks: requests
  are issued, executed and completed one at a time, each once and in order.
  `PromiseKept` in TaskManager is the refinement.
* **ChildRekey** — the tasks `child_rekey` and `child_delete` of both peers, on
  top of ReliableExchange: each peer has one request outstanding, and requests
  of the two cross.

How the state of TaskManager corresponds to the code:

| variable | code |
|---|---|
| `initiating`, `responding` | the structures of the same name; `packets` as sets, `hash` and `prev_hash` as sets of at most one packet (SHA-1 taken as injective), `defrag` as a record |
| `tracker` | `outgoing_tracker`, `total = 0` for NULL |
| `peer_supports` | `peer_supports_selective_retransmission` |
| `job`, `jobs` | `current_retransmit_job # NULL`; the retransmit jobs in the scheduler, a bag of message IDs |
| `keys`, `ke_pending` | derivations by the `ike_init` task; the responder derives in `parse_message` of the next message, the initiator in `initiate` |
| `corrupt` | an argument was passed to `free()` that `malloc()` had not returned |
| `net` | every packet ever sent |
| `seen`, `handled`, `completed` | history variables, read by no action |

Decisions worth knowing:

* A packet in `net` may be delivered any number of times, at any time: the set
  models loss, duplication and reordering at once.
* Responses overwrite `responding.hash` too, as `handle_fragment` does with
  every message; `prev_hash` is copied from it after a request was answered.
* The checks for a FRAGMENT_ACK before `parse_message` look into an encrypted
  message and never find one, so the message-ID check comes first; after parsing
  the notify is found and applied even if the message ID is wrong.
* The responder seals the acknowledgments of fragments in the keys it has at
  that time. A message sealed with keys the receiver has not, or no longer, is
  dropped.
* `destroy()` calls the method `cancel` of the referenced job, which is NULL for
  a retransmit job: the process ends, state `ABORTED`. An invalid `free()` may
  end it at once, later or never: `corrupt` and `HeapAbort`.
* `Rekeyed` starts with an IKE_SA that was created by rekeying: established, with
  both windows at 0 and without a notify about selective retransmission.
* What tasks make of a message is success or an ending: "close" answers and
  ends the IKE_SA (a DELETE too), "reject" ends it without an answer.
* In ChildRekey a CHILD_SA has the same name at both peers, standing for its
  pair of SPIs. Which peer wins a collision is the order of the nonces, chosen
  in `Init`. Deletions are a user's or a lifetime's. Kinds of failures are
  separate constants, since some of them end in states the properties exclude
  (section 4); `Early` permits operations on a CHILD_SA the other peer is not
  done with.

### Threads around IKE_SAs

* **SaOwnership** — abstract: an SA has at most one user at a time and none
  once it is destroyed. Both managers below implement it (`ExclusiveUse`).
* **IkeSaManager** — entries of `ike_sa_manager.c` in segments with their locks:
  checkout, checkin, `checkin_and_destroy`, rekeying (which adds an entry),
  enumeration, `check_uniqueness`, and `flush` by the main thread. A step is what
  a thread does from locking a segment to unlocking it or waiting.
* **HalfOpen** — initial messages at a responder, from the receiver's limits over
  the job that processes them to checkin or destruction: the hashes of initial
  messages, the counts of half-open IKE_SAs by address, and the timeout that
  destroys what stays half open.
* **ConfigCheckout** — `checkout_by_config`: one thread per configuration looks
  for an IKE_SA or creates one, others wait at one condition variable.
* **Cookies** — secrets, validity and the calm-down delay of the receiver. Times
  are unsigned modulo `Modulus`, as in the code.
* **TrapManager** — traps are installed, replaced and uninstalled by several
  threads, with the lock released while the kernel is called; acquires; flush.
  The operations of each thread are a parameter.
* **MemPool** — leases of a pool in arrays, with the free elements an array keeps
  at its head and tail, since an element is inserted there by its own address.

### Dispatching

* **Processor** — worker threads, queues by priority, reserved threads, jobs that
  end, are queued again, scheduled, or block; `cancel`, `set_threads`,
  `execute_job`.
* **Scheduler** — the event heap with its sift operations, and `schedule`.
* **Dispatch** — both together: the scheduler is a job of critical priority that
  takes a worker of its own, and `cancel` has to wake it. Taking an event off
  the heap and queueing its job is one step, as nobody else sees the job between.

### Userland IPsec

* **IpsecSaMgr** — SAs used, queried, updated, expired, removed and flushed by
  several threads under one mutex with one condition variable per entry.
* **EspContext** — sequence numbers of a sender and the receiver's window.

### How they fit together

TaskManager takes a handler as one step: `ExclusiveUse` of IkeSaManager is what
justifies it. It takes a scheduled job to be executed in the end: `JobFires` of
Dispatch is that. HalfOpen and ConfigCheckout take from IkeSaManager that a
thread waiting for an entry is woken. Cookies takes the counts of HalfOpen as
inputs, any value at any time. ChildRekey takes `PromiseKept` of TaskManager.
EspContext takes `ExclusiveUse` of IpsecSaMgr; `MCUserland` explores the two one
at a time, as neither reads the other's state.

The remaining modules, **MC...**, are instances for TLC, and the theorems are in
**TaskManagerProofs**, **ChildRekeyProofs**, **IkeSaManagerProofs**,
**ReceiverProofs** (HalfOpen and Cookies), **ConfigCheckoutProofs**,
**TrapManagerProofs**, **MemPoolProofs** and **UserlandProofs** (IpsecSaMgr and
EspContext).

## 3. Runs

| run | module | what holds |
|---|---|---|
| `initial_selective` | MCTaskManager | initial exchanges with one additional key exchange, in three and two fragments, selective retransmission on both sides: `TypeOK`; `TrackerCount`; `ReassemblySound` (a reassembly is open until complete, and what is processed was reassembled); `AckedWasReceived`; `EstablishedAgreement` on state and keys; `ReassembledIsProcessed` |
| `established_plain` | MCTaskManager | a rekeyed IKE_SA, two requests per peer that may be fragmented, rejected or end it, selective off, under fairness: `WindowSync`; `OutstandingSound` (the outstanding request was sent, is what is sent again, and has a job that does); `AnswerRetained`; `GiveUpWaitsForAnswer`; `PromiseKept` (refinement of ReliableExchange); `Resolved` (every exchange ends) |
| `acked_but_unanswered` | MCTaskManager | **violated**: all fragments acknowledged and the response lost, the exchange never ends (`Resolved`) |
| `sa_manager` | MCIkeSaManager | three threads of graded abilities, a flush, two IKE_SAs: `EntriesSound` (types, nothing freed is waited for or used, the count is exact, no waiter is forgotten); `WaitingEnds` (destruction and flush end); `ExclusiveUse` (refinement of SaOwnership) |
| `halfopen` | MCHalfOpen | two initial messages, retransmits, timeouts, limits, an address that changes: `BooksExact` (counts and hashes at every step); `HalfOpenLimited`; `HalfOpenEnds` |
| `cookies` | MCCookies | two addresses in one bucket, two switches of the secret: `CookieValidity`; `RequiredUntilCalm` |
| `config_checkout` | ConfigCheckout | four threads, two configurations: `CheckoutSound` (one IKE_SA per configuration, what is waited for is kept); `CheckoutEnds` |
| `dispatch` | MCDispatch | three workers, two reserved, four jobs with the scheduler as one: `JobsSound` (threads and jobs accounted for, one owner each, the heap is one and complete); `NobodyOversleeps`; `ReservedThreads`; `FiresInOrder`; `JobFires`; `CancelCompletes` (returns, and leaves nothing behind) |
| `rekey` | MCChildRekey | both peers rekey twice, two deletions, one failure: `NothingDangles` (tasks and links refer to CHILD_SAs that exist, a stored collision was taken over); `Converged` (at rest both peers have the same SAs, at most one in use); `Seamless` (traffic always has an SA at both ends) |
| `traps` | MCTrapManager | three threads, two traps: `EntriesSound` (nothing freed in use, nothing leaked); `OnlyOnce` (routed and acquired, and who is to end a pending acquire exists); `WaitersGoOn` (one waiter is woken in any case, a single one returns) |
| `pool_leases` | MCMemPool | three IKE_SAs, two of one peer, two pools of one and two addresses: `LeasesSound` (online is held, one keeper); `FailsWhenFull` |
| `userland` | MCUserland | `WindowSound` (accepted exactly if new and in the window); `ManagerSound` (nothing freed in use, waiters counted and not forgotten); `ExclusiveUse`; `RemovalEnds` |

Each invariant whose name ends in Sound, Exact or the like is a conjunction of
named parts, which the modules state and explain one by one.

**Bounds.** `Tries` is 1: a request is sent twice before it is given up, which
reaches every comparison with the limit. Messages have at most two or three
fragments: the shortest in which some but not all are acknowledged, and out of
order. One additional key exchange gives three consecutive initial exchanges
with three sets of keys. `MaxRequests` bounds the message IDs a peer uses of its
own accord; two are needed for a stale packet to meet a later window. `AckBits`
is 64 as in the code. For the managers three threads are the least in which one
uses an SA, one destroys it, and one waits; two SAs, so that enumeration and
flush go on to another. In ConfigCheckout four threads are needed: a signal is
misdirected if one works and one waits for each of two configurations. In
TrapManager one thread installs while two may wait. In Dispatch two of three workers are reserved, so that a
job that blocks takes the one left and the scheduler still runs; the heap of at
most three events is too small for its algorithm, so `HeapAssumption` in
MCDispatch checks insertion and removal on every heap of up to five events. Two
rekeyings per peer let a CHILD_SA made in a collision be rekeyed itself. The
window of EspContext has 4 places below a `Modulus` of 16, so that packets
overtake by more than a window and the numbers reach their end. Cookie times
are scaled down with `SecretSwitch >= Lifetime` kept as in the code. `MaxMoves`,
`MaxCalls`, `MaxJobs`, `MaxEntries`, `MaxTime`, `MaxDeletes` and `MaxFailures`
are bounds and named so in their modules.

Known disagreements (section 4) are kept out of passing runs by restrictions:
selective retransmission is off in `established_plain`; `QuietFlush` (flush meets
no thread that destroys or adds an IKE_SA); `Failures` excludes two kinds; `Early`
is empty; arrays are extended in place in `pool_leases`; the random offset of
`cookies` is at least `Lifetime` below the time at the start; and generation of a
secret is taken to succeed (`RngFails`). Others are exceptions that a property
makes itself: `HalfOpenLimited` allows for one IKE_SA more per change of an
address, `NoDangling` of TrapManager excepts external traps once the list is
flushed, and `WaitEnds` excepts a thread that does not wait alone and a flushed
list.

Two guards of `InitRekey` in ChildRekey are not in `build_i`. `Concluded`: a
CHILD_SA is rekeyed again only after the rekeying that made it was concluded, and
answered at the other peer; its lifetime just began. `~Collided`, lifted by
`Early`: it is not rekeyed while the other peer still has a rekeying of it as the
collision of its own.

**Fairness.** TaskManager requires that a scheduled retransmit job eventually
runs: the scheduler thread moves due events to the processor, as Dispatch shows,
and the IKE_SA is checked out for bounded work only. Nothing is assumed about
packets. In the modules with threads, a thread that can go on does (weak
fairness of its steps), as the operating system schedules it, but no thread is
made to begin an operation; and a thread that waits is woken only by a signal.
In IkeSaManager and IpsecSaMgr a thread that uses an SA checks it in. In
Dispatch time passes, and jobs that do not block return. In TrapManager nothing
is assumed of the IKE_SAs: whether an acquire ends is up to them, and it does not
where `task_manager_v2.c:605` leaves the initiator connecting forever
(`acked_but_unanswered`). `OnlyOnce` says that an IKE_SA or a thread that is to
end it exists.
Deadlock checking is off where a system may end (an IKE_SA, a canceled
processor, a flushed table) or reaches the end of its bounds.

## 4. Disagreements found

`acked_but_unanswered` is kept as a run, with its finding quoted in
`PROJECT.json`. The others are listed here with the property that TLC finds
violated and the change to the configuration of the run that shows it. Each
contradicts a comment or document of the repository.

| where | what happens | property, and what to change |
|---|---|---|
| `task_manager_v2.c:640` | a peer without the extension never acknowledges: the IKE_SA is destroyed though nothing is outstanding | `GiveUpWaitsForAnswer` with `Selective <- OnlyI` in `acked_but_unanswered` |
| `task_manager_v2.c:605` | a request is not sent, its message ID equals that of a tracked response | `IssuedWasSent` with `Both`, `Auth2`, `MaxRequests = 2`, `Additional = 0` |
| `task_manager_v2.c:735` | fragments of a response are sent in place of the request | `RetransmitsRequest` with `MaxRequests = 2` in `acked_but_unanswered` |
| `task_manager_v2.c:2698` | an acknowledgment uses up message ID 0 | `WindowSync` in `acked_but_unanswered` |
| `task_manager_v2.c:1283` | the response to an acknowledgment completes a request | `CompletedWasHandled` with `Selective <- Both` in `established_plain` |
| `task_manager_v2.c:2092` | a reassembled request on an established IKE_SA is discarded, selective or not | `ReassembledIsProcessed` in `established_plain` |
| `task_manager_v2.c:3370` | ending an IKE_SA with a request outstanding calls a method that is NULL | `NoAbort` in `established_plain` |
| `ike_sa_manager.c:2487` | an entry added in front of the one `flush` waits for is cut off | `FlushEnds` with `QuietFlush = FALSE` in `sa_manager` |
| `ike_sa_manager.c:2060` | an entry is freed while `flush` waits at it | `NoDangling` with `QuietFlush = FALSE` |
| `ike_sa_manager.c:2482` | `flush` holds other segments while it waits for an IKE_SA whose user needs one | `FlushEnds` with `Row <- TwoRows`, `QuietFlush = FALSE` |
| `ike_sa_manager.c:1381` | two initial messages each take the last place below the limit on IKE_SAs | `SaLimit` in `halfopen` |
| `ike_sa_manager.c:1959` | a half-open IKE_SA is counted for a new address whose limit is reached | `HalfOpenLimited` without `+ moves` |
| `receiver.c:238` | if the random offset is close to the time since boot, valid cookies count as expired | `CookieValidity` with `Lifetime`, `SecretSwitch` and `MaxOffset` 2 in `cookies` |
| `receiver.c:381` | while cookies are required of all, a threshold reached for one address is not recorded | by reading: what `reached` in Cookies does not record |
| `mem_pool.c:303` | a lease is inserted by its own address into an array that shifts or moves first: an address in use goes offline, or is kept for two identities | `OneKeeper` with `InPlace = 1` in `pool_leases`; `OfflineIsUnheld` with `SharedId`, `SharedPeer`, `OnePool`, `MaxUnused = 32`, `InPlace` 3 or 8 in `pool_leases` |
| `ipsec_sa_mgr.c:612` | `query_sa` reports success though the SA is being removed | `QueryCompletes` of IpsecSaMgr in `userland` |
| `child_rekey.c:794` | an SA that was deleted and kept for a rekeying that is then refused stays forever | `Converged` with `Early = {"delete"}` in `rekey` |
| `child_rekey.c:1116` | the peer rekeys its SA again before the response to the own rekeying | `Converged` with `Early = {"rekey"}` |
| `child_rekey.c:216` | after a failure of its own the winner leaves a link to a freed SA | `LinksLive` with failure `"local_winner"` |
| `child_rekey.c:1146` | a passive task that created nothing is stored and not taken over | `CollisionAdopted` with failure `"passive"` |
| `trap_manager.c:378` | of two threads that wait for an installation only one is woken | `WaitEnds` without the exception for other waiting threads |
| `trap_manager.c:390` | `uninstall` after `flush` waits forever | `WaitEnds` without `installing = Disabled` |
| `trap_manager.c:436` | `flush` frees an external trap while it is installed | `NoDangling` without `installing = Disabled` |

## 5. Proofs

Every theorem holds for all values of the constants that satisfy the named
assumptions of its module. They say no more than the code guarantees: finite sets
of threads, SAs and the like, a name for "none" outside of each, natural numbers
for sizes and limits. TLC evaluates them in the runs.

### The message layer

`TaskManagerProofs` proves, selective retransmission included,

* `TypeCorrect`: `Spec => []TypeOK`. In particular `retransmitted` never exceeds
  `Tries + 1`.
* `TrackerCountCorrect`: `Spec => []TrackerCount`. `UpdateType` is the heart: the
  newly set marks are disjoint from the old ones, so cardinalities add.
* `ReassemblySoundCorrect`: `Spec => []ReassemblySound`.
* `EstablishedAgreementCorrect`: `Spec => []EstablishedAgreement`.
* `AckedWasReceivedCorrect`: `Spec => []AckedWasReceived`, and
  `ReassembledIsProcessedCorrect`: `Spec => ReassembledIsProcessed`, both under
  `InitialFragments`.

The first two are inductive together; the proof has one lemma per action
(`InitiateType`, `RetransmitJobType`, ...), and lemmas about the operators
(`RetransmitType`, `StartExchangeType`, `AckedTrackerType`). The others need an
invariant of their own each:

* `FragmentsInv`: a peer takes a message ID for one request and for one response,
  so all packets with it have the same number of fragments (`MessagesInv`); what a
  reassembly has collected was seen, belongs to one message, and at least one
  fragment is missing (`CollectsInv`); whatever was processed had been seen whole
  (`ProcessedInv`).
* `PhaseInv`: the message ID determines the exchange, IKE_SA_INIT, then one
  IKE_INTERMEDIATE per additional key exchange, then IKE_AUTH (`Phase`); the keys
  of both peers follow it (`InitiatorInPhase`, `ResponderInPhase`), though the
  responder derives the keys of an exchange only with the next message; and an
  IKE_AUTH response exists only when the responder is through (`InPhase`). That
  acknowledgments take message ID 0 of a peer does not disturb this.
* `AcksInv`: fragmented requests are the initiator's and fragmented responses the
  responder's (`Directed`), an acknowledgment in flight reports fragments its sender
  has seen (`AckSound`), and a tracker is of one fragmented message whose marked
  fragments the other peer has seen (`MarksTrue`).

`InitialFragments` says that only IKE_INTERMEDIATE and IKE_AUTH are fragmented and
that message IDs fit the 16 bits of the notify. Neither theorem holds without it:
a FRAGMENT_ACK names a message ID and neither the exchange nor the direction, so a
late acknowledgment of the IKE_AUTH request could mark fragments of a long
CREATE_CHILD_SA response of the same ID; and `handle_fragment` discards a
fragmented request on an established IKE_SA (section 4).

The second half of `TaskManagerProofs` assumes `Quiet`: no peer has selective retransmission enabled,
or no message is fragmented, which the code satisfies with the extension
disabled and also without large messages. Under it

* `WindowSyncCorrect`: `Spec => []WindowSync`;
* `CompletedWasHandledCorrect`: `Spec => []CompletedWasHandled`, which
  `PromiseKept` implies in the runs;
* `PromiseCorrect`: `Spec => PromiseKept`, the refinement of ReliableExchange;
* `OutstandingSoundCorrect`: `Spec => []OutstandingSound`;
* `AnswerRetainedCorrect`: `Spec => []AnswerRetained`;
* `GiveUpWaitsForAnswerCorrect`: `Spec => GiveUpWaitsForAnswer`.

None of these is inductive. `ExchangeInv` adds what relates the peers: every
packet in flight or stored belongs to a request that was issued or to a response
that was executed (`Sound`), and in each direction
completed <= executed <= issued <= completed + 1. With it a response that matches
the request window can only answer the outstanding request, and a request that
matches the response window is the next one. Each action is shown to move the
three counters as `Advance` allows, and `Preserved` derives the invariant from
that once for all actions. `Quiet` cannot be dropped: the acknowledgments that
take message ID 0 or complete a request (section 4) are counterexamples.

The last three rest on `AnswersInv`, which adds what is stored for the next
arrival: the packets of the outstanding request are all the requests of that ID
there are, and a job has it (`RequestSound`); who answered it has the answer
stored, and the hash of the first packet of that very request (`AnswerSound`); the
responder of the initial exchanges, while it collects fragments, has the hash of
the first of them (`CollectSound`).

The assumptions on the constants are two distinct peers, natural numbers for
counts, at least one fragment per message, IKE_SA_INIT and INFORMATIONAL messages
in one piece (the first is not encrypted, the second is short).

### Rekeying and deleting CHILD_SAs

`ChildRekeyProofs` proves `NothingDanglesCorrect`, `Spec => []NothingDangles`, for
any number of rekeyings, deletes and failures, with or without a delay before a
rekeyed CHILD_SA is destroyed. `RekeyInv` says the same of each peer (`SideOf`), in
terms of what it has and what the other one has:

* `Local`: the flags of a rekeying say in which state the CHILD_SAs are that it
  refers to (`RekeySound`), what is being deleted is so by the active task
  (`DeleteSound`), and a link is one of a rekeyed CHILD_SA and its replacement,
  which refer to each other (`LinksSound`);
* `Exchange`: a request is on its way or its response is, and of the kind the task
  sends and waits for;
* `Fresh`: the name of a new CHILD_SA is used by nobody else, and the peer has it
  only once it answered; what a DELETE on its way lists is gone at its sender;
* `LinkCause`: a link stays only until the peer that made the new CHILD_SA has
  deleted one of the two, and that delete is on its way or still to come;
* `Collides`: what a peer that adopted the rekeying of the other one knows of it,
  in particular that the other one deletes the CHILD_SA it made only if it lost.

The last three relate the peers, and without them the first is not inductive: a
delete that arrives during a collision destroys a CHILD_SA unless the active task
noted it, and that the rest of the task copes with it follows from what the peer
that sent the delete has done. A step of a peer changes what it has and at most the
request it answers, so each action is shown to lead from `Both`, the invariant with
the parts of the state as parameters, to `Both`; a step that ends a rekeying needs
only `Settles`. For `RespondDelete` the folds over the one or two SPIs of a request
are unrolled (`ProcessFold`, `DestroyFold`), and `Clearing` is the invariant of the
loop that destroys them.

It assumes that `Early` is empty and that the failures `"passive"` and
`"local_winner"` do not happen, as the run does. None of it can be dropped: TLC
finds `NothingDangles` violated with each failure (section 4), and if a CHILD_SA
may be rekeyed or deleted before its collision is settled.

### Threads around IKE_SAs

* `IkeSaManagerProofs`: `ExclusiveUseCorrect`, `Spec => ExclusiveUse`: the IKE_SA
  manager implements SaOwnership. It needs no restriction: flush may meet any
  thread (`QuietFlush` may be FALSE). The inductive invariant `OwnInv` says that
  who holds a listed IKE_SA is the `checked_out` of its entry and holds it alone
  (`HeldAt`), that a row of the table has entries of its segment only, each once
  (`RowSound`), that a thread waits at an entry, and that one that destroys an
  IKE_SA holds it (`CallAt`). Each action is shown to take, return or destroy one
  IKE_SA, or none, and to change nobody's else (`TakeOwned`, `NothingOwned` and
  their like), which is a step of SaOwnership.
* `IkeSaManagerProofs`: `EntriesSoundCorrect`, `Spec => []EntriesSound` under
  `QuietFlush`, which section 4 shows to be needed. `EntriesInv` adds to `OwnInv`
  that `waiting_threads` is the number of threads that wait at an entry
  (`EntrySound`), where a thread in a call may be and which mutex it has there
  (`CallSound`, `CallOfFlusher`), and that once flush marked the entries nobody
  else adds or destroys one (`FlushSound`). An entry is removed under its mutex
  with no waiting thread and, by these, with nobody at it (`NobodyElse`,
  `NobodyLeft`). That a sleeping thread is signalled is a part of the invariant:
  somebody `Minds` the entry, and who leaves it wakes the next one. One thread
  moves at one entry, so `StepKeeps` derives the rest from what the step does there
  (`Frame`).
* `ReceiverProofs`: `BooksExactCorrect` and `HalfOpenLimitedCorrect`. What is
  counted is spread over the queue, the threads and the table; `BooksInv` states
  the counts as sums of three cardinalities (`Counts`), what a thread at each point
  of its job owes, holds and uses (`ThreadsSound`), who is responsible for a stored
  hash (`OneHolds`, `EntriesKnown`, `HashesKnown`), and that the limits hold with
  the IKE_SAs that are about to be counted for a new address (`LimitsKept`). One
  thread moves at a time, so a step changes one member of each set and the sums
  are compared term by term.
* `ReceiverProofs`: `CookieValidityCorrect` and `RequiredUntilCalmCorrect`, about
  Cookies. `SecretsInv` says which secret a cookie made at some time has: the
  current one if it was made since that one's first use, else the old one, unless a
  whole `SecretSwitch` lies between and the cookie is too old anyway (`CookieSound`).
  It needs `CookiesHypothesis`: new secrets are available (`~RngFails`), as otherwise
  a switch that half failed leaves cookies of a secret that is gone; and the time the
  receiver was created at exceeds the random offset by a `Lifetime`, as otherwise the
  age of a cookie wraps around. `CalmInv` relates the times the receiver stores, one
  per bucket, to the last time the threshold was reached for an address
  (`ThresholdsSound`): addresses that share a bucket keep cookies required longer,
  never shorter.
* `ConfigCheckoutProofs`: `CheckoutSoundCorrect`. `CheckoutInv` adds that a
  configuration counts the threads that refer to it, that one of them works, and
  that what its search has passed is not what it looks for (`Searched`): why
  creating an IKE_SA at the end makes no second one, though the table was not
  locked meanwhile.
* `TrapManagerProofs`: `EntriesSoundCorrect` and `OnlyOnceCorrect`, for threads
  with any operations. `TrapInv` adds whom an entry belongs to while the lock is
  released: the sets `Held` of two threads are disjoint (`Exclusive`), and every
  allocated entry is listed, freed, or taken by the thread that will free it
  (`Accounted`). That a pending acquire has someone to end it is inductive by
  itself (`SomeoneEnds`).

### Address pools

`MemPoolProofs` proves, for any number of IKE_SAs, identities, peers and pools,

* `FailsWhenFullCorrect`: `Spec /\ []NoneMoved => FailsWhenFull`;
* `OneKeeperCorrect`: `Spec /\ []NoneMoved => [](TypeOK /\ OneKeeper)`;
* `LeasesSoundCorrect`: `Spec => []LeasesSound` under `CopiesHarmless`.

An online lease is reassigned by its own address. The first two hold as long as none
is read where an array was before `realloc()` moved it (`NoneMoved`): what is copied
is then a lease of the same array, the right one or the next. `OneKeeper` needs that:
freed memory may hold a lease of another identity, and TLC finds `OneKeeper` violated
with `InPlace = 1` in `pool_leases`. `KeptInv` is the books of one pool, `PoolSound`: an offset is online for one
identity at most (`OnOnce`), not offline then (`OnNotOff`), offline once (`OffOnce`),
and in one of the lists exactly if it was handed out (`HandedOut`). Each operation is
shown once, on the lists, to keep them (`OutcomesSound`, `ReleaseSound`). For
`FailsWhenFull` it adds that the pools asked for a new lease had none left and still
have none (`Exhausted`): that the last pool had no offline lease either then means
that all are online.

`LeasesSound` also counts: as many leases of an address are online as IKE_SAs have
it. `HeldInv` adds that who has an address has one of a pool that is loaded and still
to be asked (`HoldsSound`), so a release always finds it. The copy must be the IKE_SA's
own lease (`GivenOwn`), which is what `CopiesHarmless` is for: an identity has at most
two IKE_SAs and arrays of two elements are extended in place, or its IKE_SAs have
peers of their own (`DistinctSound`), when none is reassigned. Then nothing is read
from a moved array either (`HeldCorrect`). Beyond it section 4 shows the code to go
wrong.

### Userland IPsec

* `UserlandProofs`: `ManagerSoundCorrect` and `ExclusiveUseCorrect`, the latter
  again a refinement of SaOwnership. `ManagerInv` adds that an SA in use is locked
  and one being removed is marked, each by one thread, and that the list has every
  SA that is not freed. That no thread is forgotten is a part of the invariant: a
  step that leaves an entry unlocked wakes one of those that wait for it, and the
  woken one passes it on.
* `UserlandProofs`: `WindowSoundCorrect`. `WindowInv` relates each bit of the
  window to the number it stands for, wherever the window is; it rests on lemmas
  about remainders (`ModDistinct`, `ModMod`), as the place of a bit is a number
  modulo the size of the window.

### Only model-checked

Liveness (`Resolved`, `WaitingEnds`, `HalfOpenEnds`, ...), as fairness and ENABLED
are out of the prover's reach; Scheduler and Dispatch, whose sift operations are
RECURSIVE, and with them Processor, whose actions Dispatch composes with the
scheduler's (and whose sums of threads are folds, of which the prover knows nothing
without induction); and `Converged` and `Seamless` of ChildRekey, which need an
invariant that follows the outbound SAs of both peers through a collision.

## 6. Not modelled

In the task manager: the order in which queued tasks are activated,
`adopt_tasks`, `reset` and further keying tries (a give-up ends the IKE_SA, as
with the default of one try), MOBIKE probing and deferred exchanges, message-ID
synchronisation for HA, EAP with several IKE_AUTH exchanges, errors of the parser
other than the wrong key, `pre_process` (used by `ike_init` for cookies and by
MID synchronisation), a second IKE_SA created by a late IKE_SA_INIT, the
statistics of the extension. `send_packets` is the network; its delays for
debugging have no effect on the order the model allows. In reassembly: the limits
of 255 fragments and on the size of a message. Durations are abstracted: a timeout
is a job that may run at any time.

In the other modules: rekeying of IKE_SAs (`ike_rekey.c`), key exchanges in
several messages, NO_ADDITIONAL_SAS and close actions in ChildRekey; the tables
of connected peers beyond what `check_uniqueness` waits for, and IKEv1, in the
IKE_SA manager; the limit on the job load, and an IKE_SA_INIT with a responder SPI,
in HalfOpen, which takes what the receiver reads of the counts and its counting of
the message as one step (`Receive`; apart, the bound is the same); the branch of the
processor's `restart` that respawns a thread, which needs a job that cancels its
own thread; wildcard traps, labels and shunts (a reqid is taken for the name of
the trap); address arithmetic of pools; allocation of SPIs, acquires, soft expiry
and policies of libipsec.

Left out as a whole: the watcher and the sender (I/O), IKEv1, parsing and
generation of payloads, credentials and certificates, cryptography, vici and
stroke, the kernel interfaces, and the plugins. They make up most of the
repository's half a million lines, and are sequential code over data formats,
operating systems or cryptography, whose correctness a state machine of small
instances says little about. The files `task_manager_v2 copy.c` and
`task_manager_v2_origin.c` are older versions that are not built.

## 7. Plan

1. *Done*: Fragments, TaskManager, ReliableExchange, their runs, type correctness,
   `TrackerCount` and the refinement without acknowledgments.
2. *Done*: the IKE_SA manager with SaOwnership, HalfOpen, ConfigCheckout and
   Cookies; the scheduler and the processor and their composition; collisions of
   CHILD_SA rekeyings and deletions; traps; address pools; userland IPsec.
3. *Done*: proofs for both SA managers, HalfOpen, Cookies, ConfigCheckout,
   TrapManager, MemPool and EspContext, of `NothingDangles` of ChildRekey, and of
   every safety property the runs check of TaskManager. Left: `Converged` and
   `Seamless`.
4. TaskQueue: queued, active and passive tasks, activation order, `reset`,
   `adopt_tasks`, delayed tasks; collisions of IKE_SA rekeyings; the watcher.
