# CryptObj in TLA+

CryptObj replaces the transport and the encryptor of PySyncObj, a Raft library,
by versions that authenticate the members with signed handshakes and encrypt
Raft's messages, either with hybrid cryptography or with TLS 1.3 carried inside
PySyncObj's own messages.  A small certificate authority issues the members'
certificates.  This directory models the parts of it that keep state, checks
them with TLC on small instances, and proves their main invariants with TLAPS
for every value of the constants.

The modules are translations of the source.  `PROJECT.json` gives, for every
definition, the lines it stands for.

## The system

| Component | State | Operations | Interacts with |
| --- | --- | --- | --- |
| `TCPTransport` (`src/src/transport.py`) | `_connections`, `_unknownConnections`, `_peerSigningKeys`, the callbacks and the encryptor of each connection, `_ready` | constructor, `_onTick` (bind, dial), accept, the two handshake handlers, verified messages, `send`, `_onDisconnected`, `destroy` | PySyncObj's `SyncObj` (told which peers are connected, asks to send), `TcpConnection`, the encryptors, `DigitalSignature`, certificate files |
| Hybrid encryptor (`src/src/encryptor.py`) | private key, `public_keys`, `enabled` | constructor, `_load_certificates`, `encrypt_at_time`, `decrypt` | certificate files that enrolment and the handshake handlers write |
| TLS sessions (`src/Cryptography/TLS`) | `handshake_complete`, `_pending_plaintext_out`, the two memory buffers, the flush callback | constructor, `encrypt_at_time`, `decrypt`, `_flush_if_pending`, `TLS_Manager.session_for` | the transport, which ships what they return and registers `conn.send(b'')` as flush callback; the latency monitor |
| Enrolment (`src/cryptobj.py` 155-238, `src/CA/request.py`) | key, CSR and certificate files, fetching threads | generate keys, submit CSR with retries, fetch peers' certificates in parallel, generate signing keys, check | the CA over HTTP; the files decide what later starts do |
| Certificate authority (`src/CA/Server/ca_server.py`, `src/CA/certificate_authority.py`) | root key per worker, `issued_certificates`, `certificate.pem` | `sign_csr`, `get_certificate`, `get_root_certificate` | enrolment clients of all nodes, concurrently |
| Message envelope (`transport.py` 98-159, `src/Cryptography/PKI/digital_signature.py`) | loaded signing key, `_peerSigningKeys` | `_wrap_and_sign`, `_unwrap_and_verify`, `vote_tag`, sign, validate | the transport's stored peer keys |
| Raft application (`src/cryptobj.py` 76-153, 240-361; `src/Scalability Evaluation/scale_cryptobj.py`) | counter, last leader, measurements | commit loop with timeout and callback, bootstrap rounds, signal handlers | `SyncObj` |
| Latency monitors, deployment and evaluation scripts, log filters | CSV files | | |

`SyncObj`, `TcpConnection`, `TcpServer` and the poller belong to PySyncObj and
are not part of the repository.  `TcpConnection` is modelled, as an external
component, from how `transport.py` uses it.

What is hard here is what no unit test of a single function reaches:

* every handler of a node runs in one thread, but the two ends of a connection
  change over to the encryptor at different moments, while `SyncObj` may send;
* a node reconnects or restarts while its older connections and messages are
  still being handled by its peer, and may come back with another key;
* a handler can fail half way: `send` may run `_onDisconnected` of the very
  connection that is being set up;
* the TLS handshake travels only when messages do, and the queue of early
  messages is filled and emptied from nested calls;
* certificates reach a node from the CA, from handshakes and from its disk, and
  are reloaded only when their number has grown;
* enrolment crosses crashes of the node and of the CA, repeated submissions and
  files written in two steps, and later starts judge by which files exist: a
  set-up that was interrupted is not repeated, and the node comes up without a
  certificate, a signing key, or its public part, for as long as it is not
  deployed anew;
* the CA makes its root key when its module is loaded, once or in each worker,
  while nodes keep the root they fetched first;
* `SyncObj` reports elections from its own thread to a file that the main thread
  replaces, and is destroyed and made anew in each bootstrap round;
* a message is found behind a separator that it may contain itself.

A component is correct if: the registry of connections accounts for every open
socket; a peer is reported to `SyncObj` only after a finished handshake, and
with a key it published if it was set up completely; what is encrypted can be
decrypted; two nodes left in peace settle on one connection; a TLS handshake
ends, and loses no more than what was sent before it ended; a packet opens at its
receiver unless its slot is for an earlier deployment; keys, certificates and signing keys on a disk fit each other
whatever crashed; a client goes on trusting the peers it trusted; a signed
message arrives whole; and measurements are about what they say and survive.

`PROJECT.json` lists, under `hazards`, the places in the code where one of these
can go wrong and the properties that would show it.

## The modules

### Transport, PeerDirectory

`Transport` is the connection layer.  A socket between two nodes is an identity
with two ends, records `[own, peer, id]`; an end stands for a `TcpConnection`
object while it uses that socket.

| Model | Code |
| --- | --- |
| `conn[n][m]` | `_connections` of `n` at `m`: none, an object that is DISCONNECTED (`Idle`), or an end |
| `unknown[n]`, `peerKey[n][m]` | `_unknownConnections`, `_peerSigningKeys` |
| `up[n]` | the peers `SyncObj` was told of by `_onNodeConnected` and `_onNodeDisconnected` |
| `phase[e]` | the connection's state, and which callback its next message goes to |
| `enc[e]`, `inbox[e]` | `conn.encryptor is not None`; the messages on their way to `e` |
| `Connect`, `Refused`, `Established`, `Accept` | `_connectIfNecessarySingle`, a failing attempt, `_onOutgoingConnected`, `_onNewIncomingConnection` |
| `AcceptHandshake`, `AnswerFails`, `RejectHandshake` | `_onIncomingMessageReceived`: success, answer cannot be written, signature rejected |
| `HandshakeResponse`, `ReceiveVerified` | `_onOutgoingHandshakeResponse`, `_onVerifiedMessageReceived` |
| `Undecodable` | a message written under the other regime disconnects the connection |
| `Send` | `send`, at any time the connection is CONNECTED |
| `PeerClosed`, `Timeout`, `Disconnected` | the reasons for, and the body of, `_onDisconnected`, with its immediate redial |
| `Stop`, `Start` | `destroy` or a crash; a start with the key on the disk or with a new one |

A signing key is the number of the deployment that made it.  `disk[n][k]` says what
the `k`-th deployment of `n` leaves on its disk, in one of four grades, and `Start`
goes on with the present deployment or makes the next, which may be of another grade:

| Grade | On the disk | Its handshake |
| --- | --- | --- |
| `valid` | everything | brings a key, which replaces the one stored |
| `unverifiable` | no whole `signing_public_key.pem` | rejected by both sides |
| `unsigned` | empty `signing_private_key.pem`, no public key | rejected by the accepting side; taken by the dialling side without a check or a key |
| `blank` | empty own certificate (`request.py:50`; `cryptobj.py:236` tests only that the file exists) | taken by both sides without a check or a key (`transport.py:361`, `501`) |

A key stored before stays where a handshake brings none.  These are the disks that
`Enrollment` can leave with `pc = "running"`.  The certificates that come with the
handshakes, handled in the same two handlers, are left to `Encryptor`.  `Crypto`
distinguishes `--no-crypto` from the two encrypted modes.  In TLS mode the handlers
also construct a session, which `Transport` takes to succeed; what happens when it
does not is part of `Trust`.  Addresses are numbers, ordered as the code orders
address strings.

`PeerDirectory` is what the transport promises, without connections: a node is
told of a peer only together with a signing key that the peer published (unless a
deployment of it was `blank`, or `unsigned` on the side that dials), replaces a key
only by one that verifies, and forgets everything when its process ends.
`Transport!ImplementsDirectory` is the refinement, by the identity on the five shared
variables.

### TlsSession, Channel

The two TLS sessions at the ends of one connection.  The TLS engine is external:
the model has its flights (`ClientHello`, `ServerFlight`, `Finished`, `Tickets`)
and says which answers which.  `Send` is `encrypt_at_time`, with the queue of
early plaintexts; `Decrypt` is the whole of `decrypt`, including the flush that
sends `b''` through `encrypt_at_time` in the middle of it; `Passed` is what the
receiver makes of several plaintexts written at once: `zlib.decompress` stops
at the end of the first stream, and the dummy is too short to be a message.
The messages of a side are numbered.  `Channel` is what one direction of a
connection promises to Raft: messages are passed on in the order they were sent,
never twice, and perhaps not at all.  `TlsSession` implements it once for each
direction (`ImplementsChannel`).

### Encryptor

Who can read a packet of the hybrid encryptor.  A certificate is the generation
of the PKI key it was issued for; `file` is what is on each disk, `public` what
the encryptor has loaded.  Deployments have the grades of `Transport`.  `Answer` and
`Finish` are the two handshake handlers: `Admits` is their check, and `Take` what they
do with a handshake that is taken, which is nothing unless it brings certificate,
signature and key; then `Learn` saves the certificate and calls
`_load_certificates`, which takes the files over only if there are more of them than
before.  `CrashSaving` is a crash between truncating and writing that file, and the
start that follows.  Connections are those of `Transport` seen from far: they go down
at both ends at once, but a handshake of a broken connection may be left in a buffer
and be handled late.

### Enrollment, Membership

The startup of a node, its client of the CA, and the CA.  `pc` follows the
startup step by step; a file whose existence is tested later is truncated in one
step and written in the next, and a crash may come in between.  `CaSign` and
`CaStore` are the two halves of `sign_csr`: any number of requests is handled
concurrently, and `get_certificate` may read in between.  What enrolment can
leave on a disk is what `Transport`, `Encryptor`, `Envelope` and `Trust` start from
(the grades above; `Fetched` in `Encryptor`).  `EnrolledIsListed` names the one way in
which a node that holds its certificate becomes one that no peer can fetch: the CA
stops between truncating and writing the file, on a repeated or belated CSR.  The
truncation of a peer's certificate on the node's own disk is part of `Encryptor`, not
of this module.

`Membership` is what enrolment promises to the rest: members whose keys and
certificates, those of peers included, appear one at a time and whole, are never
replaced before Raft starts, and go together with their host.
`Enrollment!ImplementsMembership` is the refinement; it reads a file as its content, a
missing or truncated one as none.

### Trust

Whom a TLS client believes.  A root certificate is the run of the CA that made it
and a number; `published` is the CA's `certificate.pem`, which all workers share,
`trusted` the copy each node fetched, `issuer` who signed a node's certificate.
With `preload` (`gunicorn --preload`, as `scale_peering.py` starts it) the module
is loaded once per run; without (`botnet.py`), `Load` and `Loaded` run in every
worker and in every replacement of one (`Recycle`).  The startup of a node is that
of `Enrollment`, reduced to what exists on its disk afterwards, signing keys included
(`signs`).  `Handshake` is both handlers up to the completion of a `TlsSession`: the
check (`Admits`), the answer, which may not arrive, and the constructor of the session
on each side.  The constructor raises if the server's own certificate or the client's
root is unusable; nothing catches that, and the thread of that node ends (`"dead"`),
with all its connections.

### Envelope

`_wrap_and_sign`, `_unwrap_and_verify`, `sign` and `validate` on bytes of which
only `|` matters: identity, separator, pickle.  One message is repeated until it
has arrived, while the connection breaks, the receiver restarts, and the sender is
deployed with another key, without one (`Load_Private_Key` returns `None`), without
the public one or with an empty certificate (`SetUp`).  `Checked` and `Holds` are the
test of the handshake on the receiver's side, which dials or accepts; only a checked
handshake replaces the key.  `Behind` is `payload.find`.

### Elections, CommitLoop, Bootstrap

`Elections` is what both modes of the program share: `onStateChanged` in the
thread of `SyncObj`, its list and its file, and `save_file` of the main thread.

`CommitLoop` extends it with the measurement that `cryptobj.py` runs on top of Raft.  `main` follows the main
thread through the loop and the two `save_file` calls; `Commit` and `Callback`
are what `SyncObj` makes of a command, in any order, late, wrongly reported as
failed, or never; `Candidate`, `Follower` and `Win` are `onStateChanged` in
`SyncObj`'s thread, which has its own file and goes on while the main thread
saves.  `Exit` is the end of the process, at any point: only the files remain
for the next start.

`Bootstrap` extends it with the rounds of `--bootstrap`: a `SyncObj` per round, the
wait for a leader with its limit, `destroy_synchronous` (`Destroyed`, which waits
for `ThreadEnds`), and the transport's `_maybeBind` (`Bind`), which has to bind the
same port in each round from the thread of that round's `SyncObj`.

## The runs

| Run | Instance | Shows |
| --- | --- | --- |
| `transport_safety` | 2 nodes, 3 sockets, 2 deployments each in five combinations of grades, 2 messages per direction | the two ends of a socket never wait for each other; every open socket is tracked; reported peers are authenticated, and nothing passes unverified, but from a peer whose handshakes are not checked; sealed messages are readable; nodes that use the same connection admit each other and hold each other's present key; a peer is withdrawn only with its connection; `PeerDirectory` is implemented |
| `transport_liveness` | 2 nodes, 2 sockets, 2 deployments each, of which an interrupted one is repaired and a good one goes bad, disturbances for ever | no connection waits for a handshake for ever; once nothing is disturbed any more, each pair that admits each other settles on one connection, for good |
| `transport_plaintext` | 2 nodes, 2 sockets, encryption configured | finding 1 |
| `tls_session` | 5 messages from each side | `Channel` is implemented in each direction; only messages queued during the handshake are lost; none is stranded in a queue; from the first message on something is under way until both sides are complete; one message suffices for the whole handshake; the dummies die out |
| `tls_flights` | 3 messages | finding 2 |
| `encryptor` | 3 nodes, one of them deployed anew, in two combinations of grades, any certificates at the start, crashes while one is saved, at most 2 recipients | packets have a slot for a receiver with a certificate; one that does not open has too many recipients or an outdated slot although the new certificate is on disk; encryption stays on but for a crash at the threshold; a node in touch with enough others encrypts; in the end everyone who is brought enough certificates does |
| `enrollment` | 2 nodes, one of which crashes and is deployed anew | keys match whatever crashed; no half-written certificate is fetched; who holds a certificate can be fetched from the CA, but for one named crash of it; `Membership` is implemented; who was not interrupted between key and certificate starts |
| `enrollment_fetch` | 2 nodes | finding 3 |
| `trust` | 3 nodes, one of which is disturbed, 2 workers, 2 roots, with and without `--preload` | the inductive invariant; nodes of one run of a preloaded CA accept each other; what is trusted stays trusted until a new deployment; a pair that nothing keeps apart is secured in the end |
| `envelope` | every message of up to 4 bytes, 2 deployments of the sender, either side dialling | a signed message arrives whole whatever it contains; every message arrives, unless the handshakes are rejected for ever, or no handshake replaces an old key, or the sender signs nothing and the receiver has a key or the message a separator |
| `commit_loop` | 2 starts with 2 commands and 2 elections each | samples are about their own command; only failed commands have none; a crash in the loop costs no more than the sample being appended; reported elections are kept; `--duration` ends the run |
| `bootstrap` | 2 starts with 3 rounds and 3 elections each | one `SyncObj` at a time, also for the port and the file; the elections of all rounds are saved; the mode ends |

Each property of a passing run has a mutant in `PROJECT.json`, a plausible bug
in one definition, under which the property fails.

### Bounds

* Handlers of `Transport` involve one pair of nodes and never a third, so two
  nodes show all interleavings of a pair.  Three sockets between them suffice
  for a live connection, a superseded one and one being dialled, on both sides.
  Two deployments distinguish a present from an old key, and a good one from a
  bad one before or after it; the combinations (`MCTransport!Interrupted`) have each
  grade on the accepting and on the dialling side and each order of good and bad.
  Two messages in a buffer are a handshake with a Raft message behind it or before it.
* With two commands in `CommitLoop` one can be answered late while the next is
  measured; with two elections one can be won before, and one while, the main
  thread saves; a second start finds the files of the first.
* Two sockets in the liveness runs allow for one superseded connection at a time.
* With five messages per side in `TlsSession`, each side can send before, during
  and after its handshake, more than once in at least two of these phases.
* Three nodes of `Encryptor` are a sender, a receiver and a third whose
  certificate decides whether encryption is on.  The run scales the limits:
  encryption from two certificates (code: 3), at most two recipients (code: 100),
  so that the switch is met and the limit is exceeded with three nodes.  The two
  combinations (`MCEncryptor!Interrupted`) have a node that signs nothing beside one
  that gets a new key, and one left without a certificate beside one whose
  signatures nobody can check; one message and one late handshake at a time.
* `Enrollment` allows a node three keys: a PKI key and a signing key, and one
  new deployment.  Only one node crashes, since nodes meet only at the CA, which
  itself may stop at any time.
* `Trust` concerns one client and one server, and a third node that one of them has
  sessions with, as client or as server: a thread that ends in a session with it is
  missed by all.  The middle one (`Frail`) is disturbed, since it is client of one
  and server of the other.  Two workers can differ, and two roots are those of two
  runs, or of two workers of one; no worker is recycled after the last root.
* Four bytes hold a separator at the front, in the middle and at the end of a
  message, two of them, and `|||`, which contains it twice; the proof of
  `SignedArrives` covers messages of any length.
* Three rounds of `Bootstrap` are a first, a middle and a last one; a round can
  fail to bind, or be skipped, and the next succeed.

### Fairness

`Transport!Fairness`: the poll loop serves every readable socket and every
established or failed connection; `_onTick` redials; `connectionTimeout` ends a
connection on which nothing can arrive any more; a stopped node is started
again.  Nothing makes `SyncObj` send.  `Converges` assumes that disturbances
come to an end: crashes, failures of the network, and messages sent before the
peer's handshake has arrived, which reset the connection (finding 1).
`TlsSession!Fairness`: the handlers create the sessions and the poll loop reads.
`Encryptor!Fairness`: connections are made and their handshakes handled.
`Enrollment!Fairness`: a startup goes on (an attempt whose request was lost fails, a
fetching thread runs out of attempts, a node that is down is started again), and the
CA, which is started again, serves requests and stores certificates as long as there
are any, whichever first.
`Trust!Fairness`: a startup goes on, and two nodes whose threads are alive keep trying
(a handshake that is rejected changes nothing, and one that meets an unusable file
ends a thread); the CA need not be up.  `Envelope` repeats the message, as Raft does,
and connects again, with a handshake that brings the sender's key if it has one to
bring.  The liveness of these three and of `Transport` is
about behaviours in which disturbances (crashes, losses, new deployments) come to
an end; a step that only rejects a message is not one of them.
`CommitLoop!Fairness` is only that the main thread goes on; `StopsWhenDue` assumes
a leader from some time on, without which the loop waits.  Nothing makes a
callback come: the timeout must do.
`Bootstrap!Fairness`: both threads go on, and that of `SyncObj` sees the request to
destroy itself between two ticks (`SF`, since callbacks come in between).  Neither
a leader nor the port is promised.

## Findings

1. `transport_plaintext`: `send` asks only whether a connection is CONNECTED.
   Between that and the peer's handshake a Raft message leaves in plaintext,
   although `README.md:57` reserves plaintext for `--no-crypto`; the peer cannot
   parse it and resets the connection.
2. `tls_flights`: the flush callback is said to push handshake flights out
   immediately (`tls_session.py:83-85`), but the first flight is written before
   the callback exists and waits for a Raft message.
3. `enrollment_fetch`: `All certificates fetched` is reported when the threads
   have been joined, whether or not they fetched anything.

## The proofs

TLAPS checks them for all values of the constants, from the named assumptions
in the modules.  Every invariant and action property of the passing runs, and each
refinement, is a theorem, and so is each type invariant, by itself or within an
inductive one; what is left to TLC alone is liveness.

`TransportProofs` proves `EveryEndTracked`, `NotifiedIsAuthenticated`,
`NothingPassesUnverified` and `GreetingFirst` as invariants of `Spec`, and that
`Spec` implements `PeerDirectory`.  None of them is inductive: whether a
peer's key is stored depends on the handshake having been the first message,
which depends on which phases the two ends can be in together, which depends on
the sockets a node forgets when it stops.  `IndInv` adds that: `Lifecycle`
relates the phases, encryptors and buffers of both ends of a socket,
`WellPlaced` says that `_connections` files a socket under its own peer,
`StoppedHoldsNothing` that a stopped node holds none, and `KeysArePublished`
that every key in flight was published by its sender, which the refinement
needs.  There is one lemma per action and, for the actions that close sockets,
one for `_onDisconnected`, which they share.

Its second part proves `SealedIsReadable` on top of that.  `SealInv` adds
that sealed messages exist only with `Crypto`, and that the accepting end of a
socket is verified (or gone) before the dialling end has heard anything
(`HeardFromVerified`).  Its lemmas reason about one buffer (`Readables`): what
reading its first message and appending one do to it.  `NoStandoff` follows from
`IndInv` and `SealInv` together: it is what `HandshakeEnds` rests on, the part of it
that is safety.  `MutualLinkVerifies` needs
`LinkInv`: what an open end has sent carries its node's present key, because a key
changes only while its node is down and all its sockets are closed; a finished
connection was let in with what its peer has on its disk now; and with both ends open
the key stored last came over the registered connection.
`WithdrawnWithItsConnection` follows from `IndInv`, one action at a time.

`TlsSessionProofs` proves `NothingStranded`, `OnlyQueuedAreLost`, the
refinement of `Channel` and `NeverStalls`.  `Order` says that what was passed on, the
message each frame on its way leads with, and the one the queue leads with are
numbered upwards; `Arrives` that each message sent after the handshake was passed on
or leads a frame.  Nothing else reaches the receiver, since decompression stops at
the end of the first stream.  `NeverStalls` is the safety part of
`HandshakeCompletes`; `Progress` lists the six situations the two sessions can be in,
from no session to both complete, with the one flight that is under way in each, or
held back (only the first can be, and only until the client sends or reads anything).

`EncryptorProofs` proves `CertificatesInUse`, `SlotForReceiver`, `FailsOnlyIfStale`,
`EncryptionStaysOn` and `ConnectedEncrypts`, for any deployments and any limits.
`SlotForReceiver` needs `CurrentOnDisk`: the certificate on the disk of an end that has
the encryptor attached is its peer's present one, if the peer's handshakes bring one;
`CertificatesInUse` then says that it is loaded.  How the number of certificates grows,
which decides whether encryption is on, is a lemma (`CountGrows`).  `FailsOnlyIfStale`
needs `Genuine`: no certificate anywhere is newer than its owner's key.
`EncryptionStaysOn` is a step property: only a death while a certificate is being saved
takes one from a node that is not deployed anew (`KnownStays`), and to lose one turns
encryption off only if there were just enough (`StillEnabled`).  `ConnectedEncrypts`, the
safety part of `EveryoneEncrypts`, counts the peers of `CurrentOnDisk` and the node
itself (`OwnKnown`).

`EnrollmentProofs` proves `KeysMatch`, `PeersAreWhole` and `EnrolledIsListed`, and that
`Enrollment` implements `Membership`.  `DiskMatchesStep` says what each step of the
startup finds on the disk, and `KeysAreMade` that no key is in use before it was made.
The refinement needs both: a step that writes a file is a step of `Membership` only
because the file was empty before, and what the CA, a late answer or a doubled request
puts on a disk is a key its owner has made.  Truncating a file, submitting, retrying,
all that the CA does, and a crash before Raft runs are stutters.  That no certificate
of a peer is replaced rests on a start that enrols having none (also `DiskMatchesStep`).
`EnrolledIsListed` is an action property: an answer is given with the file written,
and only `CaStop` takes away a listing.

`TrustProofs` proves `IndInv`, `SameRunTrusts` and `TrustLasts`.  `OneRootPerRun` says
that with `--preload` every root in circulation is numbered like its run, and
`DiskMatchesStep` that a start which fetches a root finds none, so that it replaces
none, and that a thread which has ended had no usable file for a session it is a side
of.

`EnvelopeProofs` proves `SignedArrives` for messages of any length: neither identity
nor tag contains `|`, so the first separator of a signed body is the one behind the
identity.

`CommitLoopProofs` proves `SamplesAreTrue`, `SamplesComplete`, `SamplesSurvive` and
`ElectionsSurvive`.  `Sampled` adds that commands not yet submitted have no outcome
(`Fresh`), that an outcome of success is that of a committed command (`Honest`), and
that recorded numbers are below the present one (`Numbered`).  `Complete` adds that the
row being appended is the sample of the present command.  `Written` follows the last
rows of the file (`OnDisk`): what the loop records leaves them alone until
`append_last` makes them one more.  `ElectionsSurvive` is inductive together with the
types.

`BootstrapProofs` proves `OneInstance` and `AllRoundsSaved`.  `ThreadGone` says that a
thread which has ended holds no port and is in no callback, and that it has ended
between two rounds and, without an interrupt, after the last; so the list that
`save_file` reads is complete (`SnapshotComplete`), and nothing is appended to the file
while it is replaced.

Only model-checked is liveness (`Converges`, `HandshakeEnds`, `HandshakeCompletes`,
`Settles`, `EveryoneEncrypts`, `Starts`, `Secured`, `Arrives`, `StopsWhenDue`,
`BootstrapEnds`): it rests on fairness, whose `ENABLED` is out of the prover's reach.

## Not modelled

* The contents of certificates, the ciphers and the signature schemes: the
  properties distinguish only who can open or verify what.  `vote_tag` adds a
  constant to the identity, which the receiver strips unread.
* `Revoke_Certificate`, `waitReady`, utility messages and read-only nodes: nothing in
  the program calls or configures them.  `addNode` and `dropNode` occur only in the
  constructor and in `destroy`.
* Key generation beyond the files it leaves (`Enrollment`), and the latency monitors'
  times and autosave: sequential wrappers of libraries.  (`decrypt` starts the monitor
  that the nested `encrypt_at_time` starts again, so that its time is measured from
  there; durations are not part of the model.)
* The scripts that build network emulations and filter logs.
* `Transport` and `Encryptor` are not composed: `Encryptor` sees connections go down at
  both ends at once, and covers what differs by handshakes that arrive late.
