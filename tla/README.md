# Polkadot-Dart in TLA+

TLA+ models of Polkadot-Dart, a Dart port of the polkadot-js client libraries:
what its stateful parts do, what TLC finds out about them on small instances,
and what TLAPS proves of them for every instance.  File and line references are
to `src/`.  The models follow the code; where the code and its own comments
disagree, a run shows it (see *Disagreements*).

## The system

| Component | State | Operations | Interacts with |
|---|---|---|---|
| WebSocket provider, `lib/rpc_provider/ws/index.dart` | endpoint index, delay of automatic reconnection, `_isConnected`, `_websocket`, request table `_handlers`, `_subscriptions`, `_waitingForId` | `connect`, `connectWithRetry`, `disconnect`, `send`, `subscribe`, `unsubscribe`, `on`, the socket's callbacks, `_resubscribe` | dart:io sockets and timers, the node, the coder, the emitter, user callbacks |
| JSON-RPC coder, `lib/rpc_provider/coder` | the last request id | `encodeJson`, `decodeResponse` | both providers |
| Event emitter, `ws/event_emitter.dart` | handlers per event, one-time handlers | `on`, `once`, `off`, `emit` | called by the provider, calls the user |
| HTTP provider, `lib/rpc_provider/http` | its coder | `send` | one POST per call |
| Key pair, `lib/keyring/pair.dart` | key in memory, stored encoding and its types, address, meta | `decodePkcs8`, `encodePkcs8`, `toJson`, `lock`, `derive`, `sign`, `verify`, `setMeta` | scrypt in another isolate, the crypto library |
| Keyring, `lib/keyring/keyring.dart`, `pairs.dart` | pairs by public key, ss58 format | `addFrom...`, `getPair`, `removePair`, `toJson` | pairs |
| Type registry, `lib/types/create/registry.dart`, `createClass.dart` | classes per name, definitions per name, unknown names, calls, errors and events of the metadata | `register`, `getConstructor`, `setMetadata`, `findMetaCall` | codecs, metadata |
| SCALE codecs, `lib/types/{codec,primitives,generic}`, `lib/utils/compact.dart` | values | decode and encode | registry |
| Extrinsics, `lib/types/extrinsic` | payload, signature, era | sign, encode, decode | codecs, key pair |
| Metadata, `lib/metadata` | versions converted so far | conversion to the latest version, decoration of calls, storage, constants | registry |
| Native library, `rust/src` | none | exports for phrases, hashes, keys and signatures, of which many panic on bad arguments | called through C strings |
| Native calls, `lib/crypto/common.dart`, `lib/bindings/ffi_base.dart` | the C strings of calls in progress, on one heap; worker isolates | a Dart function per export; `pbkdf2`, `scrypt` and `twox` spawn an isolate each | native library, everything cryptographic |
| Key derivation and signatures, `lib/util_crypto/{key,schnorrkel,nacl}.dart` | the key pairs that callers hold | derivation along a path, from a seed, a pair or a public key; sign, verify | native calls |
| Cryptographic helpers, the rest of `lib/util_crypto` and `lib/crypto` | none | base encodings, addresses, hashes, random numbers, secp256k1 | native calls, keyring |
| Declarations and tools: `lib/types/interfaces`, `types-known`, `scale_types`, `lib/networks`, `type_gen`, platform glue | none | | |

Dart runs one event handler at a time, so the interleavings are those of
callbacks, timers and the code between two `await`s: a method that awaits can
find everything changed when it resumes.  That is where the hard behaviour is.

* The provider awaits handshakes and closes, may hold a socket while another is
  still open or closing, and is called by the user at any of these points.
* The node answers in any order, notifies before it tells the id of the
  subscription, refuses requests, and goes away with answers undelivered.
* A reconnection starts every subscription again, under another id.
* A key pair awaits scrypt, and can be locked, decoded and encoded meanwhile.
* Worker isolates do run in parallel, and share the native heap with the main one;
  a panic in the library ends the whole process.
* Keys go through bytes between any two derivations, and are derived from either half.

What makes the parts correct: a provider always gets connected again until it is
told not to; a subscription is never doubled, crossed with another or silently
lost; a request is settled; a key is never lost and the pieces of state that
describe it agree; no native call gets the result of another; the halves of a key
belong together however they were derived, and what was signed verifies.

## Modules

| Module | Models | Extends |
|---|---|---|
| `WsConnection` | sockets, endpoints, retries and the user's connect and disconnect | |
| `WsConnectionProofs` | proofs about it | `WsConnection` |
| `WsProvider` | requests, subscriptions, notifications, resubscription and the node, over those connections | `WsConnection` |
| `SubscriptionLifecycle` | what one subscription promises its user; `WsProvider` implements it | |
| `WsProviderProofs` | proofs about it: its tables, its connection, its types | `WsProvider`, `WsConnectionProofs` |
| `WsPromiseProofs` | more of them: the subscription's promise, who is served, what is never forgotten | `WsProviderProofs` |
| `KeyringPair`, `KeyringPairProofs` | a key pair and its stored encoding, and proofs about it | |
| `TypeRegistry`, `TypeRegistryProofs` | what a type name means, and the classes kept for it, and proofs about them | |
| `ExtrinsicEra`, `ExtrinsicEraProofs` | the era of a transaction from its signer to its readers, and proofs about it | |
| `NativeLibrary` | what each export of the library answers, and on what it panics | |
| `NativeCalls`, `NativeCallsProofs` | how Dart calls those exports from several isolates, and proofs about it | `NativeLibrary` |
| `NativePromise` | what a caller may rely on; `NativeCalls` implements it | |
| `KeyDerivation` | what keys and signatures are to each other | |
| `KeyChain`, `KeyChainProofs` | accounts, watchers and signatures made with it, and proofs about them | `KeyDerivation` |
| `MC...` | model values and inputs for TLC | the module after `MC` |

`WsProvider` composes: its actions are those of `WsConnection` that leave the RPC
state alone (`ConnectionStep`), those that a socket callback joins with RPC work
(`SocketOpened` is `Opened` and `Resubscribe`, `SocketClosed` is `Close`), the
user's calls and the node's steps.

Operators whose names end in `Slip` are versions of the operator after them that a
plausible slip in the code would give (a missing modulo, a periodic timer for a
one-shot one, a key without the id...).  No specification uses them; each shows
that a property notices that slip.

### WsConnection

A socket object is `closed`, awaited by a `connect()` (`retrying` if
`connectWithRetry` called it, `calling` if the user did), `open`, or `closing`
(closed by this side, `onDone` still to run).  One that is closed and no longer
held stands for a new object, so a finite set of them suffices: the instances have at
least one more than the handshakes, sockets and held ones there can be.
`timers` counts the `Future.delayed` that have not fired, `closing` the
`disconnect()` calls that wait.  `autoConnect` is `_autoConnectMs > 0`.

`connect()` is two actions, before its `await` (`RetryTimer`, `Connect`) and after
it (`Opened`, `Failed`); so is `disconnect()` (`Disconnect`, `DisconnectDone`).
The handshake that the constructor starts is in `Init`.  `DisconnectDone` may come
before or after the socket's `onDone`, which dart:io does not order.  In debug
builds (`AssertsEnabled`) a `disconnect()` without a socket stops at its assert;
in others it switches `autoConnect` off and then throws.

### WsProvider

Dart maps are functions on the keys they hold.  A request is `[kind, id, sub,
sid]`: what it asks for and the subscription it is for stand for method, params
and callback.  `future[id]` is what the completer of `send()` number `id` says.
The node keeps, per connection, the requests it has (`inbox`) and the
subscriptions it serves (`serving`), and posts to `toClient`; it may notify before
it replies.  `PeerLeaves` answers a close or loses the connection with a suffix of
what was posted; `onDone` comes after what had arrived.  Adding to a socket that is
not open either throws or loses the data, at dart:io's choice (`AddThrows`).
A subscription id is fresh when `UniqueIds`, as nodes that draw ids at random give
them; otherwise it counts from 1 on each connection, as older nodes do.

`stage` and `heard` map the provider to `SubscriptionLifecycle`: a subscription is
idle, requested, active or ended, and its callback hears notifications of that
subscription only, while it is active, in the order the node sent them under one
id and with none left out from the first it hears while it is active (`Follows`; what
came ahead of the id is `Confirm`, which may hear the last only, as `NoneSkipped` finds
out).  Nothing but `unsubscribe()` ends an active subscription (`quit`), unless its type
is one of `author_…`: those end with their connection, the others (`Durable`) are
requested again.  `KeepsPromise` is that specification, checked as a property.

### KeyringPair

A call is a record of where it waits (`decoding`, `encoding`) and what it had read by
then; `lock()` may come at any time.  `_recode` takes the key it has decoded and reads it
for `encodePair` in one step (`Decoded`): an async function that was suspended resumes
its awaiter in the turn in which it completes.  Content is of 64-byte keys, with the
public half beside the secret, or of seeds, from which both halves are made anew
(`PublicOf`).  Encryption is ideal: an encoding opens with the passphrase
it was made with, read under the types it was made for, and with nothing else.
A missing passphrase is `NULL`.  The value of the last `await` in `_recode`'s `&&`
is null, which counts as false there and does not throw.

### TypeRegistry

A definition is an alias or derived; which of the derived kinds (`Vec`, tuple,
struct...) it is does not matter, only that its class keeps the names it is made of
and looks them up when it decodes, as `Vec.withParams` and the others do.  `Cached`
is the whole recursion `getConstructor`, `createClass`, `getTypeClass`,
`getConstructor`: it follows aliases to a class, a derived definition or an unknown
name and keeps the answer for every name it passed.  An alias that leads back to
itself would overflow the stack, so none is registered, nor standard (`Grounded`).  `direct` remembers which
classes were registered rather than made, and `Meaning` recomputes from those and
the definitions what a name should give: the cache is checked against that.

### ExtrinsicEra

The arithmetic of the source, with its clamps and its sixteen bits: the period as a
power of two, the phase in units of the quantum, the low byte first.  A behaviour is
one transaction, made by a signer here or read from others; then blocks go by.
`asked` and `made` remember what the signer wanted, to compare with what a reader
of the bytes takes the era to be at any later block.

### NativeLibrary and NativeCalls

A call is `[fn, texts, nums]`.  Of a C string the model keeps whether it is hex (with
an even or an odd number of digits) or other text, how many bytes it stands for, and
whether these pass the check that the crate behind the export makes: a checksum, a
point, a scalar.  `Export` says for each of the 28 exports on which of this it panics,
returns an error text, a verdict, or bytes of which length.

`NativeCalls` has a caller for the main isolate and one per worker.  A call goes
through `native` (the library works), `written` (its result is on the heap) and
`copied` (Dart has made a string of it), then its block is freed; the steps of other
isolates come in between.  A worker is spawned, greets, is asked, calls and replies,
and its caller receives the reply only between calls of its own.  A block that is
freed can be given to the next call at once.  A panic in an `extern "C"` function ends
the process (`stopped`).  A Rust `bool` is one byte and is read as a word that is
compared with 1; `Upper` is what the other bytes may hold.  `sr25519KeypairFromSeed`
does not free its result: its block is `Lost`, so an instance has more addresses than calls
that can lose one.  Arguments are never freed and overlap nothing, and are left out.

`NativePromise` is what remains of that for a caller: it asks, and is answered with a
result of what it asked for, or the process stops.  A worker's exception is a value
there too, since `common.dart:131-133` sends it as the result.

### KeyDerivation and KeyChain

The group and the hash functions are those of the Rust crates, and constants with
assumptions: points add up and multiply as their scalars do, hashes are functions.
Over them the exports are what the source makes of them, including what bytes do to a
scalar (multiplied by the cofactor and divided again), the nonce that a soft
derivation draws at random, and that what a soft derivation adds is hashed from the
public key alone.

An account of `KeyChain` is derived junction by junction (`Step`), from its seed or
from another account's pair; a watcher holds a public key and follows soft junctions
(`Follow`); a signature remembers the message and the key it was made for.
`schnorrkelSign` turns a message into a string, a character per byte, and signs its
UTF-8: `SignedBytes`.  Without asserts a soft junction of ed25519 is taken for a hard
one, as in the code.

## Runs

| Run | Checks | What it shows |
|---|---|---|
| `conn` | `TypeOK`, `RetryPending`, `CloseHandlerSafe`, `OneChainPerCall`, `FlagWhileAlone`, `Reconnects` | Four sockets, an endpoint of each kind, two connect() and two disconnect() calls anywhere: a reconnection is always on its way, the onDone handler never meets a null socket, handshakes, sockets and timers never outnumber the calls they descend from, and the rotation gets past a dead and an unreliable endpoint. |
| `provider_safety` | `ProviderTypeOK`, `TablesAgree`, `ActiveIsServed`, `KeepsPromise` | Two subscriptions of one type through two lost connections, answers and notifications in any order and refused requests: nothing is doubled, stuck or crossed, and the provider implements SubscriptionLifecycle. |
| `provider_overlap` | `TablesAgree`, `KeepsPromise` | A second connection opened beside the first, a disconnect() and requests on closing sockets, with asserts off: the tables stay consistent even then. |
| `provider_liveness` | `Settles`, `Restored` | While no connection is lost every request is settled, those the node refuses included; after one lost connection and retries over an endpoint that is down, a registered subscription is registered again for good unless its type is author_... or the user ended it. |
| `pair` | `TypeOK`, `Recoverable`, `RightPassphraseOpens`, `HalvesMatch`, `KeyKept` | Three overlapping calls that decode, unlock and re-encode a pair with two passphrases and with none, lock() at any time, and keys and seeds of others to decode: a stored key is never lost, its two halves belong together, and it opens with its passphrase unless _recode stored it without one. |
| `registry` | `TypeOK`, `OrderIndependent`, `OnlyAliasesGoStale` | Registrations of classes, aliases and derived types, alternating with uses of every name: what a name means does not depend on the order in which names are first used, and only an alias that was used can miss a later registration. |
| `era` | `TypeOK`, `MortalStaysMortal`, `SameStart`, `LivesAsAsked`, `NextEra`, `Canonical` | Eras made of twelve periods at 23 blocks, and eras of others with every exponent, read now and looked at at any later block: they keep their period, begin and end where the period asked for says, and two bytes mean one era only. |
| `native` | `TypeOK`, `BlocksKept`, `TryingIsSafe`, `KeepsPromise`, `EveryCallEnds` | Two calls, of any exports of the native library, with good arguments and with each argument spoilt, made by the main isolate or in workers that run beside it: what each call comes to, on what the process ends, and that no call gets the result of another. |
| `keychain` | `TypeOK`, `HalvesMatch`, `OneKeyPerPath`, `WatchersAgree`, `SignedVerifies`, `NothingElseVerifies` | Three accounts of any scheme, made from a seed in one go or derived from each other, with watchers of public keys and a signature: keys depend on the path alone, watchers find the owner's keys, and what verifies is what was signed. |

Bounds.  Two retry chains (the constructor's and one or two by the user) are
enough for every pair of sockets to overlap, and two `disconnect()` calls for one
to finish under the other; one unreliable endpoint beside one that is up and one
that is down gives the rotation each outcome.  Two subscriptions of one type are
what it takes to cross them, two lost connections to lose one while it is being
resubscribed, one early notification to need the queue, two to overflow it and for one
to follow another.  Three
calls on a pair are one that waits, one that overtakes it and one that reads what
both left.  In the registry, an alias of an alias of a class, as `Address` is, has a
middle to redefine; a fourth name is unknown until it is registered.  The era runs
take blocks and periods next to every power of two where the code changes its mind.
A native call needs another one at any of its steps to be mixed up with: two calls
(`MaxCalls`), one of them or both in workers, over three blocks, and no third that meets
what both left; every export is called with good
arguments, with each spoilt in every way (odd, plain, null, another length, failing
its check) and with numbers on both sides of its limits.  Keys live in the integers
modulo 251, large enough that the polynomials used as hashes keep apart what is hashed
here (`ToldApart`).  Three accounts are what it takes to have a path of two junctions in one
go and the same path derived from an account with the first of them; three watched keys
follow a path of two, and one signature is tried with every message and key.  `MaxLoad`
bounds all of these together, an account counting twice: three accounts and one watched
key or signature, two and three of those.
`CHECK_DEADLOCK FALSE` where an instance ends when its bounded inputs are used up
(the calls, the block numbers); a provider in manual mode rightly stops, too.

Fairness.  Timers fire and handshakes end (weak fairness on `RetryTimer` and on
`Opened \/ Failed`): Dart's event loop runs every timer and dart:io completes every
connection attempt.  A socket closed on this side is done in the end: dart:io stops
waiting for the peer after five seconds.  Messages that have arrived are handled.
In `provider_liveness` a node that is there works off its
requests; nothing makes it notify, a peer leave or a user call.  Isolates run until they
wait, and messages between them are delivered (`EveryCallEnds`), as long as the process
is alive.  No strong fairness is assumed: the unreliable endpoint may refuse every time, and it is the rotation
that gets past it.

## Disagreements

Each is a run in which TLC violates what the code says of itself.

| Run | Property | Code | What |
|---|---|---|---|
| `conn_manual_mode` | `ManualMode` | `lib/rpc_provider/ws/index.dart:181` | disconnect() sets _autoConnectMs to 0 but cancels no Future.delayed, and connectWithRetry does not look at it, so a pending retry connects after disconnect(); the comment says "switch off autoConnect, we are in manual mode now" (src/lib/rpc_provider/ws/index.dart:191). |
| `provider_early_notes` | `NoneSkipped` | `lib/rpc_provider/ws/index.dart:366` | _waitingForId holds one response per subscription, so a second notification ahead of the id replaces the first and the subscriber never gets it; the comment says "store the JSON, we could have out-of-order subid coming in" (src/lib/rpc_provider/ws/index.dart:365). |
| `native_documented` | `LengthsSuffice` | `rust/src/ed25519.rs:18` | ext_ed_sign joins the private and the public key and takes 64 bytes for both together, so ed25519_sign with keys of the documented lengths panics and ends the process; the comment says "private: UIntArray with 64 element" (src/rust/src/ed25519.rs:58). The same run stops in the derivations of sr25519 pairs, which take 96 bytes where the comments say "secret: UIntArray with 64 bytes" (src/rust/src/sr25519.rs:19, 37). |

Other disagreements that reading and TLC showed, without a run of their own:

* `isConnected` is documented as "Whether the node is connected or not"
  (`ws/index.dart:109-110`), but the `onDone` of any socket clears it (:295); with a
  `connect()` of the user beside an automatic one, it is false with a socket open.
  `FlagWhileAlone` is the part that holds.
* `_waitingForId` outlives its connection: with a node that numbers subscriptions
  per connection, a notification that is queued when the connection is lost is handed
  to the next subscription that gets its id.  `KeepsPromise` fails under
  `UniqueIds = FALSE` with notifications.
* `Restored` needs that no more than one connection is lost: `_resubscribe` empties
  its table before the new requests are answered, so a second loss forgets them.
* An alias that was used keeps the class of its old target when the target is
  registered again (`registry.dart:313-316` removes one name).  A test's title
  promises "re-registration of a type (affecting derives)"
  (`test/types/create/createTypes.dart:191`), and tries a struct, for which it holds;
  `OnlyAliasesGoStale` draws the line.
* `hasType` stays false for a type that was used before it was registered
  (`registry.dart:202`, 264).
* `encodePkcs8` of a locked pair with nothing stored encodes an empty key
  (`pair.dart:326`); `address` stays what the constructor computed when
  `decodePkcs8` brings another key (:314).
* `_recode(null)` stores plain PKCS8 and sets `_encTypes` to null (`pair.dart:331`),
  which `decodePair` reads as scrypt and xsalsa20-poly1305: no passphrase and no null
  passphrase opens it again.  `Recoverable` says exactly when an encoding opens.
* A `lock()` while `_decodePkcs8` awaits scrypt is undone when the decoded key is taken
  (`pair.dart:311-320`).  What `_recode` stores has a key nonetheless (`KeyKept`).
* `verifyDetect` expects exceptions of the functions it tries, but text that
  `isHexString` lets pass and that is no bytes in hex (`is.dart:53-56`), and for ed25519 a
  public key that is none, end the process: `TryingIsSafe` says that nothing else does,
  and that no phrase does.
* `phase / quantizeFactor * quantizeFactor` divides doubles (`ExtrinsicEra.dart:92`), so
  the phase of a new era with a period above 4096 is not a multiple of its quantum, and
  its `birth()` is not the one a reader of its bytes computes: `SameStart` says for
  which eras they are the same.
* An sr25519 signature of a message that is not ASCII does not verify with that message
  (`schnorrkel.dart:48`): `NothingElseVerifies`, `SignedVerifies`.
* `sr25519KeypairFromSeed` never frees its result, a secret key (`common.dart:371-377`):
  `BlocksKept` allows that one.
* Without asserts, `ExtrinsicEra` accepts bytes of period 2 and encodes them as
  period 4 (`ExtrinsicEra.dart:110`, 165): `Canonical` needs `Asserts`.

## Proofs

`WsConnectionProofs` proves for any sockets, endpoints and bounds:

* `TypeCorrect`: `Spec => []TypeOK`.
* `AlwaysRetryPending`: `RetryPending` is inductive with `TypeOK`.  A step that makes
  `isConnected` false (only `Close`) adds a timer; one that uses up a timer starts a
  handshake; one that ends a handshake of a retry connects or adds a timer.
* `CloseHandlerNeverFails`: `CloseHandlerSafe` alone is not inductive, since
  `DisconnectDone` clears `websocket` while sockets may be open.  `CloseInv` adds that
  a `disconnect()` that waits has switched `autoConnect` off (`ManualWhileClosing`),
  and nothing switches it on again.
* `NoReconnectStorm`: `OneChainPerCall` counts; each step moves a socket between
  `Attempting`, `Live` and neither, so the lemmas give the cardinality of a set that
  gains or loses one element.
* `FlagFollowsSocket`: `FlagWhileAlone` follows from an invariant that relates the
  flag, the held socket and the others while the user makes no `connect()`; that
  there is then only one chain is `NoReconnectStorm`.
* `ManualModeStartsNothing`: the run `conn_manual_mode` shows that a retry survives a
  `disconnect()`; this bounds what survives.  Once `autoConnect` is off, the retries that
  wait for their delay or their handshake (`Retries`) never grow in number.

The assumptions are those of `WsConnection` on its constants: `Sockets` is finite,
there is an endpoint, the flags are Booleans and the bounds naturals.

`WsProviderProofs` proves for any number of subscriptions and connections, whether or
not subscription ids are unique:

* `TablesAlwaysAgree`: `ProviderSpec => []TablesAgree`.  The invariant is that ids in use
  were drawn (`IdsFresh`), that a subscription is awaited or registered once at most, and
  not at all before the user asks for it (`OnePlace`, which gives `OneRegistration`), with
  `NothingStuck` and `Answerable` themselves.
* `ConnectionComposes`: `ProviderSpec => Spec`, so that all that `WsConnectionProofs` proves
  holds of the provider.
* `ProviderTypes`: `ProviderSpec => []ProviderTypeOK`.  Types alone are not inductive here.
  A reply whose id is missing (0) would put a key into `_subscriptions` that is none: so no
  message on its way that has none may answer a request for a subscription (`KnownReplies`,
  `KnownRequests`).  And the ids of a node that counts would leave their range: so it has
  started no more subscriptions on a connection than the requests it was sent leave room
  for, `served[s] + Cardinality(inbox[s]) <= nextId` (`NodeTyped`).

`WsPromiseProofs` proves the refinement, for nodes that give every subscription an id of
its own:

* `PromiseIsKept`: `ProviderSpec => KeepsPromise`, each step of the provider simulates a
  step of `SubscriptionLifecycle` or stutters.  The invariant speaks of `f`, a rigid
  function from ids of the node to the requests they were given to, under which every
  reply, notification, entry and queued response means one subscription (`Meant`) and
  one only (`Alone`); notifications are counted (`Counted`) and what is on the way under an
  id is in order and later than what was heard (`Ordered`, `Latest`); what is awaited is
  in one place (`Awaited`).  That an active subscription misses none is not about what is
  on the way but about what is not: `NoGap` says of every notification on its way, under
  an id that is not ended, that the one before it is in front of it, queued or heard last.
  Losing a connection cuts off the end of its queue, never the front, and its
  subscriptions with it; an id that is ended stays so (`EndedForGood`).
  That only the user ends a subscription is one case per step that takes an entry from
  `_subscriptions`: `unsubscribe()`, and an `_onSocketOpen` that renews every entry at once.
* `StaysServed`: `ActiveIsServed` for nodes with unique ids, while the user has made no
  `connect()` of his own (`connects = 0`, as in the run), since a second open socket would
  be held without being the one that serves.  The invariant adds that a connection that
  was left has no requests (`NothingLeftBehind`), that the id of a request to unsubscribe
  is registered nowhere (`UnsubscribedForGood`), and that a confirmation on its way is of
  a subscription the node serves (`ConfirmedAreServed`); that there is one socket is
  `OneChainPerCall`.
* `OnlyLossForgets` and `NoRequestForgotten`: the safety half of what `Settles` checks.  A
  pending request is on its way on one connection, as the request, as a subscription the
  node has yet to confirm, or as the reply; each step leaves it there unless it settles it
  or is the loss of that connection (`LostWithConnection`), and where none was lost and the
  user did not disconnect, the connection still reaches the node (`NothingForgotten`).  The
  fairness of the connection and the node is then all that `Settles` adds.  Unique ids are
  needed: TLC finds that where ids are counted per connection and the user's `connect()`
  opened a second one, an `unsubscribe()` with an id of the first ends a subscription
  of the second that was not confirmed yet, whose future stays pending for ever.

`NativeCallsProofs` proves for any isolates, heap and requests, from one inductive
invariant (types, `NothingLeft`, and per caller `CallInv`: what it holds at each step is the
answer to its own request):

* `NativeTypes`, `NothingMixedUp` (`BlocksKept`), `KeptPromise` (the refinement to
  `NativePromise`), `AlwaysSafeToTry` (`TryingIsSafe`), for which the process only
  stops on a request that is not refused and panics.

`KeyChainProofs` proves for any group and hashes that satisfy the assumptions of
`KeyDerivation`, and any paths:

* `SoftFollows`: deriving softly and taking the public key is the same as taking the
  public key and deriving it.  `HalvesAlwaysMatch`, `SignaturesVerify` and `KeyTypes` follow
  by induction over steps from what the cofactor and the group do.
* `AlwaysReached`: the pair of an account is the one its path leads to from its seed, with
  sr25519 up to the nonce, which no later key depends on (`Same`), and a watched key is the public half of
  such a pair.  `PairAt`, the pair at each point of a path, is a recursive function whose
  existence is proved first.  `WatchersAlwaysAgree` and `SamePathSameKey` follow.
* `OneKeyForEachPath`: `OneKeyPerPath`, which also says that different paths have different
  keys, under `PathsToldApart`: no two paths of at most `MaxPath` junctions that a scheme
  accepts lead from a seed to one public key.  That is what the hash functions have to give
  and no code can.  The instance of `keychain` satisfies it: the run makes two accounts of
  every two paths there and compares their keys.
* `OnlyWhatWasSigned`: in a group of prime order (`PrimeOrder`, as both curves have; TLC
  checks it of the instance) `NothingElseVerifies` holds in exactly the states in which
  the challenges tell the bytes signed from all others, the key is not 0, and no other
  account's key gets the signer's multiple from its own challenge (`ChallengesApart`).
  The hash function has to give that much.  The equivalence says that derivations,
  cofactor and UTF-8 add no other way, and through it the run shows that its instance is
  such a case.  The work is in going back from the equation of points to scalars
  (`VerifiesAsScalars`), and from equal multiples to equal challenges, which is Euclid's
  lemma (`NoProductIsOrder`).

`TypeRegistryProofs` proves for any finite set of names and any definitions:
`RegistryTypes`, `OrderNeverMatters` (`OrderIndependent`) and `NothingElseGoesStale`
(`OnlyAliasesGoStale`).  The registry as it is and the registry without what it kept walk
along the same aliases, the first stopping sooner.  The lemmas are about such walks:
one that has stopped stays where it is, one that starts on
the way of another ends where that ends, and one that knows fewer classes passes the end
of one that knows more.  The invariant then says of each kept class what it is:
`KeptAsMeant` until a type is registered late, `KeptRight` for names that are no aliases
always.  `Grounded`, that no alias leads back to itself, is assumed of the standard
definitions and kept by every registration.

`ExtrinsicEraProofs` proves for any blocks, periods and bytes: `EraTypes`, `TheSamePeriod`
(`MortalStaysMortal`), `TheSameStart`, `AliveAsLongAsAsked` (`LivesAsAsked`), `ErasFollow`
(`NextEra`) and, where asserts are checked, `AcceptedAsEncoded` (`Canonical`).  The
invariant is short (what a reader has is the decoding of the encoding of what the signer
made); the work is the arithmetic: the exponent in the low four bits and the quantized
phase above it come out of the two bytes as they went in, for each of the fifteen
periods, and `Birth` is the last block of its residue.

`KeyringPairProofs` proves for any keys, passphrases and calls: `PairTypes`,
`PairHalvesMatch`, `PairRecoverable`, `RightPassphraseAlwaysOpens` and `KeyAlwaysKept`.  The
invariant adds that a call that waits has read bytes and types that fit each other
(`Fits`), and halves that belong together, unless the bytes were handed in (`Matched`);
what is handed in is assumed to have matching halves where it is a key of 64 bytes
(`KeyringAssumption`), and whatever public half where it is a seed.  `KeyAlwaysKept` alone
assumes that no locked pair with nothing stored is encoded (`~EncodeLocked`), which stores
the encoding of an empty key.

The assumptions on the constants are named in each module, and TLC evaluates them in the
runs.

Properties of recursive functions over numbers (a walk, a path) are proved from the
well-foundedness of `<`: a set of naturals that has 0 and is closed under successors has
them all (`NatSetInduction`).

Only model-checked: the liveness properties (`Reconnects`, `Settles`, `Restored`,
`EveryCallEnds`), which the prover does not reach, and what a recursive conversion computes
for every input (`SignedBytes`).

## What the models leave out

* Callbacks and listeners that throw, `ALIASES`, headers, compression, null results.
* `derive`, `sign`, `verify`, `setMeta` of a pair: they change none of its modelled state.
* What the exports compute of bytes: the words of a phrase, the digests.  Two
  public functions of the library that nothing calls.
* A native library that is not loaded; worker isolates that stay alive after their
  reply (`common.dart:119`), which take part in nothing any more.
* secp256k1 and the boxes of `nacl.dart`, and the parsing of derivation paths.
* Conversions beside the models, worth a test each: a bip32 depth that is one byte
  (`rust/src/bip32.rs:88`), a C string that ends at a NUL in a password
  (`rust/src/util.rs:7`; `NativeLibrary` has it as `get_str`), junctions of numbers from
  2^63 (`util_crypto/key.dart:44`), binary data that is hashed as text
  (`util_crypto/xxhash.dart:10`), seeds padded with spaces (`keyring/keyring.dart:126`).
* The components listed as not modelled in `PROJECT.json`, with the reasons.

## Plan

1. Done: connection, requests and subscriptions, the subscription's promise, the key
   pair, the type registry, the era, the native library and its callers, derivation and
   signatures; the safety of connection, provider, key pair and native calls proved.
2. Done: the provider's types, one key per path, the type registry and the era proved.
3. `EventEmitter` with listeners that call back into the provider or throw, composed
   with `WsProvider`; user callbacks that throw in a flush.
4. `Keyring` over pairs; `setMetadata` of the registry; metadata versions converted on
   demand.
5. `Compact` as pure operators checked against a reference definition over bounded
   inputs.
