# A TLA+ model of proxy-bench

proxy-bench relays byte streams. A proxy accepts streams on `-listen`, opens one
stream on `-connect` for each, and copies both directions. The scheme of each
address selects the transport: a socket (`tcp`, `unix`, ...), Cap'n Proto RPC
(`capnp`), gRPC (`grpc`) or a second Cap'n Proto library (`mdcapnp`); a suffix `+tls`
puts TLS below it. The usual
deployment has two proxies:

    application --tcp--> proxy 1 --capnp/grpc/mdcapnp/tcp--> proxy 2 --tcp--> application

This directory holds a specification of that system in TLA+, configurations that
model-check it with TLC, and proofs checked by TLAPS. All statements are about the
code; where the code contradicts a comment or a schema of the repository, a run
shows the counterexample (see "Disagreements").

## Inventory

| component | state | operations | interacts with |
|---|---|---|---|
| relay (`main.go`: accept loop, `handleStream`, `copyStream`) | two goroutines per stream, each at some point of `io.Copy` or of the closes after it | accept, open upstream, copy a chunk, `CloseRead`, `CloseWrite`, the deferred `Close`s | sessions (opens), streams (reads, writes, closes) |
| socket streams (`stdStream`) | a `net.Conn` or a `tls.Conn` | the connection's; half-closes by `shutdown`, or by a TLS alert for the write side only | operating system, `crypto/tls` |
| capnp streams (`capnpStream`, `byteStreamReader`) | `closed` flag, an `io.Pipe`, a capability, a release function | `write`/`end` calls to the peer; the peer's calls feed the pipe | RPC system of both proxies |
| grpc streams (`grpcStream`) | `readClosed`, `writeClosed`, the close callback, a read buffer | `Send`, `Recv`, `CloseSend` | gRPC, the handler on the server |
| mdcapnp streams (`streamImpl`, `byteStreamServer`) | an `io.Pipe`, a capability | `write`/`end` calls, each waited for | vats of both proxies |
| capnp sessions | mutex, connection, channel `incoming` | bootstrap, `OpenStream`, `AcceptStream`, `Close` | accept loop, RPC system |
| mdcapnp sessions | mutex, connection, proxy capability, channel `nextStream` | `connect` with a timeout, `OpenStream`, `Call`, `AcceptStream`, `Close` | accept loop, vat |
| grpc sessions | mutex, stub, server, channels `incoming` and `closedCh` | bootstrap, `OpenStream` (both sides), `AcceptStream`, `Close` | accept loop, gRPC |
| startup (`splitAddress`, registries, creators, TLS configuration) | two maps filled by four `init` functions | `newServerSession`, `newClientSession` | sessions |
| pprof endpoint, generated bindings | - | - | not modelled |

What is hard here:

* two goroutines use and close the same stream, and `handleStream` closes both
  streams when *one* of the copies ends;
* every transport half-closes, closes and fails in its own way, and the relay is
  correct only if what it does to one stream has the right effect two proxies on;
* some closes wait for the peer (`end` in capnp and mdcapnp), so everyone can
  wait on everyone;
* a stream is handed from an RPC handler to the accept loop through a channel, in
  a race with bootstrap, timeouts, failing connections and a stopping server;
* `Close` of a session runs against goroutines that end for the same reason and use
  the same channels (`closedCh`, `runChan`).

What makes the components correct: the bytes arrive complete and in order or not
at all, and a clean end means a complete stream (streams, relay); every goroutine
ends once a stream has ended (relay); an opened stream is accepted exactly once, or
opening it fails (sessions); a proxy serves only what it was configured to serve
(startup). `PROJECT.json` lists the hazards line by line.

## Modules

| module | models | notes |
|---|---|---|
| `Wire` | what every stream has in common | a stream is two halves; a half is a queue `q` of chunk numbers (and the call `end`) and a set of flags `f` |
| `StdStream`, `TlsStream`, `CapnpStream`, `GrpcStream`, `MdcapnpStream` | `std_net.go`, `capnpnet`, `grpcnet`, `mdcapnp`: the stream types | constant-level operators: the possible results of `Read` and `Write` in a state, and the state after each operation |
| `Netx` | `netx.Stream` | the operators above, dispatched on the kind, as Go dispatches the methods |
| `Tunnel` | `handleStream` and `copyStream` of every proxy on a path, the RPC systems, the network, the two applications | the composition of all streams; `Hops` streams, `Hops - 1` proxies |
| `Conduit` | nothing in particular: what a relayed connection promises to the applications | the abstract specification that `Tunnel` implements |
| `CapnpSession`, `MdcapnpSession`, `GrpcSession` | the sessions of each RPC transport, client and server | how an opened stream reaches the accept loop |
| `Startup` | `main`, `splitAddress`, registries, creators, TLS configuration | from the arguments to the accept loop |
| `StreamProofs` | lemmas about every operation of every stream type | checked by TLAPS, as all that follow |
| `TunnelProofs` | theorems about `Tunnel`: types and order | |
| `ConduitProofs` | theorems about `Tunnel`: how it ends, and that it implements `Conduit` | |
| `CapnpSessionProofs`, `MdcapnpSessionProofs`, `GrpcSessionProofs` | theorems about the sessions | |
| `StartupProofs` | theorems about `Startup`, and about `strings.SplitN` for all sequences | |
| `LeastNumber` | the least number of a set, and induction as a fact about sets | used by `ConduitProofs` and `StartupProofs` |
| `MC...` | instances for TLC | values of the constants only |

### Tunnel

Stream `p` is the `down` stream of proxy `p` and stream `p + 1` its `up` stream. The
outermost streams are sockets, those in between of one kind, `inner`, chosen in
`Init`.

* `hs[p]` is the control state of `handleStream`: `idle`, `open` (in
  `client.OpenStream`), `opened` (the stream exists, the call has not returned),
  `relay`, `upWait` and `downWait` (in a `Close` that waits for `end`), `done`.
* `cp[p][d]` is `copyStream` for direction `d`: its place `pc`, the chunk in
  `io.Copy`'s buffer `hand`, the count `written`, and whether it failed. Reading and
  writing are separate steps. Where the code tests a flag before it blocks
  (`readClosed`, `writeClosed`, `closed`), the test is a step of its own (`recv`,
  `send`), because the other goroutine can run in between.
* `link[l]` is stream `l`. `ServeCall` is the work of the RPC system on the reader's
  side: it runs `byteStreamReader.Write`/`End`, `byteStreamServer.Call`, or lets the
  gRPC handler return.
* `AppSend`, `AppShut`, `AppRead`, `AppClose` are the applications. They number
  their chunks 1, 2, 3 ...; the content of a chunk never matters to this code.

With TLS between the proxies:

* `Handshake(l, o)` is the handshake of the endpoint that writes half `o`: the
  client's runs in `tls.Dial` (`OpenStreamReturn` waits for it), the server's in the
  first `Read` or `Write` of a copier, after `AcceptStream` has returned;
* `CloseRead` does nothing, since `tls.Conn` has no such method;
* `CloseWrite` and `Close` send an alert. Before the handshake it is refused; behind
  data that the peer does not take it is given up after five seconds
  (`CopyCloseWriteStuck`, `UpAbort`, possible where connections may
  fail: `MayLose` stands for the stall as well); and `Close` sends none while the
  other copier is in `Write` (`UpAbort`);
* `Read` takes a connection that ends between two records for the end of the stream,
  with or without an alert.

Chunks stand for the unit `io.Copy` reads and writes. A transport that splits or
joins chunks keeps the order of bytes, which is what the numbering checks.

### Conduit

The abstract specification has no proxies: two conduits, one per direction, that
deliver a prefix of what was sent, in order, end once, and end cleanly only when
everything has arrived, unless they were cut. `Tunnel` implements it
(`ImplementsConduit == Promised!Spec`) under this mapping: `sent`, `rcvd` and `seen`
are the applications' own; a direction is `shut` when its application has shut its
half of its socket; it is `cut` once something has failed (`Faulted`: a copier got an
error, a connection was reset, lost or given up, an upstream was refused) and, for the
direction up, once the server application has shut its side, since `handleStream`
then closes both streams. So a step of the relay is a step of the conduits or
changes nothing in them, whatever the transport.

### Sessions

`CapnpSession` has several client proxies, because the server takes one connection
only. The mutex of a session is modelled where the code blocks while it holds it
(`bootstrap`, `connect`, gRPC's `Close` around `Stop`); gRPC's client bootstrap does no
I/O and is one step. `MdcapnpSession` counts connections made and connections given up
by a timeout (`leaked`), which stay with the vat; `CapnpSession` counts connections
made and those given up in the handshake (`aborted`). `GrpcSession` follows the handler
through its two selects, and the server proxy may be started again (`Restart`) while
the client proxy keeps its `ClientConn`.

capnp and mdcapnp dial with or without TLS (`tls`, chosen in `Init`). `net.Dial` is one
step: it returns as soon as the server's listener has the connection, accepted or not.
`tls.Dial` goes on to the handshake (`call[s] = "shake"`), which needs somebody on the
server's side who reads from this connection (`Handshake`), has no deadline, and runs
under the mutex. There are two ways in which nobody ever reads, and the stream that
dials then waits for ever, and every later one for the mutex:

* capnp: the server has accepted another connection, and accepts only one in its life
  (a second client proxy, or one that dials again after `Close`);
* mdcapnp: the server's vat has ended by itself; `main`, which nobody tells, keeps the
  process and with it the listener. The timeout of a second in `connect` begins only
  after `tls.Dial`.

`BootstrapReturns` and `OpenStreamEnds` say that opening a stream ends in every
case but these (`HandshakeHangs`). gRPC connects in the background, with its own
timeout, and holds no mutex meanwhile.

`main` never calls `Close` of a session. It is modelled because the interfaces offer it
and because what it shares with the rest is where it could go wrong:

* gRPC: `Close` calls `Stop`, sets `rpcServer` to nil and closes `closedCh`
  (`CloseStop`, `CloseEnd`); the goroutine of `Serve` closes it as well (`ServeEnd`).
  Whichever comes second panics, unless `main` has exited before. An `AcceptStream` in
  between listens again;
* capnp: the server's `Close` closes `closedCh`, which is never made, and panics
  (`ServerClose`); the client's forgets the connection, and the next `OpenStream` makes
  another, which the server will not accept;
* mdcapnp: `Close` cancels the context and receives the result of the vat
  (`Close`, `CloseReturn`), in a race with `main`, which exits when `AcceptStream` sees
  the same context (`AcceptClosed`). A vat may also end by itself (`VatEnd`).

### Startup

An address is a sequence of tokens (words and the separators `+` and `://`).
`splitAddress` is defined on those sequences with the semantics of `strings.SplitN`.
Certificate, CA and key log files are good, bad or (where the code allows) absent.

Each creator is an operator of its own, as it is a function of its own in the code:
`netListen`, `capnpServer`, `mdcapnpServer` and `grpcServer` build server sessions,
`netDial`, `capnpClient`, `mdcapnpClient` and `grpcClient` client sessions.
`ServerSession` and `ClientSession` look them up by scheme. A server session has an
open listener from its creation, except gRPC's, which opens it in the first
`AcceptStream` (`Bootstrap`). That is why `SidesAgree` compares what the client will
dial with the listener that is open once the proxy serves, and not with what the
creator was given.

### What is assumed of libraries

The RPC libraries, gRPC and the operating system are not in the repository; they are
modelled from how the code uses them:

* capnp and mdcapnp execute the calls on one capability one after the other, in the
  order they were made; a streaming call that failed makes later writes on the
  capability fail, while `end` is still sent;
* releasing the results of `openStream` invalidates the capability `up` borrowed
  from them; a broken connection fails the calls that wait on it;
* of the calls under way when a connection breaks, a prefix has arrived;
* a gRPC call ends when its handler returns; `Send` blocks by flow control; a
  `ClientConn` reconnects by itself, and a call without `WaitForReady` fails when
  connecting failed;
* `grpc.Server.Stop` closes the listener and every connection and makes `Serve` return;
  it does not wait for handlers;
* a vat whose context is cancelled returns, and its connections break; a vat that ends
  by itself leaves the listener open, so that connections are still made;
* a TLS handshake is answered by whoever reads from the accepted connection (the RPC
  system or the vat); that it fails is certain only when the server's process is gone;
* a `tls.Conn` behaves as described under "Tunnel";
* a socket delivers data before the FIN; closing it with unread data, or writing to
  an endpoint that is gone, resets the connection, and a reset may overtake data.

## Runs

All runs of `Tunnel` have three streams, two proxies and a window of one chunk. This
is the deployment of the repository's README and the smallest chain in which a
stream of every kind lies between two proxies and both `up` and `down` of a proxy
can be RPC streams. One chunk is enough for the closes to race with a chunk at every
place it can be; the queue then is empty, full, or full with an `end` behind it. The
applications send one chunk each in `tunnel_ends`, one chunk altogether (either of them)
where connections break (with one each, `MaxSent = 2`, `tunnel_loss` has 1.7 million
states and holds as well), and four chunks down and none up in `tunnel_abrupt`.

| run | kinds | checks | result |
|---|---|---|---|
| `tunnel_loss` | all | `TypeOK`, `InFlight`, `ImplementsConduit`, with connections that break or stall and upstreams that refuse; one chunk, in either direction (600 000 states) | holds |
| `tunnel_abrupt` | capnp, mdcapnp | `InOrder`, `EofIsComplete`, `ClosedReadEndFreesWriter`, with a client application that closes at any time; four chunks down and none up, so that a writer really blocks behind the buffers of a chain whose end is gone. Only writers in direction down can be freed by a `CloseRead` alone: the copy from upstream is followed by the deferred `Close`s, which free the writers of the other direction in any case | holds |
| `tunnel_ends` | all | `ShutEndsRelay` | holds |
| `tunnel_lost` | socket, TLS, grpc | `LostStreamStopsReading`, from the fairness of the copiers alone (`CopySpec`) | holds |
| `tunnel_md_no_close`, `tunnel_capnp_dropped`, `tunnel_capnp_end` | one | see "Disagreements" | violated |
| `capnp_session` | - | `OneConnection`, `OpenIsAccepted`, `OneConnectionServed`, `OfferIsTaken`, `BootstrapReturns`, `BrokenConnectionFails`; with and without TLS, two clients, three streams, failures, each session closed once | holds |
| `capnp_session_race` | - | `OpenStreamReturns`; one client, two streams, no failures | violated |
| `mdcapnp_session` | - | `OneConnection`, `ProxyIsConnected`, `OpenStreamEnds`, `OpenedIsAccepted`, `CloseReturns`; with and without TLS, three streams, both vats may end and both sessions be closed | holds |
| `grpc_session` | - | `HeldWhileRelayed`, `ClosedOnce`, `ClosedIsReturned`, `OpenedIsAccepted`, `StopIsFatal`, `OpenStreamEnds`; two streams, one loss, two closes, one restart | holds |
| `startup` | - | `SecureAsAsked`, `SidesAgree`, `ExitHasCause`; all eight schemes and an unknown one, suffixes, malformed addresses and file states | holds |

Three streams in a session are one that connects, one that waits for the mutex and
one that comes later; in gRPC, which has no blocking bootstrap, two suffice: one that
is held and one that is offered. Two closes in gRPC are one of each session, or one of
the server before and one after it has listened again or was restarted.

`EofIsComplete` names a property of this design worth knowing: when the *server*
application ends its side, `handleStream` closes everything, and what the client was
still sending is cut off although the client sees a clean end. The property excludes
exactly that case.

Deadlock is not checked: a finished relay, a proxy that has exited and an open
connection nobody uses are ends the program may reach. The liveness properties say
which ends it must reach.

### Fairness

Every goroutine that can proceed does (the Go scheduler), an RPC system delivers the
calls it has, two TLS endpoints that wait for the handshake finish it, timers expire, a
vat that is stopped ends, `Stop` returns, a server that
has accepted a session's connection answers its TLS handshake, and an application keeps reading and closes its socket
at the end of the stream: weak fairness on those actions. Nothing makes an application
send, shut or close, a connection break, a vat end by itself, a session be closed, a
proxy be started again, `handleStream` end (in `GrpcSession`) or a
server answer in time (in `MdcapnpSession`); and a session's handshake fails for sure
only when the server proxy has exited. Where less is enough, less is assumed:
`tunnel_lost` uses `CopySpec`. Weak fairness is enough for the accept
loops because the instances open finitely many streams.

## Disagreements

1. `CloseWrite` of mdcapnp: "Nop; relay on Close() being called"
   (`mdcapnp/mdcapnp_net.go:85`). `Close` is called only after the server has ended
   its side, so a server that waits for the client's end of stream waits for ever
   (`tunnel_md_no_close`).
2. `proxy.capnp:14` says that a ByteStream dropped without `end` was prematurely
   cancelled. `byteStreamReader` does not notice that it is dropped, and its reader
   blocks for ever (`tunnel_capnp_dropped`).
3. `end` "signals clean EOF" (`proxy.capnp:14`); `copyStream` calls it after a failed
   copy, too (`tunnel_capnp_end`).
4. `ServerSession.bootstrap` of capnp replaces `s.incoming` after it has started to
   serve calls that send to it; a call in between never returns
   (`capnp_session_race`).

Also seen, and not contradicting any document: gRPC's `CloseRead` and `Close` on the
client do not cancel the call, so a server blocked in `Send` stays blocked
(`tunnel_abrupt` leaves gRPC out); `CloseRead` on the client's capnp stream releases
the results of `openStream` and with them the capability the other direction writes
to, so that its `CloseWrite` cannot call `end` any more (`CapnpCloseRead`; the server
proxy has ended by then); the capnp server accepts one connection in its
life (`OneConnectionServed`) and the capnp and mdcapnp clients never reconnect; when the
server's vat ends with an error, its `main` goes on waiting; clients that connect over
TCP get an error, clients that connect over TLS wait in the handshake, under the mutex
(`OpenStreamEnds`), and so does a second capnp client with TLS (`BootstrapReturns`); `Close` of the gRPC and capnp server sessions panics, or loses the
race against the exit of `main`.

## Proofs

Every safety property of a passing run is a theorem: the runs show it on a small
instance, TLAPS for all values of the constants. Each specification is `Init /\
[][Next]_vars /\ Fairness`; the proofs use no fairness. The only
assumptions are the named `ASSUME`s of the modules (`WindowAssumption`,
`TunnelAssumption` and the like in the sessions and `Startup`): ranges of the
constants, at least two streams on a path, finitely many streams in `MdcapnpSession` (its
counters are compared with a cardinality), and that the value that stands for a free
mutex is neither a stream nor a connection.

Before it was proved, each inductive invariant was checked with TLC on the instances
of the runs.

| property | theorem | inductive invariant |
|---|---|---|
| `Tunnel`: `TypeOK` | `TunnelProofs!TypeCorrect` | itself |
| `InFlight`, `InOrder` | `RelayInOrder`, `DeliveredInOrder` | `InFlight` and `TypeOK` |
| `EofIsComplete` | `ConduitProofs!EofAfterAll` | `EndsWell` (`RelayEndsWell`), with those above |
| `ImplementsConduit` | `ConduitProofs!RelayIsConduit` | the same |
| `CapnpSession`: `TypeOK`, `OneConnection`, `OpenIsAccepted`, `OneConnectionServed` | `TypeCorrect`, `DialsOnce`, `OpenedOnce`, `FirstConnectionOnly` | `CapnpSessionProofs!IInv` |
| `MdcapnpSession`: `TypeOK`, `OneConnection`, `ProxyIsConnected` | `TypeCorrect`, `ConnectsOnce`, `ProxyConnected` | `MdcapnpSessionProofs!IInv` |
| `GrpcSession`: `TypeOK`, `HeldWhileRelayed`, `ClosedOnce` | `TypeCorrect`, `RpcOutlastsStream`, `PanicNeedsClose` | `GrpcSessionProofs!IInv` |
| `Startup`: `TypeOK`, `SecureAsAsked`, `ExitHasCause`, `SidesAgree` | `TypeCorrect`, `Secure`, `ExitsForCause`, `SidesMatch` | `StartupProofs!IInv` |

### What arrives, and in which order

`InOrder` (an application has received 1, 2, 3 ...) says nothing about the middle of
the chain and is not inductive. `InFlight` is the strengthening. For each half of each
stream it relates the number of chunks its reader has taken, the number its writer has
given and the queue between them: element `i` of the queue is chunk `taken + i`, and
`given = taken + Len(q)`. Two things weaken it. Behind a queued `end` anything may
follow (capnp's `Write` tests `closed` before it sends), and once the reading side
cannot be given a chunk any more (`Readable`), or the connection is lost, the counts
need not agree. A copier holds in `hand` the chunk after those it has written.

The argument separates what a step does to a half:

* most operations (`Mark`, the closes, `end`, losing a connection, serving a call)
  only *settle* a half: the queue stays a prefix of what it was up to the first
  `end`, and a half that was not readable does not become so (`Settles`, `Quiet` in
  `StreamProofs`). `SettlesInOrder` proves that this keeps the half in order;
* with TLS, a `Close` or a `CloseWrite` with or without its alert, and the handshake,
  are of the same sort (`TlsCloseQuiet`, `TlsMarkQuiet`);
* `Pop` goes with one more chunk taken (`PopInOrder`), `Put` of the next chunk with
  one more given (`PutInOrder`).

`StreamProofs` shows for each operation of each transport which case it is.
`TunnelProofs` then has one lemma per group of actions (`InFlightHandler`,
`InFlightCopy`, `InFlightAppSend`, ...), in which the counts of the neighbouring hops
are shown to stay.

### How a relay ends

`EofIsComplete` speaks of the applications at the two ends; that nothing is missing
there depends on every copier and every stream in between. `EndsWell` says it hop by
hop, as long as nothing has cut the direction (`Uncut`):

* a half shows signs of its end (`Closing`: an `end` in the queue, a FIN, a returned
  handler, a closed pipe ...) only after its writer has left `io.Copy`, or shut, and its
  counts agree (`Sound`). Without failures no chunk is dropped (`HopEnds`);
* a copier leaves `io.Copy` only with an empty buffer, and only when its source will
  give no more chunks and has none left (`CopierEnds`, `Complete`);
* an application has seen the end of file only under the same condition (`AppEnds`).

Three facts hold whatever happens: `handleStream` closes its streams only after the
copy from upstream has ended (`ClosesLast`); a copier that got an error is out of
`io.Copy` (`ErrorsEnd`); no chunk is taken, or queued, that was not given (`Bounded`,
which `InFlight` no longer says of a half that was reset).

The proof has the same form as the one for the order. `StreamProofs` ("How a half
ends") gives the `Effects` of each operation on the flags and the queue, for each
transport. `ConduitProofs` sorts every step of `Tunnel` by what it does to a half
(`Settled`, `Popped`, `Pushed`; lemma `Steps`), shows that what has ended or is complete
remains so (`Latched`, `CompleteKept`), and proves each conjunct of `EndsWell` from
that classification instead of from the actions.

Two arguments are about the whole chain. That an ended half at the far end implies
that the application at the near end has shut (`EndedWasShut`), and that what
was given anywhere was sent (`GivenWasSent`), goes hop by hop along a chain of
arbitrary length: an induction over the number of hops (`AlongTheChain`). The
library's induction theorems take an operator and cannot be instantiated here;
`LeastNumber!SetInduction` states induction as a fact about a *set* of numbers, which
can be. And the direction `up` depends on the direction `dn`, because `handleStream`
closes both streams when the copy `dn` ends: as long as the server application has not
shut, that copy cannot have ended without a failure on any proxy, so no `Close` is
called at all (`NobodyCloses`). This is the reason for the exception in
`EofIsComplete`.

The refinement follows. `Promised!Next` allows a direction to lose what is in flight
only once it is cut, so one has to show that an application receives only what was
sent (`GivenWasSent`), receives the end of file only when it is complete (`EofIsComplete`
after the step), that only the applications' own steps change `sent`, `rcvd` and `seen`,
and that a socket of an application is shut by its application alone
(`OthersKeepOpen`, `OnlyAppsShut`).

### Sessions

* `CapnpSession`: `OneConnection` counts dials, which says nothing of a stream about to
  dial. The mutex is what makes the difference: the stream that dials holds its
  client's mutex and the client has no connection (`HolderDials`, `DialsCounted`, which
  counts a connection in its handshake with the stream that holds the mutex).
  `OpenIsAccepted` needs that a call is answered only by a handler that has been taken
  (`DoneIsTaken`); `OneConnectionServed` that a handler runs only for a call on the
  connection that is served (`HandlerIsServed`).
* `MdcapnpSession`: a connection is in use, being made by the stream that holds the
  mutex, or left with the vat (`HolderConnects`, `DialsCounted`). That the counter stays
  below the number of streams (`TypeOK`) needs that each stream dials once
  (`DialsBounded`).
* `GrpcSession`: `HeldWhileRelayed` needs that a stream is not taken before its handler
  has offered it (`OfferedNotTaken`). `ClosedOnce` needs that before any `Close` of
  the server session in this process (`stops`) there is one `Serve`, and that its goroutine has not closed `closedCh` while it runs
  (`OneServe`); with `Close` a second one can be under way, and `ServesCounted` bounds
  how many.

### Startup

`Progress` says what each place in `main` knows of the two sessions: which creator made
them, and whether the listener is open yet. `CreatorsAgree` goes through the schemes and
compares what the two creators of each have built; `SessionTypes` adds gRPC's
`Bootstrap`, and `SidesMatch` follows. The rest is about `splitAddress`: what `SplitN` returns for any sequence of tokens (`SplitNone`,
`SplitFirst`; the first separator exists by `LeastNat`), and from it that the code's
idea of TLS and of a known scheme is that of the help text (`AsksTLS`, `WellFormed`),
for all addresses and not only for the ones of the run.

### Only model-checked

The liveness properties: `ClosedReadEndFreesWriter`, `ShutEndsRelay`,
`LostStreamStopsReading`, `OfferIsTaken`, `BootstrapReturns`, `BrokenConnectionFails`, `OpenStreamEnds`,
`OpenedIsAccepted`, `CloseReturns`, `ClosedIsReturned`, `StopIsFatal`. They rest on
weak fairness, and TLAPS has no rule here for `ENABLED`.

## Not modelled

* TLS between an application and the outermost proxy: the applications' streams are
  plain sockets. Of TLS below an RPC transport only the handshake is modelled, in the
  sessions; the rest is part of the connection.
* What a missing TLS alert means to the program. Go's `tls.Conn` takes a connection that
  ends between two records for the end of the stream, so a reader may see a clean end
  that nobody sent. `handleStream` can cause this only in the direction up after the
  server application has shut its side, which `EofIsComplete` and the mapping to
  `Conduit` leave out; the other case, an alert given up after five seconds, counts as a
  failure there. The order of what was read before is checked in both (`InFlight`).
* `grpcStream`'s buffer for packets larger than the caller's slice: a packet is one
  `Write` of the peer's `io.Copy`, whose buffer has the size of the one that reads it
  (`io.Copy` allocates 32 KiB, neither stream has `ReadFrom` or `WriteTo`), so between
  two proxies the buffer stays empty.
* Sizes: flow limits are a window of chunks.
* A crash of a proxy process in the middle of a relay, except as what its peers see of
  it, a lost connection; a restart is modelled in the gRPC session, the only one whose
  client reconnects.
* `Close` of the listener of a socket session, which `main` never calls.
* pprof, logging, the content of the key log, the generated bindings.
* Liveness in runs in which the server application closes abruptly, or the client does
  over gRPC or sockets. The safety properties, the refinement of `Conduit` included, are
  proved for them (`Abrupt` is any set of directions); only TLC does not run them.

## Plan

1. (done) Streams, `Netx`, `Tunnel`; their runs; type correctness and order proved.
2. (done) Sessions of the three RPC transports, startup; their runs.
3. (done) TLS sockets; `Conduit`, which `Tunnel` implements; `Close` of the sessions,
   the end of a vat, a restart of the gRPC server; key logs.
4. (done) Proofs of every safety property of the runs, each with its inductive
   invariant, and of the refinement of `Conduit`.
5. What remains for proofs: the safety half of the liveness properties (that a step
   towards the promised state stays possible and is not undone until it is taken), for
   the handlers of gRPC and capnp and for the relay after a shut.
