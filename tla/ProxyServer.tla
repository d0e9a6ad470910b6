---------------------------- MODULE ProxyServer ----------------------------
(***************************************************************************)
(* internal/proxy/proxy.go: the life of the server and of its connections.  *)
(* Start binds a listener and starts the accept loop; each accepted client  *)
(* gets one of the connection slots and a handler goroutine; the handler    *)
(* registers its sockets, sets the connection up, inspects the handshake    *)
(* and pipes; Stop closes the listener, waits for the handlers, and after   *)
(* drainTimeout closes, once, every socket registered at that moment.       *)
(*                                                                          *)
(* What a handler does between registering the client socket and having a   *)
(* backend connection is two phases here: "resolving" (resolve the branch   *)
(* and validate it, by Git, with no deadline; see BranchIdentity) and       *)
(* "setup" (JIT provisioning and the dial, under connCtx; see JitProvision).*)
(***************************************************************************)
EXTENDS Integers, FiniteSets

CONSTANTS
  Conn,        \* client connections; an identity is reused after it ends
  MaxSlots     \* maxConcurrentConnections

ASSUME ConnAssumption == IsFiniteSet(Conn)
ASSUME SlotAssumption == MaxSlots \in Nat

VARIABLES
  mysql,        \* cfg.Driver is mysql or mariadb: the backend speaks first
  stopped,      \* Server.stopped
  hasListener,  \* Server.listener is not nil
  sockOpen,     \* the listening socket is open
  cancelled,    \* the context given to Start is done
  loop,         \* the accept loop
  inHand,       \* the connection Accept has just returned
  stopper,      \* the call of Stop that found the server not stopped
  slots,        \* tokens in connectionSlots
  wg,           \* the counter of the WaitGroup
  conn,         \* where each connection is
  clientOpen,   \* connections whose client socket the proxy has not closed
  backendOpen,  \* connections whose backend socket the proxy has not closed
  activeConns,  \* Server.activeConns, as pairs <<connection, side>>
  deferred,     \* the steps a handler has deferred, as pairs <<side, step>>
  missed        \* history: connections not fully registered when Stop forced

serverVars == <<mysql, stopped, hasListener, sockOpen, cancelled, stopper, missed>>
socketVars == <<clientOpen, backendOpen, activeConns, deferred>>
vars == <<serverVars, loop, inHand, slots, wg, conn, socketVars>>

(* "queued": in the listener's backlog. "begin": the handler goroutine is   *)
(* started. "resolving": client registered, Git runs. "setup": branch       *)
(* known. "dialed": backend connected, not registered. "hello": MySQL,      *)
(* reading the backend's greeting. "startup": reading the client's startup  *)
(* packets. "encrypted": PostgreSQL, reading them through TLS. "closing":   *)
(* the deferred functions run. "released": slot given back.                 *)
Handling == {"begin", "resolving", "setup", "dialed", "hello", "startup", "encrypted", "piping",
             "closing"}
Running  == Handling \cup {"released"}
Looping  == {"top", "accepting", "got", "failed"}

(* The sides of a connection in activeConns: its client socket, its backend *)
(* socket, and the TLS connection a handler wraps around the client socket. *)
(* Go runs deferred functions last in, first out.                           *)
Side == {"client", "backend", "tls"}
RegisteredAfter == [client |-> {"backend", "tls"}, backend |-> {"tls"}, tls |-> {}]

(* The phases in which a socket is missing from activeConns that a later    *)
(* read without deadline depends on (used by the history variable missed).  *)
Unregistered == {"accepted", "begin"} \cup (IF mysql THEN {"resolving", "setup", "dialed"} ELSE {})

TypeOK ==
  /\ {mysql, stopped, hasListener, sockOpen, cancelled} \subseteq BOOLEAN
  /\ loop \in Looping \cup {"off", "ended"}
  /\ inHand \in SUBSET Conn
  /\ stopper \in {"idle", "closing", "draining", "forced", "done"}
  /\ slots \in Nat
  /\ wg \in Nat
  /\ conn \in [Conn -> Running \cup {"gone", "queued", "accepted"}]
  /\ clientOpen \in SUBSET Conn
  /\ backendOpen \in SUBSET Conn
  /\ activeConns \in SUBSET (Conn \X Side)
  /\ deferred \in [Conn -> SUBSET (Side \X {"remove", "close"})]
  /\ missed \in SUBSET Conn

Init ==
  /\ mysql \in BOOLEAN
  /\ stopped = FALSE /\ hasListener = FALSE /\ sockOpen = FALSE /\ cancelled = FALSE
  /\ loop = "off" /\ inHand = {} /\ stopper = "idle"
  /\ slots = 0 /\ wg = 0
  /\ conn = [c \in Conn |-> "gone"]
  /\ clientOpen = {} /\ backendOpen = {} /\ activeConns = {}
  /\ deferred = [c \in Conn |-> {}]
  /\ missed = {}

-----------------------------------------------------------------------------
(* Mutant of Start: the accept loop is not counted.                         *)
StartUncounted ==
  /\ ~stopped /\ ~hasListener
  /\ hasListener' = TRUE
  /\ sockOpen' = TRUE
  /\ loop' = "top"
  /\ UNCHANGED <<mysql, stopped, cancelled, stopper, missed, inHand, slots, wg, conn, socketVars>>

(* Start, under s.mu; with s.stopped set or a listener it is an error.      *)
Start ==
  /\ ~stopped /\ ~hasListener
  /\ hasListener' = TRUE
  /\ sockOpen' = TRUE
  /\ wg' = wg + 1
  /\ loop' = "top"
  /\ UNCHANGED <<mysql, stopped, cancelled, stopper, missed, inHand, slots, conn, socketVars>>

(* The context given to Start is cancelled.                                 *)
Cancel ==
  /\ ~cancelled
  /\ cancelled' = TRUE
  /\ UNCHANGED <<mysql, stopped, hasListener, sockOpen, stopper, missed, loop, inHand, slots, wg, conn, socketVars>>

(* The goroutine beside the accept loop closes the listener on ctx.Done();  *)
(* it takes it from s.listener, which stays set.  When the loop ends first, *)
(* it may still do so, or see stopWait closed and not (proxy.go:273-284).   *)
WatcherCloses ==
  /\ cancelled /\ loop # "off" /\ hasListener /\ sockOpen
  /\ sockOpen' = FALSE
  /\ UNCHANGED <<mysql, stopped, hasListener, cancelled, stopper, missed, loop, inHand, slots, wg, conn, socketVars>>

(* Stop, its critical section.  A later call returns at once.               *)
StopBegins ==
  /\ ~stopped
  /\ stopped' = TRUE
  /\ hasListener' = FALSE
  /\ stopper' = "closing"
  /\ UNCHANGED <<mysql, sockOpen, cancelled, missed, loop, inHand, slots, wg, conn, socketVars>>

(* Stop closes the listener it took and starts to wait for the WaitGroup.   *)
StopClosesListener ==
  /\ stopper = "closing"
  /\ sockOpen' = FALSE
  /\ stopper' = "draining"
  /\ UNCHANGED <<mysql, stopped, hasListener, cancelled, missed, loop, inHand, slots, wg, conn, socketVars>>

(* Mutant of StopForces: the registered sockets are left open.              *)
StopForcesNothing ==
  /\ stopper = "draining"
  /\ missed' = {c \in Conn : conn[c] \in Unregistered}
  /\ stopper' = "forced"
  /\ UNCHANGED <<mysql, stopped, hasListener, sockOpen, cancelled, loop, inHand, slots, wg, conn, socketVars>>

(* drainTimeout has passed: closeActiveConns, under activeMu.               *)
StopForces ==
  /\ stopper = "draining"
  /\ clientOpen' = clientOpen \ {c \in Conn : \E side \in {"client", "tls"} : <<c, side>> \in activeConns}
  /\ backendOpen' = backendOpen \ {c \in Conn : <<c, "backend">> \in activeConns}
  /\ missed' = {c \in Conn : conn[c] \in Unregistered}
  /\ stopper' = "forced"
  /\ UNCHANGED <<mysql, stopped, hasListener, sockOpen, cancelled, loop, inHand, slots, wg, conn, activeConns, deferred>>

(* Mutant of StopReturnsNow: after force-closing, Stop does not wait.       *)
StopReturnsEarly ==
  /\ \/ stopper = "draining" /\ wg = 0
     \/ stopper = "forced"
  /\ stopper' = "done"
  /\ UNCHANGED <<mysql, stopped, hasListener, sockOpen, cancelled, missed, loop, inHand, slots, wg, conn, socketVars>>

(* The WaitGroup is at zero; Stop returns.                                  *)
StopReturnsNow ==
  /\ stopper \in {"draining", "forced"}
  /\ wg = 0
  /\ stopper' = "done"
  /\ UNCHANGED <<mysql, stopped, hasListener, sockOpen, cancelled, missed, loop, inHand, slots, wg, conn, socketVars>>

-----------------------------------------------------------------------------
(* A client connects: the kernel queues it while the socket listens.        *)
ClientArrives(c) ==
  /\ conn[c] = "gone" /\ sockOpen
  /\ conn' = [conn EXCEPT ![c] = "queued"]
  /\ UNCHANGED <<serverVars, loop, inHand, slots, wg, socketVars>>

(* The listening socket is closed: queued clients are reset.                *)
ClientReset(c) ==
  /\ conn[c] = "queued" /\ ~sockOpen
  /\ conn' = [conn EXCEPT ![c] = "gone"]
  /\ UNCHANGED <<serverVars, loop, inHand, slots, wg, socketVars>>

(* The loop reads s.listener under s.mu and ends if it is nil.              *)
LoopTop ==
  /\ loop = "top"
  /\ \/ hasListener /\ loop' = "accepting" /\ UNCHANGED wg
     \/ ~hasListener /\ loop' = "ended" /\ wg' = wg - 1
  /\ UNCHANGED <<serverVars, inHand, slots, conn, socketVars>>

(* l.Accept() returns a connection.                                         *)
Accept(c) ==
  /\ loop = "accepting" /\ sockOpen /\ conn[c] = "queued"
  /\ loop' = "got"
  /\ inHand' = {c}
  /\ conn' = [conn EXCEPT ![c] = "accepted"]
  /\ clientOpen' = clientOpen \cup {c}
  /\ UNCHANGED <<serverVars, slots, wg, backendOpen, activeConns, deferred>>

(* l.Accept() returns an error: the socket is closed, or the process is out *)
(* of descriptors for a moment.                                             *)
AcceptFails ==
  /\ loop = "accepting"
  /\ loop' = "failed"
  /\ UNCHANGED <<serverVars, inHand, slots, wg, conn, socketVars>>

(* Mutant of AcceptErrorHandled: any error is taken for a passing one.      *)
RetryAccept ==
  /\ loop = "failed"
  /\ loop' = "accepting"
  /\ UNCHANGED <<serverVars, inHand, slots, wg, conn, socketVars>>

(* After an error: end if the context is done or the server is stopping,    *)
(* else wait 50 ms and try again.                                           *)
AcceptErrorHandled ==
  /\ loop = "failed"
  /\ \/ (cancelled \/ stopped \/ ~hasListener) /\ loop' = "ended" /\ wg' = wg - 1
     \/ ~(cancelled \/ stopped \/ ~hasListener) /\ loop' = "top" /\ UNCHANGED wg
  /\ UNCHANGED <<serverVars, inHand, slots, conn, socketVars>>

(* Mutant of HandlerStarts: the handler is not counted.                     *)
HandlerUncounted(c) ==
  /\ loop = "got" /\ c \in inHand
  /\ slots < MaxSlots
  /\ slots' = slots + 1
  /\ conn' = [conn EXCEPT ![c] = "begin"]
  /\ loop' = "top" /\ inHand' = {}
  /\ UNCHANGED <<serverVars, wg, socketVars>>

(* A slot is free: take it, count the handler, start it.                    *)
HandlerStarts(c) ==
  /\ loop = "got" /\ c \in inHand
  /\ slots < MaxSlots
  /\ slots' = slots + 1
  /\ wg' = wg + 1
  /\ conn' = [conn EXCEPT ![c] = "begin"]
  /\ loop' = "top" /\ inHand' = {}
  /\ UNCHANGED <<serverVars, socketVars>>

(* No slot is free: the client is closed at once, the loop does not block.  *)
ClientRejected(c) ==
  /\ loop = "got" /\ c \in inHand
  /\ slots >= MaxSlots
  /\ clientOpen' = clientOpen \ {c}
  /\ conn' = [conn EXCEPT ![c] = "gone"]
  /\ loop' = "top" /\ inHand' = {}
  /\ UNCHANGED <<serverVars, slots, wg, backendOpen, activeConns, deferred>>

-----------------------------------------------------------------------------
Move(c, from, to) == conn[c] = from /\ conn' = [conn EXCEPT ![c] = to]
handlerFrame == <<serverVars, loop, inHand, slots, wg>>

(* addActiveConn, and the deferred function that will undo it.              *)
Register(c, side) ==
  /\ activeConns' = activeConns \cup {<<c, side>>}
  /\ deferred' = [deferred EXCEPT ![c] = @ \cup ({side} \X {"remove", "close"})]

(* The handler cannot set the deadline of the client socket and drops it.   *)
SetDeadlineFails(c) ==
  /\ Move(c, "begin", "closing")
  /\ clientOpen' = clientOpen \ {c}
  /\ UNCHANGED <<handlerFrame, backendOpen, activeConns, deferred>>

(* The handler sets the 10 s deadline on the client socket and registers it.*)
RegisterClient(c) ==
  /\ Move(c, "begin", "resolving") /\ Register(c, "client")
  /\ UNCHANGED <<handlerFrame, clientOpen, backendOpen>>

(* Git has named the branch, and the name is unambiguous.                   *)
BranchResolved(c) ==
  /\ Move(c, "resolving", "setup")
  /\ UNCHANGED <<handlerFrame, socketVars>>

(* Git could not name the branch, or the name is ambiguous: the client gets *)
(* an error.  No deadline applies to Git: neither action need ever happen.  *)
ResolveFails(c) ==
  /\ Move(c, "resolving", "closing")
  /\ UNCHANGED <<handlerFrame, socketVars>>

(* Provisioning or dialling failed, or connCtx ended it.                    *)
SetupFails(c) ==
  /\ Move(c, "setup", "closing")
  /\ UNCHANGED <<handlerFrame, socketVars>>

(* dialBackend returns a connection.                                        *)
DialBackend(c) ==
  /\ Move(c, "setup", "dialed")
  /\ backendOpen' = backendOpen \cup {c}
  /\ UNCHANGED <<handlerFrame, clientOpen, activeConns, deferred>>

(* The handler registers the backend socket.                                *)
RegisterBackend(c) ==
  /\ Move(c, "dialed", IF mysql THEN "hello" ELSE "startup") /\ Register(c, "backend")
  /\ UNCHANGED <<handlerFrame, clientOpen, backendOpen>>

(* MySQL: the backend's greeting is read, with no deadline, and forwarded.  *)
GreetingForwarded(c) ==
  /\ Move(c, "hello", "startup")
  /\ c \in clientOpen /\ c \in backendOpen
  /\ UNCHANGED <<handlerFrame, socketVars>>

(* MySQL: the backend hangs up or talks nonsense, or the client cannot be   *)
(* written to any more.                                                     *)
GreetingFails(c) ==
  /\ Move(c, "hello", "closing")
  /\ UNCHANGED <<handlerFrame, socketVars>>

(* MySQL: reading from a backend socket that the proxy has closed fails.    *)
GreetingReadOnClosed(c) == c \notin backendOpen /\ GreetingFails(c)

(* Mutant of RegisterTLS: nothing is deferred that removes the TLS          *)
(* connection from activeConns again.                                       *)
RegisterTLSForGood(c) ==
  /\ ~mysql /\ Move(c, "startup", "encrypted")
  /\ activeConns' = activeConns \cup {<<c, "tls">>}
  /\ UNCHANGED <<handlerFrame, clientOpen, backendOpen, deferred>>

(* PostgreSQL: the client has asked for TLS, which the configuration        *)
(* enables, and the handshake is done; the TLS connection is registered     *)
(* beside the client socket it wraps.                                       *)
RegisterTLS(c) ==
  /\ ~mysql /\ Move(c, "startup", "encrypted") /\ Register(c, "tls")
  /\ UNCHANGED <<handlerFrame, clientOpen, backendOpen>>

(* The startup packet is read, rewritten and forwarded, the deadlines are   *)
(* cleared, and the two copying goroutines start.                           *)
StartupForwarded(c) ==
  /\ Move(c, "startup", "piping") \/ Move(c, "encrypted", "piping")
  /\ c \in clientOpen /\ c \in backendOpen
  /\ UNCHANGED <<handlerFrame, socketVars>>

(* Mutant of StartupFails: no deadline, only a closed socket ends the read. *)
StartupWaits(c) ==
  /\ c \notin clientOpen
  /\ Move(c, "startup", "closing") \/ Move(c, "encrypted", "closing")
  /\ UNCHANGED <<handlerFrame, socketVars>>

(* The client hangs up, sends a cancel request or something that cannot be  *)
(* rewritten, fails the TLS handshake, or has not said enough when the      *)
(* deadline of the client socket comes.                                     *)
StartupFails(c) ==
  /\ Move(c, "startup", "closing") \/ Move(c, "encrypted", "closing")
  /\ UNCHANGED <<handlerFrame, socketVars>>

(* One direction ends because a peer hangs up; pipeConnections closes both  *)
(* sockets, which ends the other direction.                                 *)
PipeEnds(c) ==
  /\ Move(c, "piping", "closing")
  /\ clientOpen' = clientOpen \ {c}
  /\ backendOpen' = backendOpen \ {c}
  /\ UNCHANGED <<handlerFrame, activeConns, deferred>>

(* The same, because the proxy has closed one of the sockets.               *)
PipeOnClosed(c) == (c \notin clientOpen \/ c \notin backendOpen) /\ PipeEnds(c)

(* A deferred function of the handler can run when those deferred after it  *)
(* are done.                                                                *)
Due(c, side) ==
  conn[c] = "closing" /\ \A step \in deferred[c] : step[1] \notin RegisteredAfter[side]

(* It first removes its connection from activeConns ...                     *)
RemoveDeferred(c) == \E side \in Side :
  /\ Due(c, side) /\ <<side, "remove">> \in deferred[c]
  /\ activeConns' = activeConns \ {<<c, side>>}
  /\ deferred' = [deferred EXCEPT ![c] = @ \ {<<side, "remove">>}]
  /\ UNCHANGED <<handlerFrame, conn, clientOpen, backendOpen>>

(* ... and then closes it; closing the TLS connection closes the client     *)
(* socket.                                                                  *)
CloseDeferred(c) == \E side \in Side :
  /\ Due(c, side) /\ <<side, "close">> \in deferred[c] /\ <<side, "remove">> \notin deferred[c]
  /\ clientOpen' = IF side = "backend" THEN clientOpen ELSE clientOpen \ {c}
  /\ backendOpen' = IF side = "backend" THEN backendOpen \ {c} ELSE backendOpen
  /\ deferred' = [deferred EXCEPT ![c] = @ \ {<<side, "close">>}]
  /\ UNCHANGED <<handlerFrame, conn, activeConns>>

(* Mutant of ReleaseSlot: the token is not taken back.                      *)
SlotLeaked(c) ==
  /\ deferred[c] = {} /\ Move(c, "closing", "released")
  /\ UNCHANGED <<handlerFrame, socketVars>>

(* The last deferred function of handleConnection takes the token back.     *)
ReleaseSlot(c) ==
  /\ deferred[c] = {} /\ Move(c, "closing", "released")
  /\ slots' = slots - 1
  /\ UNCHANGED <<serverVars, loop, inHand, wg, socketVars>>

(* Mutant of HandlerDone: Done is called twice.                             *)
HandlerDoneTwice(c) ==
  /\ Move(c, "released", "gone")
  /\ wg' = wg - 2
  /\ UNCHANGED <<serverVars, loop, inHand, slots, socketVars>>

(* The goroutine's deferred wg.Done().                                      *)
HandlerDone(c) ==
  /\ Move(c, "released", "gone")
  /\ wg' = wg - 1
  /\ UNCHANGED <<serverVars, loop, inHand, slots, socketVars>>

Handler(c) ==
  \/ SetDeadlineFails(c) \/ RegisterClient(c) \/ BranchResolved(c) \/ ResolveFails(c)
  \/ SetupFails(c) \/ DialBackend(c) \/ RegisterBackend(c)
  \/ GreetingForwarded(c) \/ GreetingFails(c)
  \/ RegisterTLS(c) \/ StartupForwarded(c) \/ StartupFails(c) \/ PipeEnds(c)
  \/ RemoveDeferred(c) \/ CloseDeferred(c) \/ ReleaseSlot(c) \/ HandlerDone(c)

AcceptLoop ==
  \/ LoopTop \/ AcceptFails \/ AcceptErrorHandled
  \/ \E c \in Conn : Accept(c) \/ HandlerStarts(c) \/ ClientRejected(c)

Stop == StopBegins \/ StopClosesListener \/ StopForces \/ StopReturnsNow

Next ==
  \/ Start \/ Cancel \/ WatcherCloses \/ Stop \/ AcceptLoop
  \/ \E c \in Conn : ClientArrives(c) \/ ClientReset(c) \/ Handler(c)

Spec == Init /\ [][Next]_vars

(* Goroutines that can run do.  connCtx ends the setup: the driver's calls  *)
(* and the dial take it; the wait for the branch's lock does not            *)
(* (proxy.go:350), but ends when its holders' calls have, each under a      *)
(* connCtx of its own (EnsureReturns in JitProvision).  The deadline on the *)
(* client socket ends the startup phase.  Nothing ends a Git process that   *)
(* hangs (resolver.go:152, 171), makes a peer hang up, a MySQL backend      *)
(* greet, or anybody call Start, Stop or cancel; and the watcher need not   *)
(* outlive the loop.                                                        *)
FairSpec ==
  /\ Spec
  /\ WF_vars(loop \in Looping /\ WatcherCloses) /\ WF_vars(StopClosesListener)
  /\ WF_vars(StopForces) /\ WF_vars(StopReturnsNow)
  /\ WF_vars(LoopTop) /\ WF_vars(~sockOpen /\ AcceptFails) /\ WF_vars(AcceptErrorHandled)
  /\ \A c \in Conn :
       /\ WF_vars(HandlerStarts(c)) /\ WF_vars(ClientRejected(c)) /\ WF_vars(ClientReset(c))
       /\ WF_vars(RegisterClient(c)) /\ WF_vars(SetupFails(c)) /\ WF_vars(RegisterBackend(c))
       /\ WF_vars(GreetingReadOnClosed(c)) /\ WF_vars(StartupFails(c)) /\ WF_vars(PipeOnClosed(c))
       /\ WF_vars(RemoveDeferred(c)) /\ WF_vars(CloseDeferred(c))
       /\ WF_vars(ReleaseSlot(c)) /\ WF_vars(HandlerDone(c))

-----------------------------------------------------------------------------
(* "Concurrent connections are capped" (SECURITY.md:45): a slot is held by  *)
(* exactly the handlers that have not given it back, on every way out of    *)
(* handleConnection, and never by more than there are.                      *)
SlotsExact ==
  /\ slots = Cardinality({c \in Conn : conn[c] \in Handling})
  /\ slots <= MaxSlots

(* What Stop waits for: the accept loop and every handler, each counted     *)
(* once (proxy.go:134, 268, 327-329).                                       *)
WaitGroupExact ==
  wg = Cardinality({c \in Conn : conn[c] \in Running})
       + (IF loop \in Looping THEN 1 ELSE 0)

(* Once the server is stopping, the WaitGroup never leaves zero again: the  *)
(* accept loop, itself counted, is the only one that adds (Go forbids an    *)
(* Add from zero that races Wait; proxy.go:213, 327).                       *)
NoAddAfterDrain == [][stopped /\ wg = 0 => wg' = 0]_vars

(* What force-closing can reach: an open socket is in activeConns, except   *)
(* in the short windows between Accept or dialBackend and addActiveConn, or *)
(* between removeActiveConn and Close; and activeConns keeps nothing of a   *)
(* handler that has ended, neither its two sockets nor the TLS connection   *)
(* around the client's (proxy.go:429-435, 484-490, 578-585).                *)
OpenSocketsTracked ==
  /\ \A c \in clientOpen :
       <<c, "client">> \in activeConns \/ conn[c] \in {"accepted", "begin", "closing"}
  /\ \A c \in backendOpen :
       <<c, "backend">> \in activeConns \/ conn[c] \in {"dialed", "closing"}
  /\ \A x \in activeConns : conn[x[1]] \in Handling

(* When Stop has returned nothing of the server is left: no accept loop, no *)
(* handler, no socket, no slot in use, whatever Start, cancellation, late   *)
(* accepts and hang-ups it raced with (proxy.go:189-226).                   *)
QuiescentWhenStopped ==
  stopper = "done" =>
    /\ ~hasListener /\ ~sockOpen /\ loop \notin Looping
    /\ \A c \in Conn : conn[c] \in {"gone", "queued"}
    /\ clientOpen = {} /\ backendOpen = {} /\ activeConns = {}
    /\ slots = 0

(* Stopping the server or cancelling its context ends the accept loop       *)
(* (proxy.go:273-306).                                                      *)
AcceptLoopEnds == stopped \/ cancelled ~> loop \notin Looping

(* "Startup packets have a deadline" (SECURITY.md:45): a client that says   *)
(* nothing, before or after it has asked for TLS, does not hold a slot for  *)
(* ever.  Two things still can, for nothing bounds them: a Git process that *)
(* never answers (proxy.go:437, 449; resolver.go:152, 171) and, for MySQL,  *)
(* a backend that does not greet (proxy.go:495).                            *)
HandshakeEnds ==
  \A c \in Conn :
    conn[c] = "begin" ~>
      \/ conn[c] \in {"piping", "gone"} \cup (IF mysql THEN {"hello"} ELSE {})
      \/ [](conn[c] = "resolving")

(* Stop returns, unless a handler waits for ever for Git, which neither the *)
(* closing of its socket nor a cancelled context ends, or a connection that *)
(* was accepted, but not completely registered, when the drain timeout      *)
(* struck has since got to a read that has no deadline: piping, or the      *)
(* MySQL greeting (proxy.go:217-224, 429, 437, 484, 495).  The sockets are  *)
(* closed once: that one keeps Stop waiting.                                *)
StopReturnsUnlessMissed ==
  stopper = "draining" ~>
    \/ stopper = "done"
    \/ \E c \in missed : conn[c] \in {"piping", "hello"}
    \/ \E c \in Conn : [](conn[c] = "resolving")
=============================================================================
