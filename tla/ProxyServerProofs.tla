------------------------- MODULE ProxyServerProofs -------------------------
(***************************************************************************)
(* ProxyServer for every finite set of connections and every number of      *)
(* slots: the counts are exact, no socket escapes activeConns for longer    *)
(* than a handler's next steps, and nothing is left when Stop has returned. *)
(***************************************************************************)
EXTENDS ProxyServer, FiniteSetTheorems, TLAPS

(* The accept loop is off until Start; a listener is set before it runs,    *)
(* and only Stop, for good, takes the listener away.                        *)
ServerPhases ==
  /\ stopped <=> stopper # "idle"
  /\ stopped => ~hasListener
  /\ loop # "off" => hasListener \/ stopped
  /\ stopper \in {"draining", "forced", "done"} => ~sockOpen

(* The one connection in the loop's hand is the only one accepted.          *)
HandExact ==
  /\ \A c \in Conn : conn[c] = "accepted" <=> c \in inHand
  /\ \A c, d \in inHand : c = d
  /\ inHand # {} => loop = "got"

(* What a handler has registered, by how far it has come; and its removal   *)
(* is always deferred, with the closing after it.                           *)
Registered ==
  /\ \A c \in Conn :
       conn[c] \in Handling \ {"begin", "closing"} => <<c, "client">> \in activeConns
  /\ \A c \in Conn :
       conn[c] \in {"hello", "startup", "encrypted", "piping"} => <<c, "backend">> \in activeConns
  /\ \A c \in Conn, side \in Side :
       /\ <<c, side>> \in activeConns => <<side, "remove">> \in deferred[c]
       /\ <<side, "remove">> \in deferred[c] => <<side, "close">> \in deferred[c]
       /\ <<side, "close">> \in deferred[c] => conn[c] \in Handling \ {"begin"}

(* The sockets of a connection are open between accept, or dial, and the    *)
(* deferred function that closes them at most.                              *)
OpenOnlyWhileHandled ==
  /\ \A c \in clientOpen :
       \/ conn[c] \in {"accepted", "begin"}
       \/ conn[c] \in Handling /\ <<"client", "close">> \in deferred[c]
  /\ \A c \in backendOpen :
       \/ conn[c] = "dialed"
       \/ /\ conn[c] \in {"hello", "startup", "encrypted", "piping", "closing"}
          /\ <<"backend", "close">> \in deferred[c]

(* Stop has returned: the WaitGroup stays at zero.                          *)
DoneIsDrained == stopper = "done" => wg = 0

IInv ==
  /\ TypeOK /\ ServerPhases /\ HandExact /\ Registered /\ OpenOnlyWhileHandled
  /\ SlotsExact /\ WaitGroupExact /\ DoneIsDrained

-----------------------------------------------------------------------------
(* Connections in some phases: there are finitely many, and as many as      *)
(* before a move, but for the one that moves.                               *)
In(phases) == {c \in Conn : conn[c] \in phases}

LEMMA InFinite ==
  ASSUME NEW phases
  PROVE  IsFiniteSet(In(phases)) /\ Cardinality(In(phases)) \in Nat
  BY ConnAssumption, FS_Subset, FS_CardinalityType DEF In

LEMMA MoveCounts ==
  ASSUME TypeOK, NEW phases, NEW c \in Conn, NEW to, conn' = [conn EXCEPT ![c] = to]
  PROVE  /\ conn[c] \in phases /\ to \in phases => In(phases)' = In(phases)
         /\ conn[c] \notin phases /\ to \notin phases => In(phases)' = In(phases)
         /\ conn[c] \notin phases /\ to \in phases =>
              Cardinality(In(phases)') = Cardinality(In(phases)) + 1
         /\ conn[c] \in phases /\ to \notin phases =>
              /\ Cardinality(In(phases)') = Cardinality(In(phases)) - 1
              /\ Cardinality(In(phases)) > 0
  <1>1. \A d \in Conn : conn'[d] = IF d = c THEN to ELSE conn[d]
    BY DEF TypeOK
  <1>2. CASE conn[c] \in phases <=> to \in phases
    BY <1>1, <1>2 DEF In
  <1>3. CASE conn[c] \notin phases /\ to \in phases
    <2>1. In(phases)' = In(phases) \cup {c} /\ c \notin In(phases)
      BY <1>1, <1>3 DEF In
    <2> QED
      BY <1>3, <2>1, InFinite, FS_AddElement
  <1>4. CASE conn[c] \in phases /\ to \notin phases
    <2>1. In(phases)' = In(phases) \ {c} /\ c \in In(phases)
      BY <1>1, <1>4 DEF In
    <2>2. Cardinality(In(phases)) # 0
      BY <2>1, InFinite, FS_EmptySet
    <2> QED
      BY <1>4, <2>1, <2>2, InFinite, FS_RemoveElement
  <1> QED
    BY <1>2, <1>3, <1>4

(* A handler goroutine moves its own connection, within the phases that     *)
(* hold a slot but for its last two steps, and nothing of the server.       *)
LEMMA HandlerMoves ==
  ASSUME TypeOK, NEW c \in Conn, Handler(c)
  PROVE  /\ UNCHANGED <<serverVars, loop, inHand>>
         /\ \E to \in Running \cup {"gone"} :
              /\ conn' = [conn EXCEPT ![c] = to]
              /\ \/ conn[c] \in Handling /\ to \in Handling /\ UNCHANGED <<slots, wg>>
                 \/ conn[c] = "closing" /\ to = "released" /\ slots' = slots - 1 /\ wg' = wg
                 \/ conn[c] = "released" /\ to = "gone" /\ slots' = slots /\ wg' = wg - 1
  <1> USE DEF TypeOK, Handling, Running, Move, handlerFrame, socketVars
  <1>1. conn = [conn EXCEPT ![c] = conn[c]]
    OBVIOUS
  <1>2. CASE SetDeadlineFails(c) \/ RegisterClient(c) \/ BranchResolved(c) \/ ResolveFails(c)
    BY <1>2 DEF SetDeadlineFails, RegisterClient, BranchResolved, ResolveFails
  <1>3. CASE SetupFails(c) \/ DialBackend(c) \/ RegisterBackend(c) \/ GreetingForwarded(c)
             \/ GreetingFails(c)
    BY <1>3 DEF SetupFails, DialBackend, RegisterBackend, GreetingForwarded, GreetingFails
  <1>4. CASE RegisterTLS(c) \/ StartupForwarded(c) \/ StartupFails(c) \/ PipeEnds(c)
    BY <1>4 DEF RegisterTLS, StartupForwarded, StartupFails, PipeEnds
  <1>5. CASE ReleaseSlot(c) \/ HandlerDone(c)
    BY <1>5 DEF ReleaseSlot, HandlerDone
  <1>6. CASE RemoveDeferred(c) \/ CloseDeferred(c)
    BY <1>1, <1>6 DEF RemoveDeferred, CloseDeferred, Due
  <1> QED
    BY <1>2, <1>3, <1>4, <1>5, <1>6 DEF Handler

-----------------------------------------------------------------------------
(* What every action but a handler's leaves alone, action by action; the    *)
(* counts move as their exactness demands.                                  *)
LEMMA NextTypeOK == TypeOK /\ SlotsExact' /\ WaitGroupExact' /\ [Next]_vars => TypeOK'
  <1> SUFFICES ASSUME TypeOK, SlotsExact', WaitGroupExact', [Next]_vars PROVE TypeOK'
    OBVIOUS
  <1>1. slots' \in Nat /\ wg' \in Nat
    <2>1. Cardinality({c \in Conn : conn'[c] \in Handling}) \in Nat
      BY ConnAssumption, FS_Subset, FS_CardinalityType
    <2>2. Cardinality({c \in Conn : conn'[c] \in Running}) \in Nat
      BY ConnAssumption, FS_Subset, FS_CardinalityType
    <2> QED
      BY <2>1, <2>2 DEF SlotsExact, WaitGroupExact
  <1>2. CASE Start \/ Cancel \/ WatcherCloses \/ Stop
    BY <1>1, <1>2 DEF TypeOK, Start, Cancel, WatcherCloses, Stop, StopBegins, StopClosesListener,
       StopForces, StopReturnsNow, socketVars, Looping
  <1>3. CASE LoopTop \/ AcceptFails \/ AcceptErrorHandled
    BY <1>1, <1>3 DEF TypeOK, LoopTop, AcceptFails, AcceptErrorHandled, serverVars, socketVars, Looping
  <1>4. ASSUME NEW c \in Conn, Accept(c) \/ HandlerStarts(c) \/ ClientRejected(c) PROVE TypeOK'
    BY <1>1, <1>4 DEF TypeOK, Accept, HandlerStarts, ClientRejected, serverVars, socketVars, Looping,
       Running, Handling
  <1>5. ASSUME NEW c \in Conn, ClientArrives(c) \/ ClientReset(c) PROVE TypeOK'
    BY <1>1, <1>5 DEF TypeOK, ClientArrives, ClientReset, serverVars, socketVars
  <1>6. ASSUME NEW c \in Conn, Handler(c) PROVE TypeOK'
    <2> USE DEF TypeOK, socketVars
    <2>1. activeConns' \in SUBSET (Conn \X Side)
          /\ deferred' \in [Conn -> SUBSET (Side \X {"remove", "close"})]
      <3>1. CASE UNCHANGED <<activeConns, deferred>>
        BY <3>1
      <3>2. ASSUME NEW side \in Side, Register(c, side)
            PROVE  activeConns' \in SUBSET (Conn \X Side)
                   /\ deferred' \in [Conn -> SUBSET (Side \X {"remove", "close"})]
        BY <3>2 DEF Register
      <3>3. CASE RemoveDeferred(c) \/ CloseDeferred(c)
        <4>1. activeConns' \subseteq activeConns
          BY <3>3 DEF RemoveDeferred, CloseDeferred
        <4>2. \E done : deferred' = [deferred EXCEPT ![c] = @ \ done]
          BY <3>3 DEF RemoveDeferred, CloseDeferred
        <4> QED
          BY <4>1, <4>2
      <3> QED
        BY <1>6, <3>1, <3>2, <3>3 DEF Handler, SetDeadlineFails, RegisterClient, BranchResolved,
           ResolveFails, SetupFails, DialBackend, RegisterBackend, GreetingForwarded, GreetingFails,
           RegisterTLS, StartupForwarded, StartupFails, PipeEnds, ReleaseSlot, HandlerDone, Side
    <2>2. clientOpen' \subseteq clientOpen /\ backendOpen' \subseteq Conn
      BY <1>6 DEF Handler, SetDeadlineFails, RegisterClient, BranchResolved, ResolveFails, SetupFails,
         DialBackend, RegisterBackend, GreetingForwarded, GreetingFails, RegisterTLS, StartupForwarded,
         StartupFails, PipeEnds, RemoveDeferred, CloseDeferred, ReleaseSlot, HandlerDone
    <2> QED
      BY <1>1, <1>6, <2>1, <2>2, HandlerMoves DEF serverVars
  <1>7. CASE UNCHANGED vars
    BY <1>7 DEF TypeOK, vars, serverVars, socketVars
  <1> QED
    BY <1>2, <1>3, <1>4, <1>5, <1>6, <1>7 DEF Next, AcceptLoop

LEMMA NextServerPhases == TypeOK /\ ServerPhases /\ [Next]_vars => ServerPhases'
  <1> SUFFICES ASSUME TypeOK, ServerPhases, [Next]_vars PROVE ServerPhases'
    OBVIOUS
  <1> USE DEF ServerPhases, serverVars, Looping
  <1>1. CASE Start \/ Cancel \/ WatcherCloses \/ Stop
    BY <1>1 DEF Start, Cancel, WatcherCloses, Stop, StopBegins, StopClosesListener, StopForces,
       StopReturnsNow, TypeOK
  <1>2. CASE LoopTop \/ AcceptFails \/ AcceptErrorHandled
    BY <1>2 DEF LoopTop, AcceptFails, AcceptErrorHandled
  <1>3. ASSUME NEW c \in Conn, Accept(c) \/ HandlerStarts(c) \/ ClientRejected(c) PROVE ServerPhases'
    BY <1>3 DEF Accept, HandlerStarts, ClientRejected
  <1>4. ASSUME NEW c \in Conn, ClientArrives(c) \/ ClientReset(c) \/ Handler(c) PROVE ServerPhases'
    BY <1>4, HandlerMoves DEF ClientArrives, ClientReset
  <1>5. CASE UNCHANGED vars
    BY <1>5 DEF vars
  <1> QED
    BY <1>1, <1>2, <1>3, <1>4, <1>5 DEF Next, AcceptLoop

(* A connection is accepted only while the loop waits, and leaves its hand  *)
(* for a handler or for good.                                               *)
LEMMA NextHandExact == TypeOK /\ ServerPhases /\ HandExact /\ [Next]_vars => HandExact'
  <1> SUFFICES ASSUME TypeOK, ServerPhases, HandExact, [Next]_vars PROVE HandExact'
    OBVIOUS
  <1> USE DEF HandExact, TypeOK, Looping, Handling, Running
  <1>1. CASE Start \/ Cancel \/ WatcherCloses \/ Stop
    BY <1>1 DEF Start, Cancel, WatcherCloses, Stop, StopBegins, StopClosesListener, StopForces,
       StopReturnsNow, ServerPhases
  <1>2. CASE LoopTop \/ AcceptFails \/ AcceptErrorHandled
    BY <1>2 DEF LoopTop, AcceptFails, AcceptErrorHandled
  <1>3. ASSUME NEW c \in Conn, Accept(c) \/ HandlerStarts(c) \/ ClientRejected(c) PROVE HandExact'
    BY <1>3 DEF Accept, HandlerStarts, ClientRejected
  <1>4. ASSUME NEW c \in Conn, ClientArrives(c) \/ ClientReset(c) PROVE HandExact'
    BY <1>4 DEF ClientArrives, ClientReset
  <1>5. ASSUME NEW c \in Conn, Handler(c) PROVE HandExact'
    BY <1>5, HandlerMoves
  <1>6. CASE UNCHANGED vars
    BY <1>6 DEF vars
  <1> QED
    BY <1>1, <1>2, <1>3, <1>4, <1>5, <1>6 DEF Next, AcceptLoop

(* A handler registers the client first and the backend after its dial, and *)
(* gives its slot back with nothing registered.                             *)
LEMMA NextRegistered ==
  TypeOK /\ ServerPhases /\ HandExact /\ Registered /\ [Next]_vars => Registered'
  <1> SUFFICES ASSUME TypeOK, HandExact, Registered, [Next]_vars PROVE Registered'
    OBVIOUS
  <1> USE DEF Registered, TypeOK, Handling, Running
  <1>1. CASE Start \/ Cancel \/ WatcherCloses \/ Stop
    BY <1>1 DEF Start, Cancel, WatcherCloses, Stop, StopBegins, StopClosesListener, StopForces,
       StopReturnsNow, socketVars
  <1>2. CASE LoopTop \/ AcceptFails \/ AcceptErrorHandled
    BY <1>2 DEF LoopTop, AcceptFails, AcceptErrorHandled, socketVars
  <1>3. ASSUME NEW c \in Conn, Accept(c) \/ HandlerStarts(c) \/ ClientRejected(c) PROVE Registered'
    BY <1>3 DEF Accept, HandlerStarts, ClientRejected, HandExact, socketVars
  <1>4. ASSUME NEW c \in Conn, ClientArrives(c) \/ ClientReset(c) PROVE Registered'
    BY <1>4 DEF ClientArrives, ClientReset, socketVars
  <1>5. ASSUME NEW c \in Conn, Handler(c) PROVE Registered'
    <2> USE DEF Move, handlerFrame, socketVars, Side
    <2>1. CASE SetDeadlineFails(c) \/ BranchResolved(c) \/ ResolveFails(c) \/ SetupFails(c) \/ DialBackend(c)
      BY <2>1 DEF SetDeadlineFails, BranchResolved, ResolveFails, SetupFails, DialBackend
    <2>2. CASE RegisterClient(c)
      BY <2>2 DEF RegisterClient, Register
    <2>3. CASE RegisterBackend(c)
      BY <2>3 DEF RegisterBackend, Register
    <2>4. CASE RegisterTLS(c)
      BY <2>4 DEF RegisterTLS, Register
    <2>5. CASE GreetingForwarded(c) \/ GreetingFails(c) \/ StartupForwarded(c) \/ StartupFails(c)
               \/ PipeEnds(c)
      BY <2>5 DEF GreetingForwarded, GreetingFails, StartupForwarded, StartupFails, PipeEnds
    <2>6. CASE ReleaseSlot(c) \/ HandlerDone(c)
      BY <2>6 DEF ReleaseSlot, HandlerDone
    <2>7. CASE RemoveDeferred(c)
      BY <2>7 DEF RemoveDeferred, Due
    <2>8. CASE CloseDeferred(c)
      BY <2>8 DEF CloseDeferred, Due
    <2> QED
      BY <1>5, <2>1, <2>2, <2>3, <2>4, <2>5, <2>6, <2>7, <2>8 DEF Handler
  <1>6. CASE UNCHANGED vars
    BY <1>6 DEF vars, socketVars
  <1> QED
    BY <1>1, <1>2, <1>3, <1>4, <1>5, <1>6 DEF Next, AcceptLoop

(* A socket opens with Accept, or the dial, and a handler gives its slot    *)
(* back with both closed.                                                   *)
LEMMA NextOpenOnlyWhileHandled ==
  TypeOK /\ HandExact /\ Registered /\ OpenOnlyWhileHandled /\ [Next]_vars => OpenOnlyWhileHandled'
  <1> SUFFICES ASSUME TypeOK, HandExact, Registered, OpenOnlyWhileHandled, [Next]_vars
               PROVE  OpenOnlyWhileHandled'
    OBVIOUS
  <1> USE DEF OpenOnlyWhileHandled, TypeOK, Handling, Running
  <1>1. CASE Start \/ Cancel \/ WatcherCloses \/ Stop
    BY <1>1 DEF Start, Cancel, WatcherCloses, Stop, StopBegins, StopClosesListener, StopForces,
       StopReturnsNow, socketVars
  <1>2. CASE LoopTop \/ AcceptFails \/ AcceptErrorHandled
    BY <1>2 DEF LoopTop, AcceptFails, AcceptErrorHandled, socketVars
  <1>3. ASSUME NEW c \in Conn, Accept(c) \/ HandlerStarts(c) \/ ClientRejected(c)
        PROVE  OpenOnlyWhileHandled'
    BY <1>3 DEF Accept, HandlerStarts, ClientRejected, HandExact, socketVars
  <1>4. ASSUME NEW c \in Conn, ClientArrives(c) \/ ClientReset(c) PROVE OpenOnlyWhileHandled'
    BY <1>4 DEF ClientArrives, ClientReset, socketVars
  <1>5. ASSUME NEW c \in Conn, Handler(c) PROVE OpenOnlyWhileHandled'
    <2> USE DEF Move, handlerFrame, socketVars, Side
    <2>1. CASE SetDeadlineFails(c) \/ BranchResolved(c) \/ ResolveFails(c) \/ SetupFails(c) \/ DialBackend(c)
      BY <2>1 DEF SetDeadlineFails, BranchResolved, ResolveFails, SetupFails, DialBackend
    <2>2. CASE RegisterClient(c)
      BY <2>2 DEF RegisterClient, Register
    <2>3. CASE RegisterBackend(c)
      BY <2>3 DEF RegisterBackend, Register
    <2>4. CASE RegisterTLS(c)
      BY <2>4 DEF RegisterTLS, Register
    <2>5. CASE GreetingForwarded(c) \/ GreetingFails(c) \/ StartupForwarded(c) \/ StartupFails(c)
               \/ PipeEnds(c)
      BY <2>5 DEF GreetingForwarded, GreetingFails, StartupForwarded, StartupFails, PipeEnds
    <2>6. CASE ReleaseSlot(c) \/ HandlerDone(c)
      BY <2>6 DEF ReleaseSlot, HandlerDone
    <2>7. CASE RemoveDeferred(c)
      BY <2>7 DEF RemoveDeferred, Due
    <2>8. CASE CloseDeferred(c)
      BY <2>8 DEF CloseDeferred, Due
    <2> QED
      BY <1>5, <2>1, <2>2, <2>3, <2>4, <2>5, <2>6, <2>7, <2>8 DEF Handler
  <1>6. CASE UNCHANGED vars
    BY <1>6 DEF vars, socketVars
  <1> QED
    BY <1>1, <1>2, <1>3, <1>4, <1>5, <1>6 DEF Next, AcceptLoop

(* A slot is taken by the loop with the handler it starts, if one is free,  *)
(* and given back by that handler, once.                                    *)
LEMMA NextSlotsExact == TypeOK /\ HandExact /\ SlotsExact /\ [Next]_vars => SlotsExact'
  <1> SUFFICES ASSUME TypeOK, HandExact, SlotsExact, [Next]_vars PROVE SlotsExact'
    OBVIOUS
  <1> DEFINE count == Cardinality(In(Handling))
  <1>1. count \in Nat /\ slots = count /\ slots <= MaxSlots /\ MaxSlots \in Nat
    BY InFinite, SlotAssumption DEF SlotsExact, In
  <1>2. SUFFICES count' = slots' /\ slots' <= MaxSlots
    BY DEF SlotsExact, In
  <1>3. ASSUME slots' = slots, conn' = conn PROVE count' = slots' /\ slots' <= MaxSlots
    BY <1>1, <1>3 DEF In
  <1>4. CASE Start \/ Cancel \/ WatcherCloses \/ Stop
    BY <1>3, <1>4 DEF Start, Cancel, WatcherCloses, Stop, StopBegins, StopClosesListener, StopForces,
       StopReturnsNow
  <1>5. CASE LoopTop \/ AcceptFails \/ AcceptErrorHandled
    BY <1>3, <1>5 DEF LoopTop, AcceptFails, AcceptErrorHandled
  <1>6. ASSUME NEW c \in Conn, Accept(c) \/ ClientRejected(c) \/ ClientArrives(c) \/ ClientReset(c)
        PROVE  count' = slots' /\ slots' <= MaxSlots
    <2>1. PICK to \in {"queued", "gone", "accepted"} : conn' = [conn EXCEPT ![c] = to]
      BY <1>6 DEF Accept, ClientRejected, ClientArrives, ClientReset
    <2>2. conn[c] \notin Handling /\ to \notin Handling /\ slots' = slots
      BY <1>6, <2>1 DEF Accept, ClientRejected, ClientArrives, ClientReset, HandExact, Handling
    <2>3. In(Handling)' = In(Handling)
      BY <2>1, <2>2, MoveCounts
    <2> QED
      BY <1>1, <2>2, <2>3
  <1>7. ASSUME NEW c \in Conn, HandlerStarts(c) PROVE count' = slots' /\ slots' <= MaxSlots
    <2>1. conn' = [conn EXCEPT ![c] = "begin"] /\ conn[c] \notin Handling /\ "begin" \in Handling
      BY <1>7 DEF HandlerStarts, HandExact, Handling
    <2>2. count' = count + 1
      BY <2>1, MoveCounts
    <2> QED
      BY <1>1, <1>7, <2>2 DEF HandlerStarts
  <1>8. ASSUME NEW c \in Conn, Handler(c) PROVE count' = slots' /\ slots' <= MaxSlots
    <2>1. PICK to \in Running \cup {"gone"} :
            /\ conn' = [conn EXCEPT ![c] = to]
            /\ \/ conn[c] \in Handling /\ to \in Handling /\ UNCHANGED <<slots, wg>>
               \/ conn[c] = "closing" /\ to = "released" /\ slots' = slots - 1 /\ wg' = wg
               \/ conn[c] = "released" /\ to = "gone" /\ slots' = slots /\ wg' = wg - 1
      BY <1>8, HandlerMoves
    <2>2. CASE conn[c] = "closing" /\ to = "released" /\ slots' = slots - 1
      <3>1. count' = count - 1
        BY <2>1, <2>2, MoveCounts DEF Handling
      <3> QED
        BY <1>1, <2>2, <3>1
    <2>3. CASE (conn[c] \in Handling <=> to \in Handling) /\ slots' = slots
      <3>1. In(Handling)' = In(Handling)
        BY <2>1, <2>3, MoveCounts
      <3> QED
        BY <1>1, <2>3, <3>1
    <2> QED
      BY <2>1, <2>2, <2>3 DEF Handling
  <1>9. CASE UNCHANGED vars
    BY <1>3, <1>9 DEF vars
  <1> QED
    BY <1>4, <1>5, <1>6, <1>7, <1>8, <1>9 DEF Next, AcceptLoop

(* Start counts the loop, the loop counts each handler before it starts it, *)
(* and each is counted out as it ends.                                      *)
LEMMA NextWaitGroupExact ==
  TypeOK /\ ServerPhases /\ HandExact /\ WaitGroupExact /\ [Next]_vars => WaitGroupExact'
  <1> SUFFICES ASSUME TypeOK, ServerPhases, HandExact, WaitGroupExact, [Next]_vars
               PROVE  WaitGroupExact'
    OBVIOUS
  <1> DEFINE count == Cardinality(In(Running))
             looping == IF loop \in Looping THEN 1 ELSE 0
  <1>1. count \in Nat /\ wg = count + looping
    BY InFinite DEF WaitGroupExact, In
  <1>2. SUFFICES wg' = count' + looping'
    BY DEF WaitGroupExact, In
  <1>3. conn' = conn => count' = count
    BY DEF In
  <1> HIDE DEF count
  <1>4. CASE Start
    BY <1>1, <1>3, <1>4 DEF Start, ServerPhases, Looping
  <1>5. CASE Cancel \/ WatcherCloses \/ Stop \/ UNCHANGED vars
    BY <1>1, <1>3, <1>5 DEF Cancel, WatcherCloses, Stop, StopBegins, StopClosesListener, StopForces,
       StopReturnsNow, vars
  <1>6. CASE LoopTop \/ AcceptFails \/ AcceptErrorHandled
    BY <1>1, <1>3, <1>6 DEF LoopTop, AcceptFails, AcceptErrorHandled, Looping
  <1>7. ASSUME NEW c \in Conn, Accept(c) \/ ClientRejected(c) \/ ClientArrives(c) \/ ClientReset(c)
        PROVE  wg' = count' + looping'
    <2>1. PICK to \in {"queued", "gone", "accepted"} : conn' = [conn EXCEPT ![c] = to]
      BY <1>7 DEF Accept, ClientRejected, ClientArrives, ClientReset
    <2>2. conn[c] \notin Running /\ to \notin Running
      BY <1>7, <2>1 DEF Accept, ClientRejected, ClientArrives, ClientReset, HandExact, Handling, Running
    <2>3. count' = count
      BY <2>1, <2>2, MoveCounts DEF count
    <2>4. wg' = wg /\ (loop' \in Looping <=> loop \in Looping)
      BY <1>7 DEF Accept, ClientRejected, ClientArrives, ClientReset, Looping
    <2> QED
      BY <1>1, <2>3, <2>4
  <1>8. ASSUME NEW c \in Conn, HandlerStarts(c) PROVE wg' = count' + looping'
    <2>1. conn' = [conn EXCEPT ![c] = "begin"] /\ conn[c] \notin Running /\ "begin" \in Running
      BY <1>8 DEF HandlerStarts, HandExact, Handling, Running
    <2>2. count' = count + 1
      BY <2>1, MoveCounts DEF count
    <2> QED
      BY <1>1, <1>8, <2>2 DEF HandlerStarts, Looping
  <1>9. ASSUME NEW c \in Conn, Handler(c) PROVE wg' = count' + looping'
    <2>1. PICK to \in Running \cup {"gone"} :
            /\ conn' = [conn EXCEPT ![c] = to]
            /\ \/ conn[c] \in Handling /\ to \in Handling /\ UNCHANGED <<slots, wg>>
               \/ conn[c] = "closing" /\ to = "released" /\ slots' = slots - 1 /\ wg' = wg
               \/ conn[c] = "released" /\ to = "gone" /\ slots' = slots /\ wg' = wg - 1
      BY <1>9, HandlerMoves
    <2>2. looping' = looping
      BY <1>9, HandlerMoves
    <2>3. CASE conn[c] = "released" /\ to = "gone" /\ wg' = wg - 1
      <3>1. count' = count - 1
        BY <2>1, <2>3, MoveCounts DEF count, Running, Handling
      <3> QED
        BY <1>1, <2>2, <2>3, <3>1
    <2>4. CASE conn[c] \in Running /\ to \in Running /\ wg' = wg
      <3>1. count' = count
        BY <2>1, <2>4, MoveCounts DEF count
      <3> QED
        BY <1>1, <2>2, <2>4, <3>1
    <2> QED
      BY <2>1, <2>3, <2>4 DEF Running, Handling
  <1> QED
    BY <1>4, <1>5, <1>6, <1>7, <1>8, <1>9 DEF Next, AcceptLoop

-----------------------------------------------------------------------------
(* At zero there is no loop and no handler, so that in a stopped server     *)
(* nobody is left who could add.                                            *)
LEMMA NobodyLeft ==
  ASSUME TypeOK, WaitGroupExact, wg = 0
  PROVE  loop \notin Looping /\ \A c \in Conn : conn[c] \notin Running
  <1>1. Cardinality(In(Running)) = 0 /\ loop \notin Looping
    BY InFinite DEF WaitGroupExact, In
  <1>2. In(Running) = {}
    BY <1>1, InFinite, FS_EmptySet
  <1> QED
    BY <1>1, <1>2 DEF In

LEMMA ZeroStays ==
  ASSUME TypeOK, WaitGroupExact, [Next]_vars, stopped, wg = 0
  PROVE  wg' = 0
  <1>1. loop \notin Looping /\ \A c \in Conn : conn[c] \notin Running
    BY NobodyLeft
  <1>2. ~Start
    BY DEF Start
  <1>3. ~AcceptLoop
    BY <1>1 DEF AcceptLoop, LoopTop, AcceptFails, AcceptErrorHandled, Accept, HandlerStarts,
       ClientRejected, Looping
  <1>4. CASE Cancel \/ WatcherCloses \/ Stop
    BY <1>4 DEF Cancel, WatcherCloses, Stop, StopBegins, StopClosesListener, StopForces, StopReturnsNow
  <1>5. ASSUME NEW c \in Conn PROVE ~Handler(c)
    <2>1. conn[c] \in Running \/ ~Handler(c)
      BY HandlerMoves DEF Running, Handling
    <2> QED
      BY <1>1, <2>1
  <1>6. ASSUME NEW c \in Conn, ClientArrives(c) \/ ClientReset(c) PROVE wg' = 0
    BY <1>6 DEF ClientArrives, ClientReset
  <1>7. CASE UNCHANGED vars
    BY <1>7 DEF vars
  <1> QED
    BY <1>2, <1>3, <1>4, <1>5, <1>6, <1>7 DEF Next

LEMMA NextDoneIsDrained ==
  TypeOK /\ ServerPhases /\ WaitGroupExact /\ DoneIsDrained /\ [Next]_vars => DoneIsDrained'
  <1> SUFFICES ASSUME TypeOK, ServerPhases, WaitGroupExact, DoneIsDrained, [Next]_vars,
                      stopper' = "done"
               PROVE  wg' = 0
    BY DEF DoneIsDrained
  <1>1. CASE stopper = "done"
    BY <1>1, ZeroStays DEF DoneIsDrained, ServerPhases
  <1>2. CASE stopper # "done"
    <2>1. stopper' # stopper
      BY <1>2
    <2>2. ASSUME NEW c \in Conn, Handler(c) PROVE FALSE
      BY <2>1, <2>2, HandlerMoves DEF serverVars
    <2>3. StopReturnsNow
      BY <1>2, <2>1, <2>2 DEF Next, Start, Cancel, WatcherCloses, Stop, StopBegins, StopClosesListener,
         StopForces, AcceptLoop, LoopTop, AcceptFails, AcceptErrorHandled, Accept, HandlerStarts,
         ClientRejected, ClientArrives, ClientReset, serverVars, vars
    <2> QED
      BY <2>3 DEF StopReturnsNow
  <1> QED
    BY <1>1, <1>2

LEMMA InitIInv == Init => IInv
  <1> SUFFICES ASSUME Init PROVE IInv
    OBVIOUS
  <1> USE DEF Init
  <1>1. TypeOK /\ ServerPhases /\ DoneIsDrained
    BY DEF TypeOK, ServerPhases, DoneIsDrained
  <1>2. HandExact /\ Registered /\ OpenOnlyWhileHandled
    BY DEF HandExact, Registered, OpenOnlyWhileHandled, Handling
  <1>3. {c \in Conn : conn[c] \in Handling} = {} /\ {c \in Conn : conn[c] \in Running} = {}
    BY DEF Handling, Running
  <1>4. SlotsExact /\ WaitGroupExact
    BY <1>3, FS_EmptySet, SlotAssumption DEF SlotsExact, WaitGroupExact, Looping
  <1> QED
    BY <1>1, <1>2, <1>4 DEF IInv

LEMMA NextIInv == IInv /\ [Next]_vars => IInv'
  <1> SUFFICES ASSUME IInv, [Next]_vars PROVE IInv'
    OBVIOUS
  <1> USE DEF IInv
  <1>1. SlotsExact' /\ WaitGroupExact'
    BY NextSlotsExact, NextWaitGroupExact
  <1>2. TypeOK'
    BY <1>1, NextTypeOK
  <1>3. ServerPhases' /\ HandExact' /\ DoneIsDrained'
    BY NextServerPhases, NextHandExact, NextDoneIsDrained
  <1>4. Registered' /\ OpenOnlyWhileHandled'
    BY NextRegistered, NextOpenOnlyWhileHandled
  <1> QED
    BY <1>1, <1>2, <1>3, <1>4

-----------------------------------------------------------------------------
(* The phases, the counts and the sockets above hold in every state.        *)
THEOREM InductiveInvariant == Spec => []IInv
  BY InitIInv, NextIInv, PTL DEF Spec

(* Slots and WaitGroup are natural numbers, a channel that is never drained *)
(* too far and a counter that never goes negative, which in Go panics.      *)
THEOREM TypeCorrect == Spec => []TypeOK
  <1>1. IInv => TypeOK
    BY DEF IInv
  <1> QED
    BY <1>1, InductiveInvariant, PTL

(* The cap on connections is exact and holds, with any number of slots.     *)
THEOREM Capped == Spec => []SlotsExact
  <1>1. IInv => SlotsExact
    BY DEF IInv
  <1> QED
    BY <1>1, InductiveInvariant, PTL

(* Stop waits for the accept loop and for each handler, and for no more.    *)
THEOREM CountedOnce == Spec => []WaitGroupExact
  <1>1. IInv => WaitGroupExact
    BY DEF IInv
  <1> QED
    BY <1>1, InductiveInvariant, PTL

(* Force-closing reaches every open socket but those of the short windows,  *)
(* and activeConns keeps nothing of a handler that has ended.               *)
THEOREM Tracked == Spec => []OpenSocketsTracked
  <1>1. IInv => OpenSocketsTracked
    <2> SUFFICES ASSUME IInv PROVE OpenSocketsTracked
      OBVIOUS
    <2>1. \A c \in clientOpen :
            <<c, "client">> \in activeConns \/ conn[c] \in {"accepted", "begin", "closing"}
      BY DEF IInv, Registered, OpenOnlyWhileHandled, TypeOK, Handling
    <2>2. \A c \in backendOpen : <<c, "backend">> \in activeConns \/ conn[c] \in {"dialed", "closing"}
      BY DEF IInv, Registered, OpenOnlyWhileHandled, TypeOK
    <2>3. ASSUME NEW x \in activeConns PROVE conn[x[1]] \in Handling
      <3>1. x = <<x[1], x[2]>> /\ x[1] \in Conn /\ x[2] \in Side
        BY <2>3 DEF IInv, TypeOK
      <3>2. <<x[1], x[2]>> \in activeConns
        BY <2>3, <3>1
      <3> QED
        BY <3>1, <3>2 DEF IInv, Registered
    <2> QED
      BY <2>1, <2>2, <2>3 DEF OpenSocketsTracked
  <1> QED
    BY <1>1, InductiveInvariant, PTL

(* Nothing of the server is left when Stop has returned.                    *)
THEOREM Quiescent == Spec => []QuiescentWhenStopped
  <1>1. IInv => QuiescentWhenStopped
    <2> SUFFICES ASSUME IInv, stopper = "done"
                 PROVE  /\ ~hasListener /\ ~sockOpen /\ loop \notin Looping
                        /\ \A c \in Conn : conn[c] \in {"gone", "queued"}
                        /\ clientOpen = {} /\ backendOpen = {} /\ activeConns = {}
                        /\ slots = 0
      BY DEF QuiescentWhenStopped
    <2> USE DEF IInv
    <2>1. ~hasListener /\ ~sockOpen
      BY DEF ServerPhases
    <2>2. loop \notin Looping /\ \A c \in Conn : conn[c] \notin Running
      BY NobodyLeft DEF DoneIsDrained
    <2>3. \A c \in Conn : conn[c] \in {"gone", "queued"}
      BY <2>2 DEF HandExact, Looping, TypeOK
    <2>4. clientOpen = {} /\ backendOpen = {}
      BY <2>3 DEF OpenOnlyWhileHandled, Handling, TypeOK
    <2>5. activeConns = {}
      <3> SUFFICES ASSUME NEW x \in activeConns PROVE FALSE
        OBVIOUS
      <3>1. x = <<x[1], x[2]>> /\ x[1] \in Conn /\ x[2] \in Side
        BY DEF TypeOK
      <3> QED
        BY <2>3, <3>1 DEF Registered, Handling
    <2>6. slots = 0
      <3>1. {c \in Conn : conn[c] \in Handling} = {}
        BY <2>2 DEF Running
      <3> QED
        BY <3>1, FS_EmptySet DEF SlotsExact
    <2> QED
      BY <2>1, <2>2, <2>3, <2>4, <2>5, <2>6
  <1> QED
    BY <1>1, InductiveInvariant, PTL

(* Once the server is stopping, no Add races the Wait that may have seen    *)
(* zero.                                                                    *)
THEOREM NoLateAdd == Spec => NoAddAfterDrain
  <1>1. IInv /\ [Next]_vars => [stopped /\ wg = 0 => wg' = 0]_vars
    BY ZeroStays DEF IInv
  <1> QED
    BY <1>1, InductiveInvariant, PTL DEF Spec, NoAddAfterDrain
=============================================================================
