------------------------ MODULE PlayerRuntimeProofs ------------------------
(***************************************************************************)
(* Proofs about PlayerRuntime for every game, every kind of limit and any  *)
(* number of messages in flight.                                           *)
(***************************************************************************)
EXTENDS PlayerRuntime, SequenceTheorems, TLAPS

-----------------------------------------------------------------------------
(* The inductive invariant: what the two queues hold at every point of the *)
(* two workers.                                                            *)

Sim == Signal("simulation_request")
Req == Signal("move_request")
Rst == Signal("reset_tree")
Turn == Status[rootPos]

(* The tree worker has nothing to do and has said all it had to say. *)
Resting == worker = "pop" /\ tree_indications = <<>> /\ client_responses = <<>>

(* The transport worker acts on the status of the tree's root. *)
OnTurn == transport \in GameStatus /\ transport = Turn /\ Resting

(* A simulation request is queued, being worked off, or done. *)
Searching ==
  /\ client_responses = <<>>
  /\ \/ worker = "pop" /\ tree_indications \in {<<Sim>>, <<>>}
     \/ worker = "simulate" /\ tree_indications = <<>>

BeforeRequest ==
  transport \in {"wait_for_move", "request_move"} /\ Turn = "own_turn" /\ Searching

AfterRequest ==
  /\ transport = "forward_own"
  /\ Turn = "own_turn"
  /\ client_responses = <<>>
  /\ \/ worker = "pop" /\ tree_indications \in {<<Sim, Req>>, <<Req>>}
     \/ worker = "simulate" /\ tree_indications = <<Req>>
     \/ worker = "choose" /\ tree_indications = <<>>

AfterChoice ==
  /\ transport = "forward_own"
  /\ tree_indications = <<>>
  /\ \E m \in Move :
       \/ worker = "reparent" /\ client_responses = <<MoveMessage(m)>> /\ handled = m
       \/ worker = "handle_status" /\ client_responses = <<MoveMessage(m)>>
       \/ worker = "pop" /\ client_responses = <<MoveMessage(m), Signal(Turn)>>

Watching == transport = "receive_move" /\ Turn = "opponent_turn" /\ Searching

AfterWatching ==
  /\ transport = "get_status"
  /\ Turn = "opponent_turn"
  /\ client_responses = <<>>
  /\ \E m \in Move :
       \/ worker = "pop"
          /\ tree_indications \in {<<Sim, MoveMessage(m)>>, <<MoveMessage(m)>>}
       \/ worker = "simulate" /\ tree_indications = <<MoveMessage(m)>>

AfterGame ==
  /\ transport = "get_status"
  /\ Turn = "end_game"
  /\ client_responses = <<>>
  /\ \/ worker = "pop" /\ tree_indications = <<Rst>>
     \/ worker = "reset" /\ tree_indications = <<>>

AwaitingStatus ==
  /\ transport = "get_status"
  /\ tree_indications = <<>>
  /\ \/ worker \in {"handle_status", "reparent"} /\ client_responses = <<>>
     \/ worker = "pop" /\ client_responses = <<Signal(Turn)>>

Protocol ==
  \/ OnTurn \/ BeforeRequest \/ AfterRequest \/ AfterChoice
  \/ Watching \/ AfterWatching \/ AfterGame \/ AwaitingStatus

(* A move that waits to be applied is legal at the root of the tree. *)
UnappliedLegal ==
  /\ worker = "reparent" => handled \in Legal[rootPos]
  /\ Unapplied # NoMove => Unapplied \in Legal[rootPos]

(* There is no second answer on the wire while the next one is made. *)
WireFree ==
  transport \in {"wait_for_move", "request_move", "forward_own"} => toServer = <<>>

GameInv == UnappliedLegal /\ WireFree /\ Agreement /\ AskedOnce /\ VariantsMatch

IInv == TypeOK /\ Protocol /\ GameInv

-----------------------------------------------------------------------------
(* Lemmas on short queues.                                                 *)

(* Queues of one or two messages, their heads and tails. *)
LEMMA ShortQueues ==
  ASSUME NEW a, NEW b
  PROVE  /\ Append(<<>>, a) = <<a>>
         /\ Append(<<a>>, b) = <<a, b>>
         /\ Head(<<a>>) = a
         /\ Head(<<a, b>>) = a
         /\ Tail(<<a>>) = <<>>
         /\ Tail(<<a, b>>) = <<b>>
         /\ <<a>> # <<>>
         /\ <<a, b>> # <<>>
<1>1. Append(<<>>, a) = <<a>>
  OBVIOUS
<1>2. Append(<<a>>, b) = <<a, b>>
  <2>1. /\ <<a>> \in Seq({a, b})
        /\ <<a, b>> \in Seq({a, b})
        /\ Append(<<a>>, b) \in Seq({a, b})
    OBVIOUS
  <2>2. Len(Append(<<a>>, b)) = 2 /\ Len(<<a, b>>) = 2
    OBVIOUS
  <2>3. \A i \in 1..2 : Append(<<a>>, b)[i] = <<a, b>>[i]
    OBVIOUS
  <2> QED BY <2>1, <2>2, <2>3, SeqEqual
<1>3. Head(<<a>>) = a
  OBVIOUS
<1>4. Head(<<a, b>>) = a
  OBVIOUS
<1>5. Tail(<<a>>) = <<>>
  OBVIOUS
<1>6. Tail(<<a, b>>) = <<b>>
  OBVIOUS
<1>7. <<a>> # <<>> /\ <<a, b>> # <<>>
  OBVIOUS
<1> QED BY <1>1, <1>2, <1>3, <1>4, <1>5, <1>6, <1>7

-----------------------------------------------------------------------------
(* Lemmas on message sequences that lead from one position to another.     *)

(* No messages lead nowhere. *)
LEMMA LeadsNowhere ==
  ASSUME NEW p \in Position
  PROVE  \A q : Leads(p, <<>>, q) <=> p = q
<1>1. ASSUME NEW q, Leads(p, <<>>, q) PROVE p = q
  BY <1>1 DEF Leads
<1>2. Leads(p, <<>>, p)
  <2> DEFINE path == [i \in 1..1 |-> p]
  <2>1. /\ path \in [1..(Len(<<>>) + 1) -> Position]
        /\ path[1] = p
        /\ path[Len(<<>>) + 1] = p
        /\ \A i \in 1..Len(<<>>) : FALSE
    OBVIOUS
  <2> QED BY <2>1 DEF Leads
<1> QED BY <1>1, <1>2

(* The first message delivered, the others lead on from there. *)
LEMMA LeadsTail ==
  ASSUME NEW p, NEW q, NEW ms \in Seq(Wire), ms # <<>>, Leads(p, ms, q)
  PROVE  \E r \in Position : Delivers(p, Head(ms), r) /\ Leads(r, Tail(ms), q)
<1>1. PICK path \in [1..(Len(ms) + 1) -> Position] :
        /\ path[1] = p
        /\ path[Len(ms) + 1] = q
        /\ \A i \in 1..Len(ms) : Delivers(path[i], ms[i], path[i + 1])
  BY DEF Leads
<1>2. /\ Len(ms) \in Nat \ {0}
      /\ Head(ms) = ms[1]
      /\ Len(Tail(ms)) = Len(ms) - 1
      /\ \A i \in 1..Len(Tail(ms)) : Tail(ms)[i] = ms[i + 1]
  BY HeadTailProperties
<1> DEFINE rest == [i \in 1..(Len(Tail(ms)) + 1) |-> path[i + 1]]
<1>3. path[2] \in Position /\ Delivers(p, Head(ms), path[2])
  BY <1>1, <1>2
<1>4. Leads(path[2], Tail(ms), q)
  <2>1. rest \in [1..(Len(Tail(ms)) + 1) -> Position]
    BY <1>2
  <2>2. rest[1] = path[2] /\ rest[Len(Tail(ms)) + 1] = q
    BY <1>1, <1>2
  <2>3. ASSUME NEW i \in 1..Len(Tail(ms))
        PROVE  Delivers(rest[i], Tail(ms)[i], rest[i + 1])
    <3>1. i + 1 \in 1..Len(ms) /\ Tail(ms)[i] = ms[i + 1]
      BY <1>2
    <3>2. rest[i] = path[i + 1] /\ rest[i + 1] = path[(i + 1) + 1]
      BY <1>2
    <3> QED BY <1>1, <3>1, <3>2
  <2> QED BY <2>1, <2>2, <2>3 DEF Leads
<1> QED BY <1>3, <1>4

(* One more message leads one step further. *)
LEMMA LeadsAppend ==
  ASSUME NEW p, NEW q, NEW r \in Position, NEW ms \in Seq(Wire), NEW message \in Wire,
         Leads(p, ms, q), Delivers(q, message, r)
  PROVE  Leads(p, Append(ms, message), r)
<1>1. PICK path \in [1..(Len(ms) + 1) -> Position] :
        /\ path[1] = p
        /\ path[Len(ms) + 1] = q
        /\ \A i \in 1..Len(ms) : Delivers(path[i], ms[i], path[i + 1])
  BY DEF Leads
<1> DEFINE longer == Append(ms, message)
           on == [i \in 1..(Len(longer) + 1) |-> IF i <= Len(ms) + 1 THEN path[i] ELSE r]
<1>2. /\ Len(ms) \in Nat
      /\ Len(longer) = Len(ms) + 1
      /\ \A i \in 1..Len(ms) : longer[i] = ms[i]
      /\ longer[Len(ms) + 1] = message
  BY AppendProperties
<1>3. on \in [1..(Len(longer) + 1) -> Position]
  BY <1>2
<1>4. on[1] = p /\ on[Len(longer) + 1] = r
  BY <1>1, <1>2
<1>5. ASSUME NEW i \in 1..Len(longer)
      PROVE  Delivers(on[i], longer[i], on[i + 1])
  <2>1. CASE i \in 1..Len(ms)
    <3>1. on[i] = path[i] /\ on[i + 1] = path[i + 1] /\ longer[i] = ms[i]
      BY <1>2, <2>1
    <3> QED BY <1>1, <2>1, <3>1
  <2>2. CASE i = Len(ms) + 1
    <3>1. on[i] = q /\ on[i + 1] = r /\ longer[i] = message
      BY <1>1, <1>2, <2>2
    <3> QED BY <3>1
  <2> QED BY <1>2, <2>1, <2>2
<1> HIDE DEF longer, on
<1> QED BY <1>3, <1>4, <1>5 DEF Leads, longer

(* Where messages lead is where the last of them leads. *)
LEMMA LeadsLast ==
  ASSUME NEW p, NEW q, NEW ms \in Seq(Wire), ms # <<>>, Leads(p, ms, q)
  PROVE  \E r \in Position : Delivers(r, ms[Len(ms)], q)
<1>1. Len(ms) \in Nat \ {0}
  BY EmptySeq, LenProperties
<1> QED BY <1>1 DEF Leads

-----------------------------------------------------------------------------
(* Type correctness.                                                       *)

USE GameAssumption, VisitsAssumption, RuntimeAssumption

(* Messages of each kind belong to the queues they are sent over. *)
LEMMA MessageTypes ==
  /\ {Sim, Req, Rst} \subseteq Indication
  /\ \A p \in Position : Signal(Status[p]) \in Response
  /\ Signal("limit") \in Wire
  /\ \A m \in Move : MoveMessage(m) \in Indication /\ MoveMessage(m) \in Response
                     /\ MoveMessage(m) \in Wire
BY DEF Sim, Req, Rst, Signal, MoveMessage, Indication, Response, Wire, Messages, GameStatus

(* A move leads to a position, for the game manager as well. *)
LEMMA SettleType ==
  /\ \A p \in Position : Settle(p) \in Position
  /\ \A p \in Position, m \in Move : After[p][m] \in Position
BY DEF Settle

(* What the tree promises is of the right type. *)
LEMMA TreeTypes ==
  ASSUME TreeTypeOK
  PROVE  /\ Simulate => TreeTypeOK'
         /\ \A m \in Move : Reparent(m) => TreeTypeOK'
         /\ Rebuild => TreeTypeOK'
<1>1. Simulate => TreeTypeOK'
  BY DEF Simulate, Saturate, TreeTypeOK
<1>2. ASSUME NEW m \in Move, Reparent(m) PROVE TreeTypeOK'
  <2>1. Kept(rootVisits) \subseteq 0..MaxVisits
    BY DEF Kept
  <2> QED BY <1>2, <2>1 DEF Reparent, TreeTypeOK
<1>3. Rebuild => TreeTypeOK'
  BY DEF Rebuild, TreeTypeOK
<1> QED BY <1>1, <1>2, <1>3

(* The initial state is of the right type, *)
LEMMA TypeInit == Init => TypeOK
<1> SUFFICES ASSUME Init PROVE TypeOK
  OBVIOUS
<1>1. TreeTypeOK
  BY DEF Init, Create, TreeTypeOK
<1>2. asked \in BOOLEAN
  BY DEF Init
<1>3. spent \in 0..(MoveBudget + MaxStates - 1)
  BY DEF Init
<1>4. toClient \in Seq(Wire) /\ toServer \in Seq(Move)
      /\ tree_indications \in Seq(Indication) /\ client_responses \in Seq(Response)
  BY DEF Init
<1> QED BY <1>1, <1>2, <1>3, <1>4 DEF Init, TypeOK, TransportPoints, WorkerPoints, Failures

(* and every step keeps every variable's type. *)
LEMMA TypeStep == TypeOK /\ [Next]_vars => TypeOK'
<1> SUFFICES ASSUME TypeOK, [Next]_vars PROVE TypeOK'
  OBVIOUS
<1> USE DEF TypeOK
<1>1. CASE GetGameStatus
  BY <1>1 DEF GetGameStatus, Response, Messages, Signal, MoveMessage, GameStatus, TransportPoints, Failures,
    serverVars, wireVars, workerVars, treeVars, TreeTypeOK
<1>2. CASE ReceiveLimit
  BY <1>2, MessageTypes DEF ReceiveLimit, Indicate, Sim, TransportPoints,
    serverVars, workerVars, treeVars, TreeTypeOK
<1>3. CASE WaitForMove
  BY <1>3 DEF WaitForMove, TransportPoints,
    serverVars, wireVars, queueVars, workerVars, treeVars, TreeTypeOK
<1>4. CASE RequestMove
  BY <1>4, MessageTypes DEF RequestMove, Indicate, Req, TransportPoints,
    serverVars, wireVars, workerVars, treeVars, TreeTypeOK
<1>5. CASE ForwardOwnMove
  <2>1. client_responses \in Seq(Response) /\ client_responses # <<>>
    BY <1>5 DEF ForwardOwnMove
  <2>2. Head(client_responses) \in Response /\ Tail(client_responses) \in Seq(Response)
    BY <2>1
  <2>3. Head(client_responses).kind = "move" => Head(client_responses).move \in Move
    BY <2>2 DEF Response, Messages, Signal, MoveMessage, GameStatus
  <2>4. client_responses' \in Seq(Response)
    BY <1>5, <2>2 DEF ForwardOwnMove
  <2>5. toServer' \in Seq(Move)
    <3>1. Head(client_responses).move \in Move =>
            Append(toServer, Head(client_responses).move) \in Seq(Move)
      OBVIOUS
    <3> QED BY <1>5, <2>3, <3>1 DEF ForwardOwnMove
  <2>6. transport' \in TransportPoints /\ failure' \in Failures
    BY <1>5 DEF ForwardOwnMove, TransportPoints, Failures
  <2> QED BY <1>5, <2>4, <2>5, <2>6 DEF ForwardOwnMove, serverVars, workerVars, treeVars, TreeTypeOK
<1>6. CASE OpponentTurn
  <2>1. tree_indications' \in Seq(Indication)
    <3>1. Append(tree_indications, Sim) \in Seq(Indication)
      BY MessageTypes
    <3> QED BY <1>6, <3>1 DEF OpponentTurn, Indicate, Sim
  <2> QED BY <1>6, <2>1 DEF OpponentTurn, TransportPoints,
    serverVars, wireVars, workerVars, treeVars, TreeTypeOK
<1>7. CASE ReceiveMove
  <2>1. Head(toClient) \in Wire /\ Tail(toClient) \in Seq(Wire)
    BY <1>7 DEF ReceiveMove
  <2>2. Head(toClient).kind = "move" => Head(toClient) \in Indication
    BY <2>1 DEF Wire, Indication, Messages, Signal, MoveMessage
  <2>3. toClient' \in Seq(Wire) /\ tree_indications' \in Seq(Indication)
    <3>1. Head(toClient) \in Indication =>
            Append(tree_indications, Head(toClient)) \in Seq(Indication)
      OBVIOUS
    <3> QED BY <1>7, <2>1, <2>2, <3>1 DEF ReceiveMove, Indicate
  <2>4. transport' \in TransportPoints /\ failure' \in Failures
    BY <1>7 DEF ReceiveMove, TransportPoints, Failures
  <2> QED BY <1>7, <2>3, <2>4 DEF ReceiveMove, serverVars, workerVars, treeVars, TreeTypeOK
<1>8. CASE EndGame
  BY <1>8, MessageTypes DEF EndGame, Indicate, Rst, TransportPoints,
    serverVars, wireVars, workerVars, treeVars, TreeTypeOK
<1>9. CASE PopIndication
  <2>1. /\ Head(tree_indications) \in Indication
        /\ Tail(tree_indications) \in Seq(Indication)
    BY <1>9 DEF PopIndication
  <2>2. /\ Head(tree_indications).move \in Move \union {NoMove}
        /\ HandlerOf(Head(tree_indications).kind) \in WorkerPoints
    BY <2>1 DEF Indication, Messages, Signal, MoveMessage, HandlerOf, WorkerPoints
  <2> QED BY <1>9, <2>1, <2>2 DEF PopIndication,
    serverVars, wireVars, treeVars, TreeTypeOK
<1>10. CASE FinishSimulations
  BY <1>10 DEF FinishSimulations, WorkerPoints,
    serverVars, wireVars, queueVars, treeVars, TreeTypeOK
<1>11. CASE ChooseBestMove
  <2>1. rootPos \in Position /\ Legal[rootPos] \subseteq Move
    BY DEF TreeTypeOK
  <2>2. client_responses' \in Seq(Response) /\ handled' \in Move \union {NoMove}
    <3>1. ASSUME NEW m \in Legal[rootPos], Respond(MoveMessage(m)), handled' = m
          PROVE  client_responses' \in Seq(Response) /\ handled' \in Move \union {NoMove}
      <4>1. m \in Move /\ MoveMessage(m) \in Response
        BY <2>1, MessageTypes
      <4> QED BY <3>1, <4>1 DEF Respond
    <3> QED BY <1>11, <3>1 DEF ChooseBestMove
  <2> QED BY <1>11, <2>2 DEF ChooseBestMove, WorkerPoints, Failures,
    serverVars, wireVars, treeVars, TreeTypeOK
<1>12. CASE ReparentAlongMove
  <2>1. CASE handled \in Legal[rootPos]
    <3>1. handled \in Move
      BY <2>1 DEF TreeTypeOK
    <3>2. Reparent(handled)
      BY <1>12, <2>1 DEF ReparentAlongMove
    <3>3. TreeTypeOK'
      BY <3>1, <3>2, TreeTypes
    <3> QED BY <1>12, <2>1, <3>3 DEF ReparentAlongMove, WorkerPoints,
      serverVars, wireVars, queueVars
  <2>2. CASE handled \notin Legal[rootPos]
    BY <1>12, <2>2 DEF ReparentAlongMove, Failures,
      serverVars, wireVars, queueVars, treeVars, TreeTypeOK
  <2> QED BY <2>1, <2>2
<1>13. CASE HandleReset
  <2>1. TreeTypeOK'
    BY <1>13, TreeTypes DEF HandleReset
  <2> QED BY <1>13, <2>1 DEF HandleReset, WorkerPoints, serverVars, wireVars, queueVars
<1>14. CASE HandleStatus
  <2>1. client_responses' \in Seq(Response)
    BY <1>14, MessageTypes DEF HandleStatus, Respond, TreeTypeOK
  <2> QED BY <1>14, <2>1 DEF HandleStatus, WorkerPoints,
    serverVars, wireVars, treeVars, TreeTypeOK
<1>15. CASE SimulateOnce
  <2>1. TreeTypeOK'
    BY <1>15, TreeTypes DEF SimulateOnce
  <2>2. spent' \in 0..(MoveBudget + MaxStates - 1)
    BY <1>15 DEF SimulateOnce, StatesVisited
  <2> QED BY <1>15, <2>1, <2>2 DEF SimulateOnce, serverVars, wireVars, queueVars
<1>16. CASE AskPlayer
  <2>1. toClient' \in Seq(Wire) /\ asked' \in BOOLEAN
    BY <1>16, MessageTypes DEF AskPlayer
  <2> QED BY <1>16, <2>1 DEF AskPlayer, queueVars, workerVars, treeVars, TreeTypeOK
<1>17. CASE AcceptMove
  <2>1. Head(toServer) \in Move /\ toServer' \in Seq(Move)
    <3>1. toServer # <<>> => Head(toServer) \in Move /\ Tail(toServer) \in Seq(Move)
      OBVIOUS
    <3> QED BY <1>17, <3>1 DEF AcceptMove
  <2>2. asked' \in BOOLEAN
    BY <1>17 DEF AcceptMove
  <2>3. serverPos' \in Position
    BY <1>17, <2>1, SettleType DEF AcceptMove
  <2> QED BY <1>17, <2>1, <2>2, <2>3 DEF AcceptMove, queueVars, workerVars, treeVars, TreeTypeOK
<1>18. CASE OpponentMove
  <2>1. toClient' \in Seq(Wire) /\ serverPos' \in Position
    BY <1>18, MessageTypes, SettleType DEF OpponentMove
  <2> QED BY <1>18, <2>1 DEF OpponentMove, queueVars, workerVars, treeVars, TreeTypeOK
<1>19. CASE UNCHANGED vars
  BY <1>19 DEF vars, serverVars, wireVars, queueVars, workerVars, treeVars, TreeTypeOK
<1> QED BY <1>1, <1>2, <1>3, <1>4, <1>5, <1>6, <1>7, <1>8, <1>9, <1>10, <1>11, <1>12,
  <1>13, <1>14, <1>15, <1>16, <1>17, <1>18, <1>19 DEF Next, TransportStep, WorkerStep

(* Every variable keeps its type, whatever the threads and the game        *)
(* manager do.                                                             *)
THEOREM TypeCorrect == SafeSpec => []TypeOK
BY TypeInit, TypeStep, PTL DEF SafeSpec

-----------------------------------------------------------------------------
(* The protocol of the two workers.                                        *)

(* The fields of messages, and messages of different kinds. *)
LEMMA MessageFields ==
  /\ \A k : Signal(k).kind = k /\ Signal(k).move = NoMove
  /\ \A m : MoveMessage(m).kind = "move" /\ MoveMessage(m).move = m
BY DEF Signal, MoveMessage

(* The initial state: the tree worker is about to report for the first time. *)
LEMMA ProtocolInit == Init => Protocol
BY DEF Init, Protocol, AwaitingStatus

(* Steps of the transport worker follow the protocol, *)
LEMMA ProtocolTransport == TypeOK /\ Protocol /\ TransportStep => Protocol'
<1> SUFFICES ASSUME TypeOK, Protocol, TransportStep PROVE Protocol'
  OBVIOUS
<1> USE DEF GameStatus, treeVars, workerVars
<1>t. Turn \in GameStatus
  BY DEF TypeOK, TreeTypeOK, Turn
<1>1. CASE GetGameStatus
  <2>1. worker = "pop" /\ tree_indications = <<>> /\ client_responses = <<Signal(Turn)>>
    BY <1>1 DEF GetGameStatus, Protocol, OnTurn, BeforeRequest, AfterRequest, AfterChoice, Watching,
      AfterWatching, AfterGame, AwaitingStatus
  <2>2. Head(client_responses).kind = Turn /\ Tail(client_responses) = <<>>
    BY <2>1, ShortQueues, MessageFields
  <2>3. transport' = Turn /\ client_responses' = <<>>
    BY <1>1, <1>t, <2>2 DEF GetGameStatus
  <2> QED BY <1>1, <1>t, <2>1, <2>3 DEF GetGameStatus, Protocol, OnTurn, Resting, Turn
<1>2. CASE ReceiveLimit
  <2>1. OnTurn
    BY <1>2 DEF ReceiveLimit, Protocol, BeforeRequest, AfterRequest, AfterChoice, Watching,
      AfterWatching, AfterGame, AwaitingStatus
  <2>2. tree_indications' = <<Sim>>
    BY <1>2, <2>1, ShortQueues DEF ReceiveLimit, OnTurn, Resting, Indicate, Sim
  <2>3. BeforeRequest'
    BY <1>2, <2>1, <2>2 DEF ReceiveLimit, OnTurn, Resting, BeforeRequest, Searching, Turn
  <2> QED BY <2>3 DEF Protocol
<1>3. CASE WaitForMove
  <2>1. BeforeRequest
    BY <1>3 DEF WaitForMove, Protocol, OnTurn, AfterRequest, AfterChoice, Watching,
      AfterWatching, AfterGame, AwaitingStatus
  <2>2. BeforeRequest'
    BY <1>3, <2>1 DEF WaitForMove, BeforeRequest, Searching, Turn, queueVars
  <2> QED BY <2>2 DEF Protocol
<1>4. CASE RequestMove
  <2>1. BeforeRequest
    BY <1>4 DEF RequestMove, Protocol, OnTurn, AfterRequest, AfterChoice, Watching,
      AfterWatching, AfterGame, AwaitingStatus
  <2>2. /\ tree_indications = <<Sim>> => tree_indications' = <<Sim, Req>>
        /\ tree_indications = <<>> => tree_indications' = <<Req>>
    BY <1>4, ShortQueues DEF RequestMove, Indicate, Req
  <2>3. AfterRequest'
    BY <1>4, <2>1, <2>2 DEF RequestMove, BeforeRequest, AfterRequest, Searching, Turn
  <2> QED BY <2>3 DEF Protocol
<1>5. CASE ForwardOwnMove
  <2>1. AfterChoice
    BY <1>5 DEF ForwardOwnMove, Protocol, OnTurn, BeforeRequest, AfterRequest, Watching,
      AfterWatching, AfterGame, AwaitingStatus
  <2>2. PICK m \in Move :
          \/ worker = "reparent" /\ client_responses = <<MoveMessage(m)>> /\ handled = m
          \/ worker = "handle_status" /\ client_responses = <<MoveMessage(m)>>
          \/ worker = "pop" /\ client_responses = <<MoveMessage(m), Signal(Turn)>>
    BY <2>1 DEF AfterChoice
  <2>3. Head(client_responses) = MoveMessage(m) /\ Head(client_responses).kind = "move"
    BY <2>2, ShortQueues, MessageFields
  <2>4. transport' = "get_status" /\ UNCHANGED <<worker, tree_indications>>
    BY <1>5, <2>3 DEF ForwardOwnMove
  <2>5. /\ worker = "pop" => client_responses' = <<Signal(Turn)>>
        /\ worker # "pop" => client_responses' = <<>>
    BY <1>5, <2>2, ShortQueues DEF ForwardOwnMove
  <2>6. AwaitingStatus'
    <3>1. Turn' = Turn
      BY <1>5 DEF ForwardOwnMove, Turn
    <3>2. tree_indications' = <<>> /\ worker \in {"reparent", "handle_status", "pop"}
      BY <2>1, <2>2, <2>4 DEF AfterChoice
    <3>3. CASE worker = "pop"
      <4>1. client_responses' = <<Signal(Turn')>> /\ worker' = "pop"
        BY <2>4, <2>5, <3>1, <3>3
      <4> QED BY <2>4, <3>2, <4>1 DEF AwaitingStatus
    <3>4. CASE worker # "pop"
      BY <2>4, <2>5, <3>2, <3>4 DEF AwaitingStatus
    <3> QED BY <3>3, <3>4
  <2> QED BY <2>6 DEF Protocol
<1>6. CASE OpponentTurn
  <2>1. OnTurn /\ Turn = "opponent_turn"
    BY <1>6 DEF OpponentTurn, Protocol, OnTurn, BeforeRequest, AfterRequest, AfterChoice, Watching,
      AfterWatching, AfterGame, AwaitingStatus
  <2>2. tree_indications' = <<Sim>> \/ tree_indications' = <<>>
    BY <1>6, <2>1, ShortQueues DEF OpponentTurn, OnTurn, Resting, Indicate, Sim
  <2>3. Watching'
    BY <1>6, <2>1, <2>2 DEF OpponentTurn, OnTurn, Resting, Watching, Searching, Turn
  <2> QED BY <2>3 DEF Protocol
<1>7. CASE ReceiveMove
  <2>1. Watching
    BY <1>7 DEF ReceiveMove, Protocol, OnTurn, BeforeRequest, AfterRequest, AfterChoice,
      AfterWatching, AfterGame, AwaitingStatus
  <2>2. CASE Head(toClient).kind = "move"
    <3>1. PICK m \in Move : Head(toClient) = MoveMessage(m)
      <4>1. toClient \in Seq(Wire) /\ toClient # <<>>
        BY <1>7 DEF ReceiveMove, TypeOK
      <4>2. Head(toClient) \in Wire
        BY <4>1
      <4> QED BY <2>2, <4>2, MessageFields DEF Wire, Messages
    <3>2. /\ tree_indications = <<Sim>> => tree_indications' = <<Sim, MoveMessage(m)>>
          /\ tree_indications = <<>> => tree_indications' = <<MoveMessage(m)>>
      BY <1>7, <2>2, <3>1, ShortQueues DEF ReceiveMove, Indicate
    <3>3. AfterWatching'
      <4>1. /\ transport' = "get_status" /\ Turn' = "opponent_turn" /\ client_responses' = <<>>
            /\ worker' = worker
        BY <1>7, <2>1, <2>2 DEF ReceiveMove, Watching, Searching, Turn
      <4>2. \/ worker = "pop" /\ tree_indications' \in {<<Sim, MoveMessage(m)>>, <<MoveMessage(m)>>}
            \/ worker = "simulate" /\ tree_indications' = <<MoveMessage(m)>>
        BY <2>1, <3>2 DEF Watching, Searching
      <4> QED BY <4>1, <4>2 DEF AfterWatching, Sim
    <3> QED BY <3>3 DEF Protocol
  <2>3. CASE Head(toClient).kind = "limit"
    <3>1. Watching'
      BY <1>7, <2>1, <2>3 DEF ReceiveMove, Watching, Searching, Turn
    <3> QED BY <3>1 DEF Protocol
  <2> QED BY <1>7, <2>2, <2>3 DEF ReceiveMove
<1>8. CASE EndGame
  <2>1. OnTurn /\ Turn = "end_game"
    BY <1>8 DEF EndGame, Protocol, OnTurn, BeforeRequest, AfterRequest, AfterChoice, Watching,
      AfterWatching, AfterGame, AwaitingStatus
  <2>2. tree_indications' = <<Rst>>
    BY <1>8, <2>1, ShortQueues DEF EndGame, OnTurn, Resting, Indicate, Rst
  <2>3. AfterGame'
    BY <1>8, <2>1, <2>2 DEF EndGame, OnTurn, Resting, AfterGame, Turn
  <2> QED BY <2>3 DEF Protocol
<1> QED BY <1>1, <1>2, <1>3, <1>4, <1>5, <1>6, <1>7, <1>8 DEF TransportStep

(* and so do steps of the tree worker. *)
LEMMA ProtocolWorker == TypeOK /\ Protocol /\ (WorkerStep \/ SimulateOnce) => Protocol'
<1> SUFFICES ASSUME TypeOK, Protocol, WorkerStep \/ SimulateOnce PROVE Protocol'
  OBVIOUS
<1> USE DEF treeVars, serverVars, wireVars, queueVars
<1>t. Turn \in GameStatus
  BY DEF TypeOK, TreeTypeOK, Turn
<1>1. CASE PopIndication
  <2>1. /\ worker = "pop" /\ tree_indications # <<>>
        /\ tree_indications' = Tail(tree_indications)
        /\ worker' = HandlerOf(Head(tree_indications).kind)
        /\ handled' = Head(tree_indications).move
        /\ UNCHANGED <<client_responses, transport, Turn>>
    BY <1>1 DEF PopIndication, Turn
  <2>2. CASE tree_indications = <<Sim>> \/ tree_indications = <<Sim, Req>>
             \/ \E m \in Move : tree_indications = <<Sim, MoveMessage(m)>>
    <3>1. Head(tree_indications) = Sim
      BY <2>2, ShortQueues
    <3>2. worker' = "simulate"
      BY <2>1, <3>1, MessageFields DEF Sim, HandlerOf
    <3>3. CASE tree_indications = <<Sim>>
      <4>1. tree_indications' = <<>>
        BY <2>1, <3>3, ShortQueues
      <4>2. Searching'
        <5>1. client_responses = <<>>
          BY <2>1, <3>3, ShortQueues DEF Protocol, OnTurn, Resting, BeforeRequest, AfterRequest, AfterChoice, Watching, Searching,
            AfterWatching, AfterGame, AwaitingStatus, Sim, Req, Rst, Signal, MoveMessage
        <5> QED BY <2>1, <3>2, <4>1, <5>1 DEF Searching
      <4>3. BeforeRequest \/ Watching
        BY <2>1, <3>3, ShortQueues DEF Protocol, OnTurn, Resting, AfterRequest, AfterChoice,
            AfterWatching, AfterGame, AwaitingStatus, Sim, Req, Rst, Signal, MoveMessage
      <4> QED BY <2>1, <4>2, <4>3 DEF Protocol, BeforeRequest, Watching
    <3>4. CASE tree_indications = <<Sim, Req>>
      <4>1. tree_indications' = <<Req>>
        BY <2>1, <3>4, ShortQueues
      <4>2. AfterRequest
        BY <2>1, <3>4, ShortQueues DEF Protocol, OnTurn, Resting, BeforeRequest, Watching, Searching, AfterChoice,
            AfterWatching, AfterGame, AwaitingStatus, Sim, Req, Rst, Signal, MoveMessage
      <4>3. AfterRequest'
        BY <2>1, <3>2, <4>1, <4>2 DEF AfterRequest
      <4> QED BY <4>3 DEF Protocol
    <3>5. CASE \E m \in Move : tree_indications = <<Sim, MoveMessage(m)>>
      <4>1. PICK m \in Move : tree_indications = <<Sim, MoveMessage(m)>>
        BY <3>5
      <4>2. tree_indications' = <<MoveMessage(m)>>
        BY <2>1, <4>1, ShortQueues
      <4>3. AfterWatching
        BY <2>1, <4>1, ShortQueues DEF Protocol, OnTurn, Resting, BeforeRequest, Watching, Searching, AfterChoice,
            AfterRequest, AfterGame, AwaitingStatus, Sim, Req, Rst, Signal, MoveMessage
      <4>4. AfterWatching'
        BY <2>1, <3>2, <4>2, <4>3 DEF AfterWatching
      <4> QED BY <4>4 DEF Protocol
    <3> QED BY <2>2, <3>3, <3>4, <3>5
  <2>3. CASE tree_indications = <<Req>>
    <3>1. worker' = "choose" /\ tree_indications' = <<>>
      BY <2>1, <2>3, ShortQueues, MessageFields DEF Req, HandlerOf
    <3>2. AfterRequest
      BY <2>1, <2>3, ShortQueues DEF Protocol, OnTurn, Resting, BeforeRequest, Watching, Searching, AfterChoice,
            AfterWatching, AfterGame, AwaitingStatus, Sim, Req, Rst, Signal, MoveMessage
    <3>3. AfterRequest'
      BY <2>1, <3>1, <3>2 DEF AfterRequest
    <3> QED BY <3>3 DEF Protocol
  <2>4. CASE \E m \in Move : tree_indications = <<MoveMessage(m)>>
    <3>1. worker' = "reparent" /\ tree_indications' = <<>>
      BY <2>1, <2>4, ShortQueues, MessageFields DEF HandlerOf
    <3>2. AfterWatching
      BY <2>1, <2>4, ShortQueues DEF Protocol, OnTurn, Resting, BeforeRequest, Watching, Searching, AfterChoice,
            AfterRequest, AfterGame, AwaitingStatus, Sim, Req, Rst, Signal, MoveMessage
    <3>3. AwaitingStatus'
      BY <2>1, <3>1, <3>2 DEF AfterWatching, AwaitingStatus
    <3> QED BY <3>3 DEF Protocol
  <2>5. CASE tree_indications = <<Rst>>
    <3>1. worker' = "reset" /\ tree_indications' = <<>>
      BY <2>1, <2>5, ShortQueues, MessageFields DEF Rst, HandlerOf
    <3>2. AfterGame
      BY <2>1, <2>5, ShortQueues DEF Protocol, OnTurn, Resting, BeforeRequest, Watching, Searching, AfterChoice,
            AfterRequest, AfterWatching, AwaitingStatus, Sim, Req, Rst, Signal, MoveMessage
    <3>3. AfterGame'
      BY <2>1, <3>1, <3>2 DEF AfterGame
    <3> QED BY <3>3 DEF Protocol
  <2>6. \/ tree_indications = <<Sim>> \/ tree_indications = <<Sim, Req>>
        \/ \E m \in Move : tree_indications = <<Sim, MoveMessage(m)>>
        \/ tree_indications = <<Req>>
        \/ \E m \in Move : tree_indications = <<MoveMessage(m)>>
        \/ tree_indications = <<Rst>>
    BY <2>1 DEF Protocol, OnTurn, Resting, BeforeRequest, AfterRequest, AfterChoice, Watching,
      Searching, AfterWatching, AfterGame, AwaitingStatus
  <2> QED BY <2>2, <2>3, <2>4, <2>5, <2>6
<1>2. CASE FinishSimulations
  <2>1. worker = "simulate" /\ worker' = "pop"
        /\ UNCHANGED <<client_responses, transport, Turn, tree_indications>>
    BY <1>2 DEF FinishSimulations, Turn
  <2>2. CASE BeforeRequest
    BY <2>1, <2>2 DEF BeforeRequest, Searching, Protocol
  <2>3. CASE AfterRequest
    <3>1. AfterRequest'
      BY <2>1, <2>3 DEF AfterRequest
    <3> QED BY <3>1 DEF Protocol
  <2>4. CASE Watching
    BY <2>1, <2>4 DEF Watching, Searching, Protocol
  <2>5. CASE AfterWatching
    <3>1. AfterWatching'
      BY <2>1, <2>5 DEF AfterWatching
    <3> QED BY <3>1 DEF Protocol
  <2> QED BY <2>1, <2>2, <2>3, <2>4, <2>5 DEF Protocol, OnTurn, Resting, AfterChoice, AfterGame, AwaitingStatus
<1>3. CASE ChooseBestMove
  <2>1. worker = "choose" /\ AfterRequest /\ client_responses = <<>> /\ tree_indications = <<>>
    BY <1>3 DEF ChooseBestMove, Protocol, OnTurn, Resting, BeforeRequest, AfterRequest, AfterChoice, Watching,
      Searching, AfterWatching, AfterGame, AwaitingStatus
  <2>2. CASE rootVisits > 0
    <3>1. PICK m \in Legal[rootPos] : Respond(MoveMessage(m)) /\ handled' = m
      BY <1>3, <2>2, <1>t DEF ChooseBestMove, TypeOK, TreeTypeOK
    <3>2. m \in Move
      BY DEF TypeOK, TreeTypeOK
    <3>3. client_responses' = <<MoveMessage(m)>>
      BY <2>1, <3>1, ShortQueues DEF Respond
    <3>4. worker' = "reparent" /\ UNCHANGED <<transport, tree_indications>>
      BY <1>3, <2>2 DEF ChooseBestMove, TypeOK, TreeTypeOK
    <3>5. AfterChoice'
      BY <2>1, <3>1, <3>2, <3>3, <3>4 DEF AfterRequest, AfterChoice
    <3> QED BY <3>5 DEF Protocol
  <2>3. CASE rootVisits = 0
    <3>1. AfterRequest'
      BY <1>3, <2>1, <2>3 DEF ChooseBestMove, AfterRequest, Turn
    <3> QED BY <3>1 DEF Protocol
  <2> QED BY <1>3, <2>2, <2>3 DEF ChooseBestMove
<1>4. CASE ReparentAlongMove
  <2>1. CASE handled \in Legal[rootPos]
    <3>1. worker = "reparent" /\ worker' = "handle_status"
          /\ UNCHANGED <<client_responses, transport, tree_indications>>
      BY <1>4, <2>1 DEF ReparentAlongMove
    <3>2. CASE AfterChoice
      <4>1. AfterChoice'
        BY <3>1, <3>2 DEF AfterChoice
      <4> QED BY <4>1 DEF Protocol
    <3>3. CASE AwaitingStatus
      <4>1. AwaitingStatus'
        BY <3>1, <3>3 DEF AwaitingStatus
      <4> QED BY <4>1 DEF Protocol
    <3> QED BY <3>1, <3>2, <3>3 DEF Protocol, OnTurn, Resting, BeforeRequest, AfterRequest, Watching,
      Searching, AfterWatching, AfterGame
  <2>2. CASE handled \notin Legal[rootPos]
    <3>1. UNCHANGED <<worker, handled, client_responses, transport, tree_indications, Turn>>
      BY <1>4, <2>2 DEF ReparentAlongMove, Turn
    <3> QED BY <3>1 DEF Protocol, OnTurn, Resting, BeforeRequest, AfterRequest, AfterChoice, Watching,
      Searching, AfterWatching, AfterGame, AwaitingStatus
  <2> QED BY <2>1, <2>2
<1>5. CASE HandleReset
  <2>1. AfterGame
    BY <1>5 DEF HandleReset, Protocol, OnTurn, Resting, BeforeRequest, AfterRequest, AfterChoice, Watching,
      Searching, AfterWatching, AwaitingStatus
  <2>2. AwaitingStatus'
    BY <1>5, <2>1 DEF HandleReset, AfterGame, AwaitingStatus
  <2> QED BY <2>2 DEF Protocol
<1>6. CASE HandleStatus
  <2>1. worker = "handle_status" /\ worker' = "pop"
        /\ client_responses' = Append(client_responses, Signal(Turn))
        /\ UNCHANGED <<transport, tree_indications, Turn>>
    BY <1>6 DEF HandleStatus, Respond, Turn
  <2>2. CASE AfterChoice
    <3>1. PICK m \in Move : client_responses = <<MoveMessage(m)>>
      BY <2>1, <2>2 DEF AfterChoice
    <3>2. client_responses' = <<MoveMessage(m), Signal(Turn')>>
      BY <2>1, <3>1, ShortQueues
    <3>3. AfterChoice'
      BY <2>1, <2>2, <3>2 DEF AfterChoice
    <3> QED BY <3>3 DEF Protocol
  <2>3. CASE AwaitingStatus
    <3>1. client_responses' = <<Signal(Turn')>>
      BY <2>1, <2>3, ShortQueues DEF AwaitingStatus
    <3>2. AwaitingStatus'
      BY <2>1, <2>3, <3>1 DEF AwaitingStatus
    <3> QED BY <3>2 DEF Protocol
  <2> QED BY <2>1, <2>2, <2>3 DEF Protocol, OnTurn, Resting, BeforeRequest, AfterRequest, Watching,
      Searching, AfterWatching, AfterGame
<1>7. CASE SimulateOnce
  <2>1. UNCHANGED <<worker, handled, client_responses, transport, tree_indications, Turn>>
    BY <1>7 DEF SimulateOnce, Simulate, Turn
  <2> QED BY <2>1 DEF Protocol, OnTurn, Resting, BeforeRequest, AfterRequest, AfterChoice, Watching,
      Searching, AfterWatching, AfterGame, AwaitingStatus
<1> QED BY <1>1, <1>2, <1>3, <1>4, <1>5, <1>6, <1>7 DEF WorkerStep

(* The game manager touches neither worker. *)
LEMMA ProtocolManager ==
  Protocol /\ (AskPlayer \/ AcceptMove \/ OpponentMove \/ UNCHANGED vars) => Protocol'
<1> SUFFICES ASSUME Protocol, AskPlayer \/ AcceptMove \/ OpponentMove \/ UNCHANGED vars
             PROVE  Protocol'
  OBVIOUS
<1>1. UNCHANGED <<worker, handled, client_responses, transport, tree_indications, Turn>>
  BY DEF AskPlayer, AcceptMove, OpponentMove, vars, queueVars, workerVars, treeVars, Turn
<1> QED BY <1>1 DEF Protocol, OnTurn, Resting, BeforeRequest, AfterRequest, AfterChoice, Watching,
      Searching, AfterWatching, AfterGame, AwaitingStatus

(* Every step keeps types and protocol. *)
LEMMA ProtocolStep == TypeOK /\ Protocol /\ [Next]_vars => TypeOK' /\ Protocol'
BY TypeStep, ProtocolTransport, ProtocolWorker, ProtocolManager DEF Next

(* The protocol is followed for ever. *)
LEMMA ProtocolFollowed == SafeSpec => [](TypeOK /\ Protocol)
BY TypeInit, ProtocolInit, ProtocolStep, PTL DEF SafeSpec

(* The two workers take turns: the queues are never both in use and never  *)
(* hold more than two messages.                                            *)
THEOREM WorkersTakeTurns == SafeSpec => []Lockstep
<1>1. TypeOK /\ Protocol => Lockstep
  <2> SUFFICES ASSUME TypeOK, Protocol PROVE Lockstep
    OBVIOUS
  <2>1. ASSUME NEW q, q = <<>> \/ (\E a : q = <<a>>) \/ (\E a, b : q = <<a, b>>)
        PROVE  Len(q) <= 2
    <3>1. CASE q = <<>>
      BY <3>1
    <3>2. CASE \E a : q = <<a>>
      BY <3>2
    <3>3. CASE \E a, b : q = <<a, b>>
      BY <3>3
    <3> QED BY <2>1, <3>1, <3>2, <3>3
  <2>2. /\ \/ tree_indications = <<>>
           \/ \E a : tree_indications = <<a>>
           \/ \E a, b : tree_indications = <<a, b>>
        /\ \/ client_responses = <<>>
           \/ \E a : client_responses = <<a>>
           \/ \E a, b : client_responses = <<a, b>>
        /\ tree_indications = <<>> \/ client_responses = <<>>
    BY DEF Protocol, OnTurn, Resting, BeforeRequest, AfterRequest, AfterChoice, Watching,
      Searching, AfterWatching, AfterGame, AwaitingStatus
  <2> QED BY <2>1, <2>2 DEF Lockstep
<1> QED BY <1>1, ProtocolFollowed, PTL

(* The tree is never searched where play has ended, only asked for a move  *)
(* on our turn and only thrown away at the end of a game.                  *)
THEOREM TreeAskedInTurn == SafeSpec => []TurnDiscipline
<1>1. Protocol => TurnDiscipline
  BY DEF Protocol, OnTurn, Resting, BeforeRequest, AfterRequest, AfterChoice, Watching,
      Searching, AfterWatching, AfterGame, AwaitingStatus, TurnDiscipline, Turn
<1> QED BY <1>1, ProtocolFollowed, PTL

-----------------------------------------------------------------------------
(* The game: the client's view, the messages in between and the manager.   *)

(* Answers are what the two places hold that a chosen move passes through. *)
LEMMA AnswersOnTheWay ==
  ASSUME TypeOK
  PROVE  /\ toServer # <<>> => Head(toServer) \in Answers
         /\ toServer = <<>> /\ client_responses = <<>> => Answers = {}
         /\ \A k \in GameStatus : toServer = <<>> /\ client_responses = <<Signal(k)>> => Answers = {}
<1>1. toServer # <<>> => Head(toServer) \in Move
  BY DEF TypeOK
<1>2. ASSUME NEW k \in GameStatus, NEW m \in Move PROVE Head(<<Signal(k)>>) # MoveMessage(m)
  <2>1. Head(<<Signal(k)>>).kind # MoveMessage(m).kind
    BY ShortQueues, MessageFields DEF GameStatus
  <2> QED BY <2>1
<1> QED BY <1>1, <1>2 DEF Answers

(* Whoever is on turn and has something to read reads the limit, and       *)
(* nothing else; *)
LEMMA ReadsLimit ==
  ASSUME TypeOK, AskedOnce, NEW p \in Position, Status[p] = "own_turn",
         Leads(p, toClient, serverPos), toClient # <<>>
  PROVE  LimitUnread /\ Tail(toClient) = <<>> /\ Head(toClient).kind = "limit" /\ serverPos = p
<1>0. toClient \in Seq(Wire)
  BY DEF TypeOK
<1>1. PICK r \in Position : Delivers(p, Head(toClient), r) /\ Leads(r, Tail(toClient), serverPos)
  BY <1>0, LeadsTail
<1>2. Head(toClient).kind = "limit" /\ r = p
  BY <1>1 DEF Delivers
<1>3. Len(toClient) \in Nat \ {0} /\ Head(toClient) = toClient[1]
  BY <1>0
<1>4. Len(toClient) = 1
  <2>1. toClient[1].kind # "move"
    BY <1>2, <1>3
  <2>2. 1 \notin 1..(Len(toClient) - 1)
    BY <2>1 DEF AskedOnce
  <2>3. ASSUME NEW n \in Nat \ {0}, 1 \notin 1..(n - 1) PROVE n = 1
    BY <2>3
  <2> QED BY <1>3, <2>2, <2>3
<1>5. Tail(toClient) = <<>>
  <2>1. Tail(toClient) \in Seq(Wire) /\ Len(Tail(toClient)) = 0
    BY <1>0, <1>4, HeadTailProperties
  <2>2. \A ms \in Seq(Wire) : ms # <<>> => Len(ms) \in Nat \ {0}
    BY EmptySeq
  <2> QED BY <2>1, <2>2
<1>6. serverPos = p
  <2>1. Leads(p, <<>>, serverPos)
    BY <1>1, <1>2, <1>5
  <2> QED BY <2>1, LeadsNowhere
<1>7. LimitUnread
  <2>1. toClient[Len(toClient)].kind = "limit"
    BY <1>2, <1>3, <1>4
  <2> QED BY <2>1 DEF LimitUnread
<1> QED BY <1>2, <1>5, <1>6, <1>7

(* whoever waits for an opponent reads a legal move. *)
LEMMA ReadsMove ==
  ASSUME TypeOK, NEW p \in Position, Status[p] = "opponent_turn",
         Leads(p, toClient, serverPos), toClient # <<>>
  PROVE  \E m \in Move :
           /\ Head(toClient) = MoveMessage(m)
           /\ m \in Legal[p]
           /\ Leads(Settle(After[p][m]), Tail(toClient), serverPos)
<1>0. toClient \in Seq(Wire)
  BY DEF TypeOK
<1>1. PICK r \in Position : Delivers(p, Head(toClient), r) /\ Leads(r, Tail(toClient), serverPos)
  BY <1>0, LeadsTail
<1>2. /\ Head(toClient).kind = "move"
      /\ Head(toClient).move \in Legal[p]
      /\ r = Settle(After[p][Head(toClient).move])
  BY <1>1 DEF Delivers
<1>3. Head(toClient) \in Wire
  BY <1>0
<1>4. PICK m \in Move : Head(toClient) = MoveMessage(m)
  BY <1>2, <1>3, MessageFields DEF Wire, Messages
<1>5. Head(toClient).move = m
  BY <1>4, MessageFields
<1> QED BY <1>1, <1>2, <1>4, <1>5

(* Between two moves a client sees the position at its root. *)
LEMMA ViewAtRest ==
  ASSUME TypeOK, Unapplied = NoMove
  PROVE  /\ rootPos \in Position
         /\ Turn # "end_game" => ClientView = rootPos
         /\ Turn = "end_game" => ClientView = InitPos
BY DEF TypeOK, TreeTypeOK, ClientView, Settle, Turn

(* On our turn, before we have chosen, nothing is to be read and the game  *)
(* manager waits where we stand.                                           *)
LEMMA WhileThinking ==
  ASSUME TypeOK, GameInv, BeforeRequest \/ AfterRequest
  PROVE  /\ Unapplied = NoMove
         /\ Answers = {}
         /\ Thinking
         /\ asked
         /\ toClient = <<>>
         /\ serverPos = rootPos
<1> USE DEF GameInv
<1>1. Unapplied = NoMove
  <2>1. \A a, b : Len(<<a, b>>) = 2 /\ <<a, b>>[2] = b /\ Len(<<a>>) = 1 /\ <<a>>[1] = a
    OBVIOUS
  <2>2. \/ tree_indications = <<>>
        \/ tree_indications[Len(tree_indications)] \in {Sim, Req}
    <3>1. \/ tree_indications \in {<<>>, <<Sim>>, <<Req>>}
          \/ tree_indications = <<Sim, Req>>
      BY DEF BeforeRequest, AfterRequest, Searching
    <3>2. CASE tree_indications = <<Sim>> \/ tree_indications = <<Req>>
      BY <2>1, <3>2
    <3>3. CASE tree_indications = <<Sim, Req>>
      <4>1. Len(tree_indications) = 2 /\ tree_indications[2] = Req
        BY <2>1, <3>3
      <4> QED BY <4>1
    <3> QED BY <3>1, <3>2, <3>3
  <2>3. worker # "reparent"
    BY DEF BeforeRequest, AfterRequest, Searching
  <2>4. Sim.move = NoMove /\ Req.move = NoMove
    BY MessageFields DEF Sim, Req
  <2>5. tree_indications # <<>> => tree_indications[Len(tree_indications)].move = NoMove
    BY <2>2, <2>4
  <2> QED BY <2>3, <2>5 DEF Unapplied
<1>2. Answers = {}
  BY AnswersOnTheWay DEF WireFree, BeforeRequest, AfterRequest, Searching
<1>3. Thinking
  BY <1>2 DEF Thinking, BeforeRequest, AfterRequest
<1>4. Turn = "own_turn"
  BY DEF BeforeRequest, AfterRequest
<1>5. Leads(rootPos, toClient, serverPos)
  BY <1>1, <1>2, <1>4, ViewAtRest DEF Agreement
<1>6. toClient = <<>>
  BY <1>1, <1>3, <1>4, <1>5, ViewAtRest, ReadsLimit DEF AskedOnce, Turn
<1>7. serverPos = rootPos
  BY <1>1, <1>5, <1>6, ViewAtRest, LeadsNowhere
<1> QED BY <1>1, <1>2, <1>3, <1>6, <1>7 DEF AskedOnce

(* Steps that neither side of the game notices. *)
LEMMA Unnoticed ==
  /\ Agreement /\ AskedOnce
  /\ ClientView' = ClientView /\ Answers' = Answers
  /\ Len(toServer') <= 1
  /\ UNCHANGED <<toClient, serverPos, asked>>
  /\ Thinking' <=> Thinking
  => Agreement' /\ AskedOnce'
BY DEF Agreement, AskedOnce, LimitUnread

(* The last message of a short queue. *)
LEMMA LastMessage ==
  ASSUME NEW a, NEW b
  PROVE  <<a>>[Len(<<a>>)] = a /\ <<a, b>>[Len(<<a, b>>)] = b
OBVIOUS

(* Requests carry no move. *)
LEMMA RequestsCarryNoMove == Sim.move = NoMove /\ Req.move = NoMove /\ Rst.move = NoMove
BY MessageFields DEF Sim, Req, Rst

(* At the start client and game manager agree. *)
LEMMA GameInit == Init => GameInv
<1> SUFFICES ASSUME Init PROVE GameInv
  OBVIOUS
<1>0. TypeOK
  BY TypeInit
<1>1. Unapplied = NoMove /\ worker = "handle_status"
  BY DEF Init, Unapplied
<1>2. Answers = {}
  BY <1>0, AnswersOnTheWay DEF Init
<1>3. ClientView = InitPos
  BY <1>0, <1>1, ViewAtRest DEF Init, Create, Turn
<1>4. Leads(ClientView, toClient, serverPos)
  BY <1>3, LeadsNowhere DEF Init
<1>5. AskedOnce
  <2>1. ~asked /\ ~LimitUnread /\ ~Thinking /\ Len(toServer) = 0 /\ Len(toClient) = 0
    BY DEF Init, LimitUnread, Thinking
  <2> QED BY <1>2, <2>1 DEF AskedOnce
<1>6. UnappliedLegal /\ WireFree /\ VariantsMatch
  BY <1>1 DEF Init, UnappliedLegal, WireFree, VariantsMatch
<1> QED BY <1>2, <1>4, <1>5, <1>6 DEF GameInv, Agreement

(* Steps of the transport worker keep client and game manager in one game. *)
LEMMA GameTransport ==
  TypeOK /\ TypeOK' /\ Protocol /\ GameInv /\ TransportStep => GameInv'
<1> SUFFICES ASSUME TypeOK, TypeOK', Protocol, GameInv, TransportStep PROVE GameInv'
  OBVIOUS
<1> USE DEF GameInv
<1>s. Len(toServer) <= 1
  BY DEF AskedOnce
<1>1. CASE GetGameStatus
  <2> USE <1>1 DEF GetGameStatus, serverVars, wireVars, workerVars, treeVars
  <2>1. worker = "pop" /\ client_responses = <<Signal(Turn)>> /\ Turn \in GameStatus
    BY DEF Protocol, OnTurn, BeforeRequest, AfterRequest, AfterChoice, Watching,
      AfterWatching, AfterGame, AwaitingStatus, TypeOK, TreeTypeOK, Turn, GameStatus
  <2>2. Head(client_responses).kind = Turn /\ client_responses' = <<>>
    BY <2>1, ShortQueues, MessageFields
  <2>3. transport' \in GameStatus /\ UNCHANGED failure
    BY <2>1, <2>2 DEF GameStatus
  <2>4. Answers' = Answers
    <3>1. \A m \in Move : Head(<<Signal(Turn)>>) # MoveMessage(m)
      <4>1. Signal(Turn).kind # "move"
        BY <2>1, MessageFields DEF GameStatus
      <4> QED BY <4>1, ShortQueues, MessageFields
    <3> QED BY <2>1, <2>2, <3>1 DEF Answers
  <2>5. ClientView' = ClientView /\ Unapplied' = Unapplied
    BY DEF ClientView, Unapplied
  <2>6. ~Thinking /\ ~Thinking'
    BY <2>3 DEF Thinking, GameStatus
  <2>7. UnappliedLegal' /\ WireFree' /\ VariantsMatch'
    BY <2>3, <2>5 DEF UnappliedLegal, WireFree, VariantsMatch, GameStatus
  <2> QED BY <1>s, <2>4, <2>5, <2>6, <2>7, Unnoticed
<1>2. CASE ReceiveLimit
  <2> USE <1>2 DEF ReceiveLimit, serverVars, workerVars, treeVars
  <2>1. OnTurn /\ Turn = "own_turn"
    BY DEF Protocol, OnTurn, BeforeRequest, AfterRequest, AfterChoice, Watching,
      AfterWatching, AfterGame, AwaitingStatus
  <2>2. tree_indications = <<>> /\ tree_indications' = <<Sim>> /\ worker = "pop"
        /\ client_responses = <<>>
    BY <2>1, ShortQueues DEF OnTurn, Resting, Indicate, Sim
  <2>3. Unapplied = NoMove /\ Unapplied' = NoMove
    <3>1. tree_indications'[Len(tree_indications')] = Sim /\ tree_indications' # <<>>
      BY <2>2, LastMessage, ShortQueues
    <3> QED BY <2>2, <3>1, RequestsCarryNoMove DEF Unapplied
  <2>4. ClientView = rootPos /\ ClientView' = rootPos /\ rootPos \in Position
    BY <2>1, <2>3, ViewAtRest DEF ClientView
  <2>5. Answers = {} /\ Leads(rootPos, toClient, serverPos)
    BY <2>4 DEF Agreement
  <2>6. LimitUnread /\ toClient' = <<>> /\ serverPos = rootPos
    BY <2>1, <2>4, <2>5, ReadsLimit DEF Turn
  <2>7. toServer = <<>>
    BY <2>5, AnswersOnTheWay
  <2>8. Answers' = {}
    BY <2>5 DEF Answers
  <2>9. Thinking'
    BY <2>8 DEF Thinking
  <2>10. Agreement'
    <3>1. Leads(rootPos, <<>>, serverPos)
      BY <2>4, <2>6, LeadsNowhere
    <3> QED BY <2>4, <2>6, <2>8, <3>1 DEF Agreement
  <2>11. AskedOnce'
    <3>1. asked' /\ ~LimitUnread' /\ Len(toServer') <= 1 /\ Len(toClient') = 0
      BY <1>s, <2>6 DEF AskedOnce, LimitUnread
    <3>2. asked'
      BY <3>1
    <3> QED BY <2>8, <2>9, <3>1, <3>2 DEF AskedOnce
  <2>12. UnappliedLegal' /\ WireFree' /\ VariantsMatch'
    BY <2>2, <2>3, <2>7 DEF UnappliedLegal, WireFree, VariantsMatch
  <2> QED BY <2>10, <2>11, <2>12
<1>3. CASE WaitForMove
  <2> USE <1>3 DEF WaitForMove, serverVars, wireVars, queueVars, workerVars, treeVars
  <2>1. Answers' = Answers /\ ClientView' = ClientView /\ Unapplied' = Unapplied
    BY DEF Answers, ClientView, Unapplied
  <2>2. Thinking' <=> Thinking
    BY <2>1 DEF Thinking
  <2>3. UnappliedLegal' /\ WireFree' /\ VariantsMatch'
    BY <2>1 DEF UnappliedLegal, WireFree, VariantsMatch
  <2> QED BY <1>s, <2>1, <2>2, <2>3, Unnoticed
<1>4. CASE RequestMove
  <2> USE <1>4 DEF RequestMove, serverVars, wireVars, workerVars, treeVars
  <2>1. BeforeRequest
    BY DEF Protocol, OnTurn, AfterRequest, AfterChoice, Watching,
      AfterWatching, AfterGame, AwaitingStatus, GameStatus
  <2>2. tree_indications' = <<Sim, Req>> \/ tree_indications' = <<Req>>
    BY <2>1, ShortQueues DEF BeforeRequest, Searching, Indicate, Req
  <2>3. worker # "reparent"
    BY <2>1 DEF BeforeRequest, Searching
  <2>4. Unapplied = NoMove
    BY <2>1, WhileThinking
  <2>5. Unapplied' = NoMove
    <3>1. tree_indications'[Len(tree_indications')] = Req /\ tree_indications' # <<>>
      <4>1. CASE tree_indications' = <<Sim, Req>>
        BY <4>1, LastMessage, ShortQueues
      <4>2. CASE tree_indications' = <<Req>>
        BY <4>2, LastMessage, ShortQueues
      <4> QED BY <2>2, <4>1, <4>2
    <3> QED BY <2>3, <3>1, RequestsCarryNoMove DEF Unapplied
  <2>6. Answers' = Answers /\ ClientView' = ClientView
    BY <2>4, <2>5 DEF Answers, ClientView
  <2>7. Thinking' <=> Thinking
    BY <2>6 DEF Thinking
  <2>8. UnappliedLegal' /\ WireFree' /\ VariantsMatch'
    BY <2>3, <2>5 DEF UnappliedLegal, WireFree, VariantsMatch
  <2> QED BY <1>s, <2>6, <2>7, <2>8, Unnoticed
<1>5. CASE ForwardOwnMove
  <2> USE <1>5 DEF ForwardOwnMove, serverVars, workerVars, treeVars
  <2>1. AfterChoice
    BY DEF Protocol, OnTurn, BeforeRequest, AfterRequest, Watching,
      AfterWatching, AfterGame, AwaitingStatus, GameStatus
  <2>2. PICK m \in Move :
          client_responses = <<MoveMessage(m)>> \/ client_responses = <<MoveMessage(m), Signal(Turn)>>
    BY <2>1 DEF AfterChoice
  <2>3. Head(client_responses) = MoveMessage(m)
    BY <2>2, ShortQueues
  <2>4. Head(client_responses).kind = "move" /\ Head(client_responses).move = m
    BY <2>3, MessageFields
  <2>5. toServer = <<>>
    BY <2>1 DEF WireFree, AfterChoice
  <2>6. toServer' = <<m>> /\ transport' = "get_status" /\ UNCHANGED failure
    BY <2>4, <2>5, ShortQueues
  <2>7. client_responses' = <<>> \/ client_responses' = <<Signal(Turn)>>
    BY <2>2, ShortQueues
  <2>8. Answers = {m}
    <3>1. ASSUME NEW x \in Move, MoveMessage(m) = MoveMessage(x) PROVE x = m
      <4>1. MoveMessage(m).move = m /\ MoveMessage(x).move = x
        BY MessageFields
      <4> QED BY <3>1, <4>1
    <3> QED BY <2>3, <2>5, <3>1 DEF Answers
  <2>9. Answers' = {m}
    <3>1. toServer' # <<>> /\ Head(toServer') = m
      BY <2>6, ShortQueues
    <3>2. \A x \in Move : Head(<<Signal(Turn)>>) # MoveMessage(x)
      <4>1. Turn \in GameStatus
        BY DEF TypeOK, TreeTypeOK, Turn
      <4>2. Signal(Turn).kind # "move"
        BY <4>1, MessageFields DEF GameStatus
      <4> QED BY <4>2, ShortQueues, MessageFields
    <3> QED BY <2>7, <3>1, <3>2 DEF Answers
  <2>10. ClientView' = ClientView /\ Unapplied' = Unapplied
    BY DEF ClientView, Unapplied
  <2>11. ~Thinking /\ ~Thinking'
    BY <2>8, <2>9 DEF Thinking
  <2>12. Len(toServer') <= 1
    BY <2>6
  <2>13. UnappliedLegal' /\ WireFree' /\ VariantsMatch'
    BY <2>6, <2>10 DEF UnappliedLegal, WireFree, VariantsMatch
  <2> QED BY <2>8, <2>9, <2>10, <2>11, <2>12, <2>13, Unnoticed
<1>6. CASE OpponentTurn
  <2> USE <1>6 DEF OpponentTurn, serverVars, wireVars, workerVars, treeVars
  <2>1. OnTurn
    BY DEF Protocol, OnTurn, BeforeRequest, AfterRequest, AfterChoice, Watching,
      AfterWatching, AfterGame, AwaitingStatus
  <2>2. worker = "pop" /\ tree_indications = <<>>
        /\ (tree_indications' = <<Sim>> \/ tree_indications' = <<>>)
    BY <2>1, ShortQueues DEF OnTurn, Resting, Indicate, Sim
  <2>3. Unapplied = NoMove
    BY <2>2 DEF Unapplied
  <2>4. Unapplied' = NoMove
    <3>1. CASE tree_indications' = <<Sim>>
      <4>1. tree_indications'[Len(tree_indications')] = Sim
        BY <3>1, LastMessage
      <4> QED BY <2>2, <4>1, RequestsCarryNoMove DEF Unapplied
    <3>2. CASE tree_indications' = <<>>
      BY <2>2, <3>2 DEF Unapplied
    <3> QED BY <2>2, <3>1, <3>2
  <2>5. Answers' = Answers /\ ClientView' = ClientView
    BY <2>3, <2>4 DEF Answers, ClientView
  <2>6. ~Thinking /\ ~Thinking'
    BY DEF Thinking
  <2>7. UnappliedLegal' /\ WireFree' /\ VariantsMatch'
    BY <2>2, <2>4 DEF UnappliedLegal, WireFree, VariantsMatch
  <2> QED BY <1>s, <2>5, <2>6, <2>7, Unnoticed
<1>7. CASE ReceiveMove
  <2> USE <1>7 DEF ReceiveMove, serverVars, workerVars, treeVars
  <2>0. toClient \in Seq(Wire) /\ toClient # <<>>
    BY DEF TypeOK
  <2>1. Watching
    BY DEF Protocol, OnTurn, BeforeRequest, AfterRequest, AfterChoice,
      AfterWatching, AfterGame, AwaitingStatus, GameStatus
  <2>2. tree_indications \in {<<Sim>>, <<>>} /\ worker # "reparent" /\ Turn = "opponent_turn"
    BY <2>1 DEF Watching, Searching
  <2>3. Unapplied = NoMove
    <3>1. CASE tree_indications = <<Sim>>
      <4>1. tree_indications[Len(tree_indications)] = Sim
        BY <3>1, LastMessage
      <4> QED BY <2>2, <4>1, RequestsCarryNoMove DEF Unapplied
    <3>2. CASE tree_indications = <<>>
      BY <2>2, <3>2 DEF Unapplied
    <3> QED BY <2>2, <3>1, <3>2
  <2>4. ClientView = rootPos /\ rootPos \in Position
    BY <2>2, <2>3, ViewAtRest
  <2>5. Answers = {} /\ Leads(rootPos, toClient, serverPos)
    BY <2>0, <2>4 DEF Agreement
  <2>6. PICK m \in Move :
          /\ Head(toClient) = MoveMessage(m)
          /\ m \in Legal[rootPos]
          /\ Leads(Settle(After[rootPos][m]), Tail(toClient), serverPos)
    BY <2>0, <2>2, <2>4, <2>5, ReadsMove DEF Turn
  <2>7. Head(toClient).kind = "move"
    BY <2>6, MessageFields
  <2>8. /\ tree_indications' \in {<<Sim, MoveMessage(m)>>, <<MoveMessage(m)>>}
        /\ transport' = "get_status"
        /\ UNCHANGED failure
    BY <2>2, <2>6, <2>7, ShortQueues DEF Indicate
  <2>9. Unapplied' = m
    <3>1. tree_indications'[Len(tree_indications')] = MoveMessage(m) /\ tree_indications' # <<>>
      <4>1. CASE tree_indications' = <<Sim, MoveMessage(m)>>
        BY <4>1, LastMessage, ShortQueues
      <4>2. CASE tree_indications' = <<MoveMessage(m)>>
        BY <4>2, LastMessage, ShortQueues
      <4> QED BY <2>8, <4>1, <4>2
    <3> QED BY <2>2, <3>1, MessageFields DEF Unapplied
  <2>10. ClientView' = Settle(After[rootPos][m])
    BY <2>9 DEF ClientView
  <2>11. Answers' = {}
    BY <2>5 DEF Answers
  <2>12. Agreement'
    BY <2>6, <2>10, <2>11 DEF Agreement
  <2>13. AskedOnce'
    <3>1. ~Thinking /\ ~Thinking'
      BY <2>8 DEF Thinking
    <3>2. /\ Len(toClient) \in Nat \ {0}
          /\ Len(toClient') = Len(toClient) - 1
          /\ \A i \in 1..Len(toClient') : toClient'[i] = toClient[i + 1]
          /\ Head(toClient) = toClient[1]
          /\ toClient' \in Seq(Wire)
      BY <2>0, HeadTailProperties
    <3>3. LimitUnread' <=> LimitUnread
      <4>1. CASE Len(toClient) = 1
        <5>1. toClient[Len(toClient)].kind # "limit"
          BY <2>7, <3>2, <4>1
        <5>2. toClient' = <<>>
          <6>1. \A ms \in Seq(Wire) : ms # <<>> => Len(ms) \in Nat \ {0}
            BY EmptySeq
          <6> QED BY <3>2, <4>1, <6>1
        <5> QED BY <5>1, <5>2 DEF LimitUnread
      <4>2. CASE Len(toClient) # 1
        <5>1. Len(toClient') \in 1..Len(toClient')
          BY <3>2, <4>2
        <5>2. toClient'[Len(toClient')] = toClient[Len(toClient)]
          <6>1. toClient'[Len(toClient')] = toClient[Len(toClient') + 1]
            BY <3>2, <5>1
          <6>2. Len(toClient') + 1 = Len(toClient)
            BY <3>2
          <6> QED BY <6>1, <6>2
        <5>3. toClient' # <<>>
          <6>1. Len(toClient') # 0
            BY <3>2, <4>2
          <6>2. ASSUME toClient' = <<>> PROVE Len(toClient') = 0
            <7>1. Len(<<>>) = 0
              BY EmptySeq
            <7> QED BY <6>2, <7>1
          <6> QED BY <6>1, <6>2
        <5> QED BY <2>0, <5>2, <5>3 DEF LimitUnread
      <4> QED BY <4>1, <4>2
    <3>4. \A i \in 1..(Len(toClient') - 1) : toClient'[i].kind = "move"
      <4>1. ASSUME NEW i \in 1..(Len(toClient') - 1) PROVE toClient'[i].kind = "move"
        <5>1. i \in 1..Len(toClient') /\ i + 1 \in 1..(Len(toClient) - 1)
          BY <3>2
        <5>2. toClient[i + 1].kind = "move"
          BY <5>1 DEF AskedOnce
        <5> QED BY <3>2, <5>1, <5>2
      <4> QED BY <4>1
    <3>5. asked' = asked /\ toServer' = toServer /\ serverPos' = serverPos
      OBVIOUS
    <3> QED BY <1>s, <2>5, <2>11, <3>1, <3>3, <3>4, <3>5 DEF AskedOnce
  <2>14. UnappliedLegal' /\ WireFree' /\ VariantsMatch'
    BY <2>2, <2>6, <2>8, <2>9 DEF UnappliedLegal, WireFree, VariantsMatch
  <2> QED BY <2>12, <2>13, <2>14
<1>8. CASE EndGame
  <2> USE <1>8 DEF EndGame, serverVars, wireVars, workerVars, treeVars
  <2>1. OnTurn
    BY DEF Protocol, OnTurn, BeforeRequest, AfterRequest, AfterChoice, Watching,
      AfterWatching, AfterGame, AwaitingStatus
  <2>2. worker = "pop" /\ tree_indications = <<>> /\ tree_indications' = <<Rst>>
    BY <2>1, ShortQueues DEF OnTurn, Resting, Indicate, Rst
  <2>3. Unapplied = NoMove
    BY <2>2 DEF Unapplied
  <2>4. Unapplied' = NoMove
    <3>1. tree_indications'[Len(tree_indications')] = Rst /\ tree_indications' # <<>>
      BY <2>2, LastMessage, ShortQueues
    <3> QED BY <2>2, <3>1, RequestsCarryNoMove DEF Unapplied
  <2>5. Answers' = Answers /\ ClientView' = ClientView
    BY <2>3, <2>4 DEF Answers, ClientView
  <2>6. ~Thinking /\ ~Thinking'
    BY DEF Thinking
  <2>7. UnappliedLegal' /\ WireFree' /\ VariantsMatch'
    BY <2>2, <2>4 DEF UnappliedLegal, WireFree, VariantsMatch
  <2> QED BY <1>s, <2>5, <2>6, <2>7, Unnoticed
<1> QED BY <1>1, <1>2, <1>3, <1>4, <1>5, <1>6, <1>7, <1>8 DEF TransportStep

(* Steps of the tree worker do so too: *)
LEMMA GameWorker ==
  TypeOK /\ Protocol /\ GameInv /\ (WorkerStep \/ SimulateOnce) => GameInv'
<1> SUFFICES ASSUME TypeOK, Protocol, GameInv, WorkerStep \/ SimulateOnce PROVE GameInv'
  OBVIOUS
<1> USE DEF GameInv
<1>s. Len(toServer) <= 1
  BY DEF AskedOnce
<1>q. UnappliedLegal => handled # NoMove \/ worker # "reparent"
  BY DEF UnappliedLegal, TypeOK, TreeTypeOK
<1>1. CASE PopIndication
  <2> USE <1>1 DEF PopIndication, serverVars, wireVars, treeVars
  <2>1. \/ tree_indications = <<Sim>> \/ tree_indications = <<Sim, Req>>
        \/ \E m \in Move : tree_indications = <<Sim, MoveMessage(m)>>
        \/ tree_indications = <<Req>>
        \/ \E m \in Move : tree_indications = <<MoveMessage(m)>>
        \/ tree_indications = <<Rst>>
    BY DEF Protocol, OnTurn, Resting, BeforeRequest, AfterRequest, AfterChoice, Watching,
      Searching, AfterWatching, AfterGame, AwaitingStatus
  <2>2. /\ tree_indications = <<Sim>> => worker' = "simulate"
        /\ tree_indications = <<Req>> => worker' = "choose"
        /\ tree_indications = <<Rst>> => worker' = "reset"
        /\ \A m : tree_indications = <<MoveMessage(m)>> => worker' = "reparent" /\ handled' = m
        /\ \A a : tree_indications = <<Sim, a>> => worker' = "simulate"
    BY ShortQueues, MessageFields DEF HandlerOf, Sim, Req, Rst
  <2>3. Unapplied' = Unapplied
    <3>1. CASE \E a : tree_indications = <<Sim, a>>
      <4>1. PICK a : tree_indications = <<Sim, a>>
        BY <3>1
      <4>2. tree_indications' = <<a>> /\ worker' = "simulate"
        BY <2>2, <4>1, ShortQueues
      <4>3. tree_indications[Len(tree_indications)] = a /\ tree_indications'[Len(tree_indications')] = a
        BY <4>1, <4>2, LastMessage
      <4> QED BY <4>1, <4>2, <4>3, ShortQueues DEF Unapplied
    <3>2. CASE tree_indications = <<Sim>> \/ tree_indications = <<Req>> \/ tree_indications = <<Rst>>
      <4>1. tree_indications' = <<>> /\ tree_indications # <<>> /\ worker' # "reparent"
        BY <2>2, <3>2, ShortQueues
      <4>2. tree_indications[Len(tree_indications)].move = NoMove
        BY <3>2, LastMessage, RequestsCarryNoMove
      <4> QED BY <4>1, <4>2 DEF Unapplied
    <3>3. CASE \E m \in Move : tree_indications = <<MoveMessage(m)>>
      <4>1. PICK m \in Move : tree_indications = <<MoveMessage(m)>>
        BY <3>3
      <4>2. worker' = "reparent" /\ handled' = m
        BY <2>2, <4>1
      <4>3. tree_indications[Len(tree_indications)].move = m
        BY <4>1, LastMessage, MessageFields
      <4> QED BY <4>1, <4>2, <4>3, ShortQueues DEF Unapplied
    <3> QED BY <2>1, <3>1, <3>2, <3>3
  <2>4. Answers' = Answers /\ ClientView' = ClientView
    BY <2>3 DEF Answers, ClientView
  <2>5. Thinking' <=> Thinking
    BY <2>4 DEF Thinking
  <2>6. UnappliedLegal'
    <3>1. worker' = "reparent" => Unapplied' = handled' /\ handled' \in Move
      <4>1. ASSUME worker' = "reparent" PROVE \E m \in Move : tree_indications = <<MoveMessage(m)>>
        BY <2>1, <2>2, <4>1
      <4>2. ASSUME NEW m \in Move, tree_indications = <<MoveMessage(m)>> PROVE handled' \in Move
        BY <2>2, <4>2
      <4> QED BY <4>1, <4>2 DEF Unapplied
    <3>2. rootPos' = rootPos
      OBVIOUS
    <3> QED BY <2>3, <3>1, <3>2 DEF UnappliedLegal
  <2>7. WireFree' /\ VariantsMatch'
    BY DEF WireFree, VariantsMatch
  <2> QED BY <1>s, <2>4, <2>5, <2>6, <2>7, Unnoticed
<1>2. CASE FinishSimulations
  <2> USE <1>2 DEF FinishSimulations, serverVars, wireVars, queueVars, treeVars
  <2>1. Answers' = Answers /\ ClientView' = ClientView /\ Unapplied' = Unapplied
    BY DEF Answers, ClientView, Unapplied
  <2>2. Thinking' <=> Thinking
    BY <2>1 DEF Thinking
  <2>3. UnappliedLegal' /\ WireFree' /\ VariantsMatch'
    BY <2>1 DEF UnappliedLegal, WireFree, VariantsMatch
  <2> QED BY <1>s, <2>1, <2>2, <2>3, Unnoticed
<1>3. CASE ChooseBestMove
  <2> USE <1>3 DEF ChooseBestMove, serverVars, wireVars, treeVars
  <2>1. AfterRequest /\ tree_indications = <<>> /\ client_responses = <<>>
    BY DEF Protocol, OnTurn, Resting, BeforeRequest, AfterRequest, AfterChoice, Watching,
      Searching, AfterWatching, AfterGame, AwaitingStatus
  <2>2. /\ Unapplied = NoMove /\ Answers = {} /\ Thinking /\ asked
        /\ toClient = <<>> /\ serverPos = rootPos
    BY <2>1, WhileThinking
  <2>3. CASE rootVisits > 0
    <3>1. PICK m \in Legal[rootPos] : Respond(MoveMessage(m)) /\ handled' = m
      BY <2>3 DEF TypeOK, TreeTypeOK
    <3>2. m \in Move
      BY DEF TypeOK, TreeTypeOK
    <3>3. worker' = "reparent" /\ UNCHANGED failure
      BY <2>3 DEF TypeOK, TreeTypeOK
    <3>4. client_responses' = <<MoveMessage(m)>>
      BY <2>1, <3>1, ShortQueues DEF Respond
    <3>5. toServer = <<>>
      BY <2>2, AnswersOnTheWay
    <3>6. Answers' = {m}
      <4>1. ASSUME NEW x \in Move, MoveMessage(m) = MoveMessage(x) PROVE x = m
        <5>1. MoveMessage(m).move = m /\ MoveMessage(x).move = x
          BY MessageFields
        <5> QED BY <4>1, <5>1
      <4>2. client_responses' # <<>> /\ Head(client_responses') = MoveMessage(m)
        BY <3>4, ShortQueues
      <4> QED BY <3>2, <3>5, <4>1, <4>2 DEF Answers
    <3>7. Unapplied' = m /\ m # NoMove
      BY <3>1, <3>2, <3>3 DEF Unapplied
    <3>8. ClientView' = Settle(After[rootPos][m])
      BY <3>7 DEF ClientView
    <3>9. Agreement'
      BY <2>2, <3>6, <3>8 DEF Agreement
    <3>10. AskedOnce'
      <4>1. ~Thinking' /\ ~LimitUnread' /\ asked' /\ Len(toClient') = 0
        BY <2>2, <3>6 DEF Thinking, LimitUnread
      <4>2. Status[serverPos'] = "own_turn"
        BY <2>1, <2>2 DEF AfterRequest, Turn
      <4> QED BY <1>s, <3>6, <4>1, <4>2 DEF AskedOnce
    <3>11. UnappliedLegal' /\ WireFree' /\ VariantsMatch'
      BY <3>1, <3>3, <3>7 DEF UnappliedLegal, WireFree, VariantsMatch
    <3> QED BY <3>9, <3>10, <3>11
  <2>4. CASE rootVisits = 0
    <3>1. UNCHANGED <<client_responses, handled, worker>> /\ failure' = "no_visited_child"
      BY <2>4
    <3>2. Answers' = Answers /\ ClientView' = ClientView /\ Unapplied' = Unapplied
      BY <3>1 DEF Answers, ClientView, Unapplied
    <3>3. Thinking' <=> Thinking
      BY <3>2 DEF Thinking
    <3>4. UnappliedLegal' /\ WireFree' /\ VariantsMatch'
      BY <3>1, <3>2 DEF UnappliedLegal, WireFree, VariantsMatch
    <3> QED BY <1>s, <3>2, <3>3, <3>4, Unnoticed
  <2> QED BY <2>3, <2>4
<1>4. CASE ReparentAlongMove
  <2> USE <1>4 DEF ReparentAlongMove, serverVars, wireVars, queueVars
  <2>1. worker = "reparent" /\ handled \in Legal[rootPos] /\ handled # NoMove
    BY <1>q DEF UnappliedLegal
  <2>2. worker' = "handle_status" /\ rootPos' = After[rootPos][handled] /\ UNCHANGED failure
    BY <2>1 DEF Reparent
  <2>3. tree_indications = <<>>
    BY <2>1 DEF Protocol, OnTurn, Resting, BeforeRequest, AfterRequest, AfterChoice, Watching,
      Searching, AfterWatching, AfterGame, AwaitingStatus
  <2>4. Unapplied = handled /\ Unapplied' = NoMove
    BY <2>1, <2>2, <2>3 DEF Unapplied
  <2>5. ClientView' = ClientView
    BY <2>1, <2>2, <2>4 DEF ClientView
  <2>6. Answers' = Answers
    BY DEF Answers
  <2>7. Thinking' <=> Thinking
    BY <2>6 DEF Thinking
  <2>8. UnappliedLegal' /\ WireFree' /\ VariantsMatch'
    BY <2>2, <2>4 DEF UnappliedLegal, WireFree, VariantsMatch
  <2> QED BY <1>s, <2>5, <2>6, <2>7, <2>8, Unnoticed
<1>5. CASE HandleReset
  <2> USE <1>5 DEF HandleReset, Rebuild, serverVars, wireVars, queueVars
  <2>1. Turn = "end_game" /\ tree_indications = <<>>
    BY DEF Protocol, OnTurn, Resting, BeforeRequest, AfterRequest, AfterChoice, Watching,
      Searching, AfterWatching, AfterGame, AwaitingStatus
  <2>2. Unapplied = NoMove /\ Unapplied' = NoMove
    BY <2>1 DEF Unapplied
  <2>3. ClientView' = ClientView
    <3>1. ClientView = InitPos
      BY <2>1, <2>2, ViewAtRest
    <3>2. ClientView' = Settle(InitPos)
      BY <2>2 DEF ClientView
    <3> QED BY <3>1, <3>2 DEF Settle
  <2>4. Answers' = Answers
    BY DEF Answers
  <2>5. Thinking' <=> Thinking
    BY <2>4 DEF Thinking
  <2>6. UnappliedLegal' /\ WireFree' /\ VariantsMatch'
    BY <2>2 DEF UnappliedLegal, WireFree, VariantsMatch
  <2> QED BY <1>s, <2>3, <2>4, <2>5, <2>6, Unnoticed
<1>6. CASE HandleStatus
  <2> USE <1>6 DEF HandleStatus, serverVars, wireVars, treeVars
  <2>1. client_responses' = Append(client_responses, Signal(Turn)) /\ Turn \in GameStatus
    BY DEF Respond, Turn, TypeOK, TreeTypeOK
  <2>2. Answers' = Answers
    <3>1. CASE \E m \in Move : client_responses = <<MoveMessage(m)>>
      <4>1. PICK m \in Move : client_responses = <<MoveMessage(m)>>
        BY <3>1
      <4>2. client_responses' = <<MoveMessage(m), Signal(Turn)>>
        BY <2>1, <4>1, ShortQueues
      <4>3. Head(client_responses') = Head(client_responses)
            /\ client_responses # <<>> /\ client_responses' # <<>>
        BY <4>1, <4>2, ShortQueues
      <4> QED BY <4>3 DEF Answers
    <3>2. CASE client_responses = <<>>
      <4>1. client_responses' = <<Signal(Turn)>>
        BY <2>1, <3>2, ShortQueues
      <4>2. \A x \in Move : Head(client_responses') # MoveMessage(x)
        <5>1. Signal(Turn).kind # "move"
          BY <2>1, MessageFields DEF GameStatus
        <5> QED BY <4>1, <5>1, ShortQueues, MessageFields
      <4> QED BY <3>2, <4>2 DEF Answers
    <3>3. \/ \E m \in Move : client_responses = <<MoveMessage(m)>>
          \/ client_responses = <<>>
      BY DEF Protocol, OnTurn, Resting, BeforeRequest, AfterRequest, AfterChoice, Watching,
        Searching, AfterWatching, AfterGame, AwaitingStatus
    <3> QED BY <3>1, <3>2, <3>3
  <2>3. ClientView' = ClientView /\ Unapplied' = Unapplied
    BY DEF ClientView, Unapplied
  <2>4. Thinking' <=> Thinking
    BY <2>2 DEF Thinking
  <2>5. UnappliedLegal' /\ WireFree' /\ VariantsMatch'
    BY <2>3 DEF UnappliedLegal, WireFree, VariantsMatch
  <2> QED BY <1>s, <2>2, <2>3, <2>4, <2>5, Unnoticed
<1>7. CASE SimulateOnce
  <2> USE <1>7 DEF SimulateOnce, Simulate, serverVars, wireVars, queueVars
  <2>1. Answers' = Answers /\ ClientView' = ClientView /\ Unapplied' = Unapplied
    BY DEF Answers, ClientView, Unapplied
  <2>2. Thinking' <=> Thinking
    BY <2>1 DEF Thinking
  <2>3. UnappliedLegal' /\ WireFree' /\ VariantsMatch'
    BY <2>1 DEF UnappliedLegal, WireFree, VariantsMatch
  <2> QED BY <1>s, <2>1, <2>2, <2>3, Unnoticed
<1> QED BY <1>1, <1>2, <1>3, <1>4, <1>5, <1>6, <1>7 DEF WorkerStep

(* One more message to the player, when no limit is unread. *)
LEMMA OneMoreMessage ==
  ASSUME TypeOK, AskedOnce, ~LimitUnread, NEW message \in Wire,
         toClient' = Append(toClient, message)
  PROVE  /\ \A i \in 1..(Len(toClient') - 1) : toClient'[i].kind = "move"
         /\ LimitUnread' <=> message.kind = "limit"
<1>1. toClient \in Seq(Wire)
  BY DEF TypeOK
<1>2. /\ Len(toClient) \in Nat
      /\ Len(toClient') = Len(toClient) + 1
      /\ \A i \in 1..Len(toClient) : toClient'[i] = toClient[i]
      /\ toClient'[Len(toClient')] = message
  <2>1. /\ Len(Append(toClient, message)) = Len(toClient) + 1
        /\ \A i \in 1..Len(toClient) : Append(toClient, message)[i] = toClient[i]
        /\ Append(toClient, message)[Len(toClient) + 1] = message
    BY <1>1, AppendProperties
  <2>2. Len(toClient) \in Nat
    BY <1>1, LenProperties
  <2> QED BY <2>1, <2>2
<1>3. ASSUME NEW i \in 1..Len(toClient) PROVE toClient[i].kind = "move"
  <2>1. toClient[i] \in Wire
    BY <1>1, ElementOfSeq
  <2>2. CASE i = Len(toClient)
    <3>1. toClient # <<>>
      <4>1. Len(<<>>) = 0
        BY EmptySeq
      <4> QED BY <1>2, <4>1
    <3>2. toClient[i].kind # "limit"
      BY <2>2, <3>1 DEF LimitUnread
    <3> QED BY <2>1, <3>2, MessageFields DEF Wire, Messages
  <2>3. CASE i # Len(toClient)
    <3>1. i \in 1..(Len(toClient) - 1)
      BY <1>2, <2>3
    <3> QED BY <3>1 DEF AskedOnce
  <2> QED BY <2>2, <2>3
<1>4. \A i \in 1..(Len(toClient') - 1) : toClient'[i].kind = "move"
  <2>1. Len(toClient') - 1 = Len(toClient)
    BY <1>2
  <2> QED BY <1>2, <1>3, <2>1
<1>5. toClient' # <<>>
  <2>1. Len(<<>>) = 0
    BY EmptySeq
  <2>2. Len(toClient') # 0
    BY <1>2
  <2> QED BY <2>1, <2>2
<1>6. LimitUnread' <=> message.kind = "limit"
  BY <1>2, <1>5 DEF LimitUnread
<1> QED BY <1>4, <1>6

(* A limit outstanding means that it is our turn for the game manager. *)
LEMMA AskedOnTurn ==
  ASSUME TypeOK, Protocol, GameInv, asked
  PROVE  Status[serverPos] = "own_turn"
<1> USE DEF GameInv
<1>1. CASE Answers # {}
  BY <1>1 DEF AskedOnce
<1>2. CASE Answers = {} /\ LimitUnread
  <2>1. Leads(ClientView, toClient, serverPos) /\ toClient \in Seq(Wire)
    BY <1>2 DEF Agreement, TypeOK
  <2>2. \E r \in Position : Delivers(r, toClient[Len(toClient)], serverPos)
    BY <1>2, <2>1, LeadsLast DEF LimitUnread
  <2> QED BY <1>2, <2>2 DEF LimitUnread, Delivers
<1>3. CASE Thinking
  <2>1. BeforeRequest \/ AfterRequest
    <3>1. ~AfterChoice
      <4>1. ASSUME AfterChoice PROVE Answers # {}
        <5>1. PICK m \in Move : client_responses = <<MoveMessage(m)>>
                                \/ client_responses = <<MoveMessage(m), Signal(Turn)>>
          BY <4>1 DEF AfterChoice
        <5>2. client_responses # <<>> /\ Head(client_responses) = MoveMessage(m)
          BY <5>1, ShortQueues
        <5> QED BY <5>2 DEF Answers
      <4> QED BY <1>3, <4>1 DEF Thinking
    <3> QED BY <1>3, <3>1 DEF Thinking, Protocol, OnTurn, Watching, AfterWatching, AfterGame,
      AwaitingStatus, GameStatus
  <2>2. serverPos = rootPos
    BY <2>1, WhileThinking
  <2> QED BY <2>1, <2>2 DEF BeforeRequest, AfterRequest, Turn
<1> QED BY <1>1, <1>2, <1>3 DEF AskedOnce

(* and what the game manager does, the client will follow. *)
LEMMA GameManager ==
  /\ TypeOK /\ Protocol /\ GameInv
  /\ AskPlayer \/ AcceptMove \/ OpponentMove \/ UNCHANGED vars
  => GameInv'
<1> SUFFICES ASSUME TypeOK, Protocol, GameInv,
                    AskPlayer \/ AcceptMove \/ OpponentMove \/ UNCHANGED vars
             PROVE  GameInv'
  OBVIOUS
<1> USE DEF GameInv
<1>s. Len(toServer) <= 1
  BY DEF AskedOnce
<1>1. CASE AskPlayer
  <2> USE <1>1 DEF AskPlayer, queueVars, workerVars, treeVars
  <2>1. Answers = {} /\ ~LimitUnread /\ ~Thinking
    BY DEF AskedOnce
  <2>2. Leads(ClientView, toClient, serverPos)
    BY <2>1 DEF Agreement
  <2>3. Signal("limit") \in Wire /\ Signal("limit").kind = "limit"
    BY MessageTypes, MessageFields
  <2>4. Delivers(serverPos, Signal("limit"), serverPos)
    BY <2>3 DEF Delivers
  <2>5. Leads(ClientView, toClient', serverPos)
    BY <2>2, <2>3, <2>4, LeadsAppend DEF TypeOK
  <2>6. ClientView' = ClientView /\ Answers' = {} /\ ~Thinking' /\ Unapplied' = Unapplied
    <3>1. Answers' = Answers
      BY DEF Answers
    <3> QED BY <2>1, <3>1 DEF ClientView, Thinking, Unapplied
  <2>7. Agreement'
    BY <2>5, <2>6 DEF Agreement
  <2>8. AskedOnce'
    <3>1. /\ \A i \in 1..(Len(toClient') - 1) : toClient'[i].kind = "move"
          /\ LimitUnread'
      BY <2>1, <2>3, OneMoreMessage
    <3> QED BY <1>s, <2>6, <3>1 DEF AskedOnce
  <2>9. UnappliedLegal' /\ WireFree' /\ VariantsMatch'
    BY <2>6 DEF UnappliedLegal, WireFree, VariantsMatch
  <2> QED BY <2>7, <2>8, <2>9
<1>2. CASE AcceptMove
  <2> USE <1>2 DEF AcceptMove, queueVars, workerVars, treeVars
  <2>1. Head(toServer) \in Answers
    BY AnswersOnTheWay
  <2>2. PICK m \in Legal[serverPos] :
          Answers = {m} /\ toClient = <<>> /\ ClientView = Settle(After[serverPos][m])
    BY <2>1 DEF Agreement
  <2>3. serverPos' = Settle(After[serverPos][m]) /\ serverPos' \in Position
    <3>1. m = Head(toServer) /\ m \in Move /\ serverPos \in Position
      BY <2>1, <2>2 DEF TypeOK
    <3> QED BY <3>1, SettleType
  <2>4. toServer' = <<>>
    <3>1. toServer \in Seq(Move) /\ toServer # <<>>
      BY DEF TypeOK
    <3>2. Len(toServer) \in Nat \ {0}
      BY <3>1, EmptySeq
    <3>3. Tail(toServer) \in Seq(Move) /\ Len(Tail(toServer)) = Len(toServer) - 1
      BY <3>1, HeadTailProperties
    <3>4. \A s \in Seq(Move) : s # <<>> => Len(s) \in Nat \ {0}
      BY EmptySeq
    <3> QED BY <1>s, <3>2, <3>3, <3>4
  <2>5. transport \notin {"wait_for_move", "request_move", "forward_own"}
    BY DEF WireFree
  <2>6. client_responses' = <<>> \/ client_responses' = <<Signal(Turn)>>
    BY <2>5 DEF Protocol, OnTurn, Resting, BeforeRequest, AfterRequest, AfterChoice, Watching,
      Searching, AfterWatching, AfterGame, AwaitingStatus
  <2>7. Answers' = {}
    <3>1. \A x \in Move : Head(<<Signal(Turn)>>) # MoveMessage(x)
      <4>1. Turn \in GameStatus
        BY DEF TypeOK, TreeTypeOK, Turn
      <4>2. Signal(Turn).kind # "move"
        BY <4>1, MessageFields DEF GameStatus
      <4> QED BY <4>2, ShortQueues, MessageFields
    <3> QED BY <2>4, <2>6, <3>1 DEF Answers
  <2>8. ClientView' = ClientView /\ Unapplied' = Unapplied /\ ~Thinking'
    BY <2>5 DEF ClientView, Unapplied, Thinking
  <2>9. Agreement'
    <3>1. Leads(serverPos', <<>>, serverPos')
      BY <2>3, LeadsNowhere
    <3> QED BY <2>2, <2>3, <2>7, <2>8, <3>1 DEF Agreement
  <2>10. AskedOnce'
    <3>1. ~asked' /\ ~LimitUnread' /\ Len(toServer') = 0 /\ Len(toClient') = 0
      BY <2>2, <2>4 DEF LimitUnread
    <3> QED BY <2>7, <2>8, <3>1 DEF AskedOnce
  <2>11. UnappliedLegal' /\ WireFree' /\ VariantsMatch'
    BY <2>4, <2>8 DEF UnappliedLegal, WireFree, VariantsMatch
  <2> QED BY <2>9, <2>10, <2>11
<1>3. CASE OpponentMove
  <2> USE <1>3 DEF OpponentMove, queueVars, workerVars, treeVars
  <2>1. ~asked
    BY AskedOnTurn
  <2>2. Answers = {} /\ ~LimitUnread /\ ~Thinking
    BY <2>1 DEF AskedOnce
  <2>3. Leads(ClientView, toClient, serverPos)
    BY <2>2 DEF Agreement
  <2>4. PICK m \in Legal[serverPos] :
          /\ toClient' = Append(toClient, MoveMessage(m))
          /\ serverPos' = Settle(After[serverPos][m])
    OBVIOUS
  <2>5. m \in Move /\ MoveMessage(m) \in Wire /\ serverPos' \in Position
    <3>1. m \in Move /\ serverPos \in Position
      BY DEF TypeOK
    <3> QED BY <2>4, <3>1, MessageTypes, SettleType
  <2>6. Delivers(serverPos, MoveMessage(m), serverPos')
    BY <2>4, MessageFields DEF Delivers
  <2>7. Leads(ClientView, toClient', serverPos')
    BY <2>3, <2>4, <2>5, <2>6, LeadsAppend DEF TypeOK
  <2>8. ClientView' = ClientView /\ Answers' = {} /\ ~Thinking' /\ Unapplied' = Unapplied
    <3>1. Answers' = Answers
      BY DEF Answers
    <3> QED BY <2>2, <3>1 DEF ClientView, Thinking, Unapplied
  <2>9. Agreement'
    BY <2>7, <2>8 DEF Agreement
  <2>10. AskedOnce'
    <3>1. /\ \A i \in 1..(Len(toClient') - 1) : toClient'[i].kind = "move"
          /\ ~LimitUnread'
      BY <2>2, <2>4, <2>5, OneMoreMessage, MessageFields
    <3> QED BY <1>s, <2>1, <2>8, <3>1 DEF AskedOnce
  <2>11. UnappliedLegal' /\ WireFree' /\ VariantsMatch'
    BY <2>8 DEF UnappliedLegal, WireFree, VariantsMatch
  <2> QED BY <2>9, <2>10, <2>11
<1>4. CASE UNCHANGED vars
  <2> USE <1>4 DEF vars, serverVars, wireVars, queueVars, workerVars, treeVars
  <2>1. Answers' = Answers /\ ClientView' = ClientView /\ Unapplied' = Unapplied
    BY DEF Answers, ClientView, Unapplied
  <2>2. Thinking' <=> Thinking
    BY <2>1 DEF Thinking
  <2>3. UnappliedLegal' /\ WireFree' /\ VariantsMatch'
    BY <2>1 DEF UnappliedLegal, WireFree, VariantsMatch
  <2> QED BY <1>s, <2>1, <2>2, <2>3, Unnoticed
<1> QED BY <1>1, <1>2, <1>3, <1>4

-----------------------------------------------------------------------------
(* The invariant is inductive. *)
LEMMA InductiveInit == Init => IInv
BY TypeInit, ProtocolInit, GameInit DEF IInv

(* and every step of the player keeps it. *)
LEMMA InductiveStep == IInv /\ [Next]_vars => IInv'
BY ProtocolStep, GameTransport, GameWorker, GameManager DEF IInv, Next

(* So it holds in every reachable state. *)
LEMMA AlwaysIInv == SafeSpec => []IInv
BY InductiveInit, InductiveStep, PTL DEF SafeSpec

(* The client and the game manager are always in the same game, across     *)
(* game ends and whatever is on the way between them.                      *)
THEOREM OneGame == SafeSpec => []Agreement
<1>1. IInv => Agreement
  BY DEF IInv, GameInv
<1> QED BY <1>1, AlwaysIInv, PTL

(* No time limit is lost, answered twice or answered before it is sent.    *)
THEOREM LimitsAnsweredOnce == SafeSpec => []AskedOnce
<1>1. IInv => AskedOnce
  BY DEF IInv, GameInv
<1> QED BY <1>1, AlwaysIInv, PTL

(* The asserts on the responses popped hold, no limit is read as a move    *)
(* and no illegal move reaches the reasoner.                               *)
THEOREM NothingMisread == SafeSpec => []VariantsMatch
<1>1. IInv => VariantsMatch
  BY DEF IInv, GameInv
<1> QED BY <1>1, AlwaysIInv, PTL

-----------------------------------------------------------------------------
(* What the game manager sees.                                             *)

(* Every step of the running player is a step its contract with the game   *)
(* manager allows, or none the manager can see.                            *)
LEMMA ContractStep ==
  IInv /\ IInv' /\ [Next]_vars => [Contract!Next]_(Contract!contractVars)
<1> SUFFICES ASSUME IInv, IInv', [Next]_vars
             PROVE  Contract!Next \/ UNCHANGED Contract!contractVars
  BY DEF Contract!contractVars
<1> USE DEF IInv, GameInv
<1>0. GameInv
  BY DEF GameInv
<1>1. CASE AskPlayer
  <2>1. toServer = <<>>
    <3>1. Answers = {}
      BY <1>1 DEF AskPlayer, AskedOnce
    <3> QED BY <3>1, AnswersOnTheWay
  <2>2. Contract!Ask
    BY <1>1, <2>1 DEF AskPlayer, Contract!Ask
  <2> QED BY <2>2 DEF Contract!Next
<1>2. CASE ForwardOwnMove
  <2>1. AfterChoice
    BY <1>2 DEF ForwardOwnMove, Protocol, OnTurn, BeforeRequest, AfterRequest, Watching,
      AfterWatching, AfterGame, AwaitingStatus, GameStatus
  <2>2. PICK m \in Move :
          client_responses = <<MoveMessage(m)>> \/ client_responses = <<MoveMessage(m), Signal(Turn)>>
    BY <2>1 DEF AfterChoice
  <2>3. client_responses # <<>> /\ Head(client_responses) = MoveMessage(m)
    BY <2>2, ShortQueues
  <2>4. Head(client_responses).kind = "move" /\ Head(client_responses).move = m
    BY <2>3, MessageFields
  <2>5. toServer = <<>>
    BY <2>1 DEF WireFree, AfterChoice
  <2>6. toServer' = <<m>> /\ UNCHANGED serverVars
    BY <1>2, <2>4, <2>5, ShortQueues DEF ForwardOwnMove
  <2>7. m \in Answers
    BY <2>3 DEF Answers
  <2>8. asked /\ m \in Legal[serverPos]
    BY <2>7 DEF AskedOnce, Agreement
  <2>9. toServer' # <<>> /\ Head(toServer') = m
    BY <2>6, ShortQueues
  <2>10. Contract!Answer
    BY <2>5, <2>6, <2>8, <2>9 DEF serverVars, Contract!Answer
  <2> QED BY <2>10 DEF Contract!Next
<1>3. CASE AcceptMove
  <2>1. ~asked'
    BY <1>3 DEF AcceptMove
  <2>2. toServer' = <<>>
    <3>1. Answers' = {}
      BY <2>1 DEF AskedOnce
    <3>2. toServer' # <<>> => Head(toServer') \in Move
      BY DEF TypeOK
    <3> QED BY <3>1, <3>2 DEF Answers
  <2>3. Contract!Accept
    BY <1>3, <2>1, <2>2 DEF AcceptMove, Contract!Accept, Contract!Settle, Settle
  <2> QED BY <2>3 DEF Contract!Next
<1>4. CASE OpponentMove
  <2>1. ~asked
    BY <1>0, <1>4, AskedOnTurn DEF OpponentMove
  <2>2. Contract!Watch
    BY <1>4, <2>1 DEF OpponentMove, Contract!Watch, Contract!Settle, Settle
  <2> QED BY <2>2 DEF Contract!Next
<1>5. ASSUME UNCHANGED <<serverPos, asked, toServer>> PROVE UNCHANGED Contract!contractVars
  BY <1>5 DEF Contract!contractVars
<1>6. CASE WorkerStep \/ SimulateOnce \/ UNCHANGED vars
  <2>1. UNCHANGED <<serverPos, asked, toServer>>
    BY <1>6 DEF WorkerStep, PopIndication, FinishSimulations, ChooseBestMove, ReparentAlongMove,
      HandleReset, HandleStatus, SimulateOnce, vars, serverVars, wireVars
  <2> QED BY <1>5, <2>1
<1>7. CASE TransportStep /\ ~ForwardOwnMove
  <2>1. UNCHANGED <<serverPos, asked, toServer>>
    BY <1>7 DEF TransportStep, GetGameStatus, ReceiveLimit, WaitForMove, RequestMove,
      OpponentTurn, ReceiveMove, EndGame, serverVars, wireVars
  <2> QED BY <1>5, <2>1
<1> QED BY <1>1, <1>2, <1>3, <1>4, <1>6, <1>7 DEF Next, TransportStep

(* The player sends one move per time limit, after it, and a legal one.    *)
THEOREM ContractKept == SafeSpec => KeepsContractSafely
<1>1. Init => Contract!Init
  BY DEF Init, Contract!Init
<1> QED BY <1>1, AlwaysIInv, ContractStep, PTL DEF SafeSpec, KeepsContractSafely, Contract!SafeSpec

-----------------------------------------------------------------------------
(* Something to choose from.                                               *)

(* The root's children remember a simulation from the moment one is made   *)
(* for a request until the move is chosen.                                 *)
Visited ==
  /\ worker = "simulate" /\ spent > 0 /\ Turn # "end_game" => rootVisits > 0
  /\ /\ transport \in {"wait_for_move", "request_move", "forward_own"}
     /\ worker = "pop"
     /\ client_responses = <<>>
     /\ tree_indications \in {<<>>, <<Req>>}
     => rootVisits > 0
  /\ SomeChildVisited

(* Where the loop counts simulations or states it makes at least one. *)
LEMMA VisitedStep ==
  ASSUME LimitKind # "time"
  PROVE  TypeOK /\ Protocol /\ Visited /\ [Next]_vars => Visited'
<1> SUFFICES ASSUME TypeOK, Protocol, Visited, [Next]_vars PROVE Visited'
  OBVIOUS
<1> USE DEF SomeChildVisited
<1>1. CASE GetGameStatus
  <2>1. transport' = "get_status" \/ transport' \in GameStatus
    BY <1>1 DEF GetGameStatus
  <2>2. UNCHANGED <<worker, spent, Turn, rootVisits>>
    BY <1>1 DEF GetGameStatus, workerVars, treeVars, Turn
  <2> QED BY <2>1, <2>2 DEF Visited, GameStatus
<1>2. CASE ReceiveLimit
  <2>1. tree_indications = <<>>
    BY <1>2 DEF ReceiveLimit, Protocol, OnTurn, Resting, BeforeRequest, AfterRequest, AfterChoice,
      Watching, AfterWatching, AfterGame, AwaitingStatus
  <2>2. tree_indications' = <<Sim>>
    BY <1>2, <2>1, ShortQueues DEF ReceiveLimit, Indicate, Sim
  <2>3. tree_indications' \notin {<<>>, <<Req>>}
    <3>1. Sim # Req
      <4>1. Sim.kind # Req.kind
        BY MessageFields DEF Sim, Req
      <4> QED BY <4>1
    <3>2. <<Sim>> # <<Req>> /\ <<Sim>> # <<>>
      BY <3>1
    <3> QED BY <2>2, <3>2
  <2>4. UNCHANGED <<worker, spent, Turn, rootVisits>>
    BY <1>2 DEF ReceiveLimit, workerVars, treeVars, Turn
  <2> QED BY <2>3, <2>4 DEF Visited
<1>3. CASE WaitForMove
  <2>1. UNCHANGED <<worker, spent, Turn, rootVisits, tree_indications, client_responses>>
    BY <1>3 DEF WaitForMove, queueVars, workerVars, treeVars, Turn
  <2> QED BY <1>3, <2>1 DEF WaitForMove, Visited
<1>4. CASE RequestMove
  <2>1. UNCHANGED <<worker, spent, Turn, rootVisits, client_responses>>
    BY <1>4 DEF RequestMove, workerVars, treeVars, Turn
  <2>2. tree_indications = <<>> \/ tree_indications' = <<Sim, Req>>
    BY <1>4, ShortQueues DEF RequestMove, Indicate, Req, Protocol, OnTurn, Resting, BeforeRequest,
      Searching, AfterRequest, AfterChoice, Watching, AfterWatching, AfterGame, AwaitingStatus, GameStatus
  <2>3. <<Sim, Req>> # <<Req>> /\ <<Sim, Req>> # <<>>
    <3>1. Len(<<Sim, Req>>) = 2 /\ Len(<<Req>>) = 1 /\ Len(<<>>) = 0
      OBVIOUS
    <3> QED BY <3>1
  <2> QED BY <1>4, <2>1, <2>2, <2>3 DEF RequestMove, Visited
<1>5. CASE ForwardOwnMove
  <2>1. UNCHANGED <<worker, spent, Turn, rootVisits>>
    BY <1>5 DEF ForwardOwnMove, workerVars, treeVars, Turn
  <2>2. AfterChoice
    BY <1>5 DEF ForwardOwnMove, Protocol, OnTurn, BeforeRequest, AfterRequest, Watching,
      AfterWatching, AfterGame, AwaitingStatus, GameStatus
  <2>3. Head(client_responses).kind = "move"
    BY <2>2, ShortQueues, MessageFields DEF AfterChoice
  <2>4. transport' = "get_status"
    BY <1>5, <2>3 DEF ForwardOwnMove
  <2> QED BY <2>1, <2>4 DEF Visited
<1>6. CASE OpponentTurn \/ ReceiveMove \/ EndGame
  <2>1. UNCHANGED <<worker, spent, Turn, rootVisits>>
    BY <1>6 DEF OpponentTurn, ReceiveMove, EndGame, workerVars, treeVars, Turn
  <2>2. transport' \in {"receive_move", "get_status"}
    BY <1>6 DEF OpponentTurn, ReceiveMove, EndGame
  <2> QED BY <2>1, <2>2 DEF Visited
<1>7. CASE PopIndication
  <2>1. /\ worker = "pop" /\ tree_indications # <<>> /\ spent' = 0
        /\ worker' = HandlerOf(Head(tree_indications).kind)
        /\ UNCHANGED <<transport, client_responses, rootVisits>>
    BY <1>7 DEF PopIndication, treeVars
  <2>2. Head(tree_indications) \in Indication
    BY <2>1 DEF TypeOK
  <2>3. worker' # "pop"
    BY <2>1, <2>2, MessageFields DEF HandlerOf, Indication, Messages
  <2>4. worker' = "choose" => rootVisits > 0
    <3>1. ASSUME worker' = "choose"
          PROVE  tree_indications = <<Req>> /\ transport = "forward_own" /\ client_responses = <<>>
      <4>1. Head(tree_indications).kind = "move_request"
        BY <2>1, <2>2, <3>1, MessageFields DEF HandlerOf, Indication, Messages
      <4>2. /\ \A a : Head(<<Sim, a>>).kind # "move_request"
            /\ Head(<<Sim>>).kind # "move_request"
            /\ \A m : Head(<<MoveMessage(m)>>).kind # "move_request"
            /\ Head(<<Rst>>).kind # "move_request"
        BY ShortQueues, MessageFields DEF Sim, Rst
      <4> QED BY <2>1, <4>1, <4>2 DEF Protocol, OnTurn, Resting, BeforeRequest,
        Searching, AfterRequest, AfterChoice, Watching, AfterWatching, AfterGame, AwaitingStatus
    <3> QED BY <2>1, <3>1 DEF Visited
  <2>5. ~(spent' > 0)
    BY <2>1
  <2> QED BY <2>1, <2>3, <2>4, <2>5 DEF Visited
<1>8. CASE FinishSimulations
  <2>1. /\ worker = "simulate" /\ worker' = "pop" /\ spent >= MoveBudget
        /\ UNCHANGED <<transport, tree_indications, client_responses, rootVisits>>
    BY <1>8 DEF FinishSimulations, SimulationsDone, treeVars, queueVars
  <2>2. spent > 0
    BY <2>1 DEF TypeOK
  <2>3. Turn # "end_game"
    BY <2>1 DEF Protocol, OnTurn, Resting, BeforeRequest,
        Searching, AfterRequest, AfterChoice, Watching, AfterWatching, AfterGame, AwaitingStatus
  <2> QED BY <2>1, <2>2, <2>3 DEF Visited
<1>9. CASE ChooseBestMove
  <2>1. /\ worker' \in {"reparent", "choose"}
        /\ UNCHANGED <<rootVisits, spent>>
        /\ worker = "choose"
    BY <1>9 DEF ChooseBestMove, treeVars
  <2> QED BY <2>1 DEF Visited
<1>10. CASE ReparentAlongMove
  <2>1. worker' \in {"handle_status", "reparent"}
    BY <1>10 DEF ReparentAlongMove
  <2> QED BY <2>1 DEF Visited
<1>11. CASE HandleReset
  BY <1>11 DEF HandleReset, Visited
<1>12. CASE HandleStatus
  <2>1. worker' = "pop" /\ client_responses' # <<>>
    <3>1. client_responses \in Seq(Response) /\ Signal(Status[rootPos]) \in Response
      BY MessageTypes DEF TypeOK, TreeTypeOK
    <3>2. client_responses' = Append(client_responses, Signal(Status[rootPos])) /\ worker' = "pop"
      BY <1>12 DEF HandleStatus, Respond
    <3>3. Append(client_responses, Signal(Status[rootPos])) # <<>>
      <4>1. ASSUME NEW s \in Seq(Response), NEW x \in Response PROVE Append(s, x) # <<>>
        BY ONLY s \in Seq(Response), x \in Response, AppendProperties
      <4> QED BY <3>1, <4>1
    <3> QED BY <3>2, <3>3
  <2> QED BY <2>1 DEF Visited
<1>13. CASE SimulateOnce
  <2>1. Turn # "end_game"
    BY <1>13 DEF SimulateOnce, Protocol, OnTurn, Resting, BeforeRequest,
        Searching, AfterRequest, AfterChoice, Watching, AfterWatching, AfterGame, AwaitingStatus
  <2>2. Legal[rootPos] # {}
    BY <2>1 DEF Turn, TypeOK, TreeTypeOK
  <2>3. rootVisits' > 0
    BY <1>13, <2>2 DEF SimulateOnce, Simulate, Saturate, TypeOK, TreeTypeOK
  <2> QED BY <2>3 DEF Visited
<1>14. CASE AskPlayer \/ AcceptMove \/ OpponentMove \/ UNCHANGED vars
  <2>1. UNCHANGED <<worker, spent, Turn, rootVisits, transport, tree_indications, client_responses>>
    BY <1>14 DEF AskPlayer, AcceptMove, OpponentMove, vars, queueVars, workerVars, treeVars, Turn
  <2> QED BY <2>1 DEF Visited
<1> QED BY <1>1, <1>2, <1>3, <1>4, <1>5, <1>6, <1>7, <1>8, <1>9, <1>10, <1>11, <1>12, <1>13, <1>14
  DEF Next, TransportStep, WorkerStep

(* With a limit on simulations or on states the player always has          *)
(* something to choose from; with a time limit it need not                 *)
(* (PlayerNothingToChoose).                                                *)
THEOREM SomethingToChoose ==
  ASSUME LimitKind # "time"
  PROVE  SafeSpec => []SomeChildVisited
<1>1. Init => Visited
  BY DEF Init, Visited, SomeChildVisited
<1>2. Visited => SomeChildVisited
  BY DEF Visited
<1>3. TypeOK /\ Protocol /\ Visited /\ [Next]_vars => Visited'
  BY VisitedStep
<1> QED BY <1>1, <1>2, <1>3, ProtocolFollowed, PTL DEF SafeSpec
=============================================================================
