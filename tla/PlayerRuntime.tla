---------------------------- MODULE PlayerRuntime ----------------------------
(***************************************************************************)
(* A running player: the transport worker and the tree worker, the two     *)
(* concurrent queues between them, the search tree (SearchTree), and the   *)
(* game manager on the far end of the socket (external, with play.py       *)
(* forwarding both ways).                                                  *)
(*                                                                         *)
(* The two threads never share anything but the queues, whose operations   *)
(* are atomic here (ConcurrentQueue shows why they may be).  A failed      *)
(* assertion or an uncaught exception ends the whole process: "failure"    *)
(* names the first one.                                                    *)
(***************************************************************************)
EXTENDS Sequences, SearchTree

CONSTANTS
  NoMove,                    \* the move of a message that carries none
  LimitKind,                 \* which loop handle_simulation_request compiles to
  MoveBudget,                \* SIMULATIONS_PER_MOVE or STATES_PER_MOVE
  MaxStates,                 \* the most states one simulation visits
  SIMULATE_DURING_OPP_TURN,
  MaxInFlight                \* messages the socket holds on their way here

ASSUME RuntimeAssumption ==
  /\ NoMove \notin Move
  /\ LimitKind \in {"time", "simulations", "states"}
  /\ MoveBudget \in Nat \ {0}
  /\ MaxStates \in Nat \ {0}
  /\ SIMULATE_DURING_OPP_TURN \in BOOLEAN
  /\ MaxInFlight \in Nat \ {0}

VARIABLES
  serverPos,         \* the game manager's position
  asked,             \* it has sent a time limit and awaits our move
  toClient,          \* bytes of complete messages not yet read by us
  toServer,          \* our moves the game manager has not read yet
  tree_indications,  \* transport worker -> tree worker
  client_responses,  \* tree worker -> transport worker
  transport,         \* where the transport worker is
  worker,            \* where the tree worker is
  handled,           \* the move the tree worker is about to reparent along
  spent,             \* sim_count, or state_count, of the running loop
  failure

serverVars == <<serverPos, asked>>
wireVars == <<toClient, toServer>>
queueVars == <<tree_indications, client_responses>>
workerVars == <<worker, handled, spent>>
vars == <<serverVars, wireVars, queueVars, transport, workerVars, treeVars, failure>>

-----------------------------------------------------------------------------
(* Messages.  The variants of tree_indication and of client_response.      *)

Signal(kind) == [kind |-> kind, move |-> NoMove]
MoveMessage(m) == [kind |-> "move", move |-> m]

Messages(kinds) == {Signal(k) : k \in kinds} \union {MoveMessage(m) : m \in Move}

Indication == Messages({"move_request", "simulation_request", "reset_tree"})
Response == Messages(GameStatus)
Wire == Messages({"limit"})

TransportPoints ==
  {"get_status", "own_turn", "opponent_turn", "end_game",
   "wait_for_move", "request_move", "forward_own", "receive_move"}

WorkerPoints == {"handle_status", "pop", "simulate", "choose", "reparent", "reset"}

Failures ==
  {"none", "status_variant", "move_variant", "malformed_move",
   "no_visited_child", "illegal_move"}

(* Types of every variable. *)
TypeOK ==
  /\ TreeTypeOK
  /\ serverPos \in Position
  /\ asked \in BOOLEAN
  /\ toClient \in Seq(Wire)
  /\ toServer \in Seq(Move)
  /\ tree_indications \in Seq(Indication)
  /\ client_responses \in Seq(Response)
  /\ transport \in TransportPoints
  /\ worker \in WorkerPoints
  /\ handled \in Move \union {NoMove}
  /\ spent \in 0..(MoveBudget + MaxStates - 1)
  /\ failure \in Failures

Running == failure = "none"

Init ==
  /\ Create
  /\ serverPos = InitPos
  /\ asked = FALSE
  /\ toClient = <<>>
  /\ toServer = <<>>
  /\ tree_indications = <<>>
  /\ client_responses = <<>>
  /\ transport = "get_status"
  /\ worker = "handle_status"
  /\ handled = NoMove
  /\ spent = 0
  /\ failure = "none"

-----------------------------------------------------------------------------
(* The transport worker (transport_worker.cpp).                            *)

Indicate(message) == tree_indications' = Append(tree_indications, message)
Respond(message) == client_responses' = Append(client_responses, message)

GetGameStatus ==
  /\ Running
  /\ transport = "get_status"
  /\ client_responses # <<>>
  /\ client_responses' = Tail(client_responses)
  /\ \/ /\ Head(client_responses).kind \in GameStatus
        /\ transport' = Head(client_responses).kind
        /\ UNCHANGED failure
     \/ /\ Head(client_responses).kind = "move"
        /\ failure' = "status_variant"
        /\ UNCHANGED transport
  /\ UNCHANGED <<serverVars, wireVars, tree_indications, workerVars, treeVars>>

(* Mutant of ReceiveLimit: the move is asked for before the limit arrives.  *)
ReceiveLimitEarly ==
  /\ Running
  /\ transport = "own_turn"
  /\ Indicate(Signal("simulation_request"))
  /\ transport' = IF LimitKind = "time" THEN "wait_for_move" ELSE "request_move"
  /\ UNCHANGED <<serverVars, wireVars, client_responses, workerVars, treeVars, failure>>

(* Whatever text comes next is read as the limit: std::stod takes the      *)
(* first number of a move as readily.                                      *)
ReceiveLimit ==
  /\ Running
  /\ transport = "own_turn"
  /\ toClient # <<>>
  /\ toClient' = Tail(toClient)
  /\ Indicate(Signal("simulation_request"))
  /\ transport' = IF LimitKind = "time" THEN "wait_for_move" ELSE "request_move"
  /\ UNCHANGED <<serverVars, toServer, client_responses, workerVars, treeVars, failure>>

(* Sleeps for the limit less BUFFER_TIME, or not at all when that is 0, so *)
(* that any number of the worker's steps fits in, none included.           *)
WaitForMove ==
  /\ Running
  /\ transport = "wait_for_move"
  /\ transport' = "request_move"
  /\ UNCHANGED <<serverVars, wireVars, queueVars, workerVars, treeVars, failure>>

RequestMove ==
  /\ Running
  /\ transport = "request_move"
  /\ Indicate(Signal("move_request"))
  /\ transport' = "forward_own"
  /\ UNCHANGED <<serverVars, wireVars, client_responses, workerVars, treeVars, failure>>

ForwardOwnMove ==
  /\ Running
  /\ transport = "forward_own"
  /\ client_responses # <<>>
  /\ client_responses' = Tail(client_responses)
  /\ \/ /\ Head(client_responses).kind = "move"
        /\ toServer' = Append(toServer, Head(client_responses).move)
        /\ transport' = "get_status"
        /\ UNCHANGED failure
     \/ /\ Head(client_responses).kind # "move"
        /\ failure' = "move_variant"
        /\ UNCHANGED <<toServer, transport>>
  /\ UNCHANGED <<serverVars, toClient, tree_indications, workerVars, treeVars>>

OpponentTurn ==
  /\ Running
  /\ transport = "opponent_turn"
  /\ IF SIMULATE_DURING_OPP_TURN
     THEN Indicate(Signal("simulation_request"))
     ELSE UNCHANGED tree_indications
  /\ transport' = "receive_move"
  /\ UNCHANGED <<serverVars, wireVars, client_responses, workerVars, treeVars, failure>>

(* string_to_move asserts an even number of words, which a limit has not.  *)
ReceiveMove ==
  /\ Running
  /\ transport = "receive_move"
  /\ toClient # <<>>
  /\ toClient' = Tail(toClient)
  /\ \/ /\ Head(toClient).kind = "move"
        /\ Indicate(Head(toClient))
        /\ transport' = "get_status"
        /\ UNCHANGED failure
     \/ /\ Head(toClient).kind = "limit"
        /\ failure' = "malformed_move"
        /\ UNCHANGED <<tree_indications, transport>>
  /\ UNCHANGED <<serverVars, toServer, client_responses, workerVars, treeVars>>

EndGame ==
  /\ Running
  /\ transport = "end_game"
  /\ Indicate(Signal("reset_tree"))
  /\ transport' = "get_status"
  /\ UNCHANGED <<serverVars, wireVars, client_responses, workerVars, treeVars, failure>>

-----------------------------------------------------------------------------
(* The tree worker (tree_worker.cpp, tree_handler.cpp).                    *)

HandlerOf(kind) ==
  CASE kind = "move" -> "reparent"
    [] kind = "move_request" -> "choose"
    [] kind = "simulation_request" -> "simulate"
    [] kind = "reset_tree" -> "reset"

(* Mutant of PopIndication: the counter of the loop outlives the request.  *)
PopIndicationStaleCount ==
  /\ Running
  /\ worker = "pop"
  /\ tree_indications # <<>>
  /\ tree_indications' = Tail(tree_indications)
  /\ worker' = HandlerOf(Head(tree_indications).kind)
  /\ handled' = Head(tree_indications).move
  /\ UNCHANGED <<serverVars, wireVars, client_responses, transport, spent, treeVars, failure>>

PopIndication ==
  /\ Running
  /\ worker = "pop"
  /\ tree_indications # <<>>
  /\ tree_indications' = Tail(tree_indications)
  /\ worker' = HandlerOf(Head(tree_indications).kind)
  /\ handled' = Head(tree_indications).move
  /\ spent' = 0
  /\ UNCHANGED <<serverVars, wireVars, client_responses, transport, treeVars, failure>>

(* States a simulation visits below the root: none where play has ended.   *)
StatesVisited == IF Legal[rootPos] = {} THEN {0} ELSE 1..MaxStates

(* Mutant of SimulateOnce: the loop forgets to count. *)
SimulateOnceUncounted ==
  /\ Running
  /\ worker = "simulate"
  /\ LimitKind = "time" \/ spent < MoveBudget
  /\ Simulate
  /\ UNCHANGED <<serverVars, wireVars, queueVars, transport, workerVars, failure>>

(* Mutant of SimulateOnce: <= for < in the conditions of the loops. *)
SimulateOnceTooOften ==
  /\ Running
  /\ worker = "simulate"
  /\ \/ LimitKind = "time" /\ spent' = spent
     \/ LimitKind = "simulations" /\ spent <= MoveBudget /\ spent' = spent + 1
     \/ LimitKind = "states" /\ spent <= MoveBudget
        /\ \E states \in StatesVisited : spent' = spent + states
  /\ Simulate
  /\ UNCHANGED <<serverVars, wireVars, queueVars, transport, worker, handled, failure>>

(* One more turn of the loop.  Its time variant asks tree_indications      *)
(* whether it is empty without the mutex, and may still be told so after a *)
(* message arrived.                                                        *)
SimulateOnce ==
  /\ Running
  /\ worker = "simulate"
  /\ \/ LimitKind = "time" /\ spent' = spent
     \/ LimitKind = "simulations" /\ spent < MoveBudget /\ spent' = spent + 1
     \/ LimitKind = "states" /\ spent < MoveBudget
        /\ \E states \in StatesVisited : spent' = spent + states
  /\ Simulate
  /\ UNCHANGED <<serverVars, wireVars, queueVars, transport, worker, handled, failure>>

(* Mutant of SimulationsDone: the test for emptiness is inverted. *)
SimulationsDoneInverted ==
  IF LimitKind = "time" THEN tree_indications = <<>> ELSE spent >= MoveBudget

SimulationsDone ==
  IF LimitKind = "time" THEN tree_indications # <<>> ELSE spent >= MoveBudget

FinishSimulations ==
  /\ Running
  /\ worker = "simulate"
  /\ SimulationsDone
  /\ worker' = "pop"
  /\ UNCHANGED <<serverVars, wireVars, queueVars, transport, handled, spent, treeVars, failure>>

(* Mutant of ChooseBestMove: the tree is not re-rooted along our own move. *)
ChooseBestMoveUnapplied ==
  /\ Running
  /\ worker = "choose"
  /\ rootVisits > 0
  /\ \E m \in Legal[rootPos] :
       /\ Respond(MoveMessage(m))
       /\ handled' = m
  /\ worker' = "handle_status"
  /\ UNCHANGED <<serverVars, wireVars, tree_indications, transport, spent, treeVars, failure>>

(* Mutant of ChooseBestMove: the status overtakes the chosen move. *)
ChooseBestMoveSilent ==
  /\ Running
  /\ worker = "choose"
  /\ rootVisits > 0
  /\ \E m \in Legal[rootPos] : handled' = m
  /\ worker' = "reparent"
  /\ UNCHANGED <<serverVars, wireVars, queueVars, transport, spent, treeVars, failure>>

(* choose_best_move ranks the children that were simulated at least once   *)
(* and asserts that there is one.  The answer leaves before the tree is    *)
(* re-rooted.                                                              *)
ChooseBestMove ==
  /\ Running
  /\ worker = "choose"
  /\ \/ /\ rootVisits > 0
        /\ \E m \in Legal[rootPos] :
             /\ Respond(MoveMessage(m))
             /\ handled' = m
        /\ worker' = "reparent"
        /\ UNCHANGED failure
     \/ /\ rootVisits = 0
        /\ failure' = "no_visited_child"
        /\ UNCHANGED <<client_responses, handled, worker>>
  /\ UNCHANGED <<serverVars, wireVars, tree_indications, transport, spent, treeVars>>

(* The reasoner is only defined on legal moves. *)
ReparentAlongMove ==
  /\ Running
  /\ worker = "reparent"
  /\ \/ /\ handled \in Legal[rootPos]
        /\ Reparent(handled)
        /\ worker' = "handle_status"
        /\ UNCHANGED failure
     \/ /\ handled \notin Legal[rootPos]
        /\ failure' = "illegal_move"
        /\ UNCHANGED <<treeVars, worker>>
  /\ UNCHANGED <<serverVars, wireVars, queueVars, transport, handled, spent>>

(* Mutant of HandleReset: the status of the new tree is reported twice. *)
HandleResetTwice ==
  /\ Running
  /\ worker = "reset"
  /\ Rebuild
  /\ Respond(Signal(Status[InitPos]))
  /\ worker' = "handle_status"
  /\ UNCHANGED <<serverVars, wireVars, tree_indications, transport, handled, spent, failure>>

(* Mutant of HandleReset: only the counters are reset, the old tree stays. *)
HandleResetKeepsTree ==
  /\ Running
  /\ worker = "reset"
  /\ worker' = "handle_status"
  /\ UNCHANGED <<serverVars, wireVars, queueVars, transport, handled, spent, treeVars, failure>>

HandleReset ==
  /\ Running
  /\ worker = "reset"
  /\ Rebuild
  /\ worker' = "handle_status"
  /\ UNCHANGED <<serverVars, wireVars, queueVars, transport, handled, spent, failure>>

(* Mutant of HandleStatus: the end of the game is not noticed. *)
HandleStatusByMover ==
  /\ Running
  /\ worker = "handle_status"
  /\ Respond(Signal(IF Status[rootPos] = "own_turn" THEN "own_turn" ELSE "opponent_turn"))
  /\ worker' = "pop"
  /\ UNCHANGED <<serverVars, wireVars, tree_indications, transport, handled, spent, treeVars, failure>>

HandleStatus ==
  /\ Running
  /\ worker = "handle_status"
  /\ Respond(Signal(Status[rootPos]))
  /\ worker' = "pop"
  /\ UNCHANGED <<serverVars, wireVars, tree_indications, transport, handled, spent, treeVars, failure>>

-----------------------------------------------------------------------------
(* The game manager, external: a limit to the player on turn, the moves of *)
(* the others in the order they were played, no pause between two games.   *)

AskPlayer ==
  /\ Status[serverPos] = "own_turn"
  /\ ~asked
  /\ Len(toClient) < MaxInFlight
  /\ toClient' = Append(toClient, Signal("limit"))
  /\ asked' = TRUE
  /\ UNCHANGED <<serverPos, toServer, queueVars, transport, workerVars, treeVars, failure>>

AcceptMove ==
  /\ asked
  /\ toServer # <<>>
  /\ Head(toServer) \in Legal[serverPos]
  /\ toServer' = Tail(toServer)
  /\ serverPos' = Settle(After[serverPos][Head(toServer)])
  /\ asked' = FALSE
  /\ UNCHANGED <<toClient, queueVars, transport, workerVars, treeVars, failure>>

OpponentMove ==
  /\ Status[serverPos] = "opponent_turn"
  /\ Len(toClient) < MaxInFlight
  /\ \E m \in Legal[serverPos] :
       /\ toClient' = Append(toClient, MoveMessage(m))
       /\ serverPos' = Settle(After[serverPos][m])
  /\ UNCHANGED <<asked, toServer, queueVars, transport, workerVars, treeVars, failure>>

-----------------------------------------------------------------------------
TransportStep ==
  \/ GetGameStatus \/ ReceiveLimit \/ WaitForMove \/ RequestMove
  \/ ForwardOwnMove \/ OpponentTurn \/ ReceiveMove \/ EndGame

WorkerStep ==
  \/ PopIndication \/ FinishSimulations \/ ChooseBestMove
  \/ ReparentAlongMove \/ HandleReset \/ HandleStatus

Next ==
  \/ TransportStep
  \/ WorkerStep
  \/ SimulateOnce
  \/ AskPlayer \/ AcceptMove \/ OpponentMove

(* The scheduler runs both threads, a wait in them ends once its condition *)
(* holds, and the game manager reads answers and asks.  No opponent is     *)
(* ever obliged to move.                                                   *)
Fairness ==
  /\ WF_vars(TransportStep)
  /\ WF_vars(WorkerStep)
  /\ WF_vars(SimulateOnce)
  /\ WF_vars(AskPlayer)
  /\ WF_vars(AcceptMove)

SafeSpec == Init /\ [][Next]_vars
Spec == SafeSpec /\ Fairness

-----------------------------------------------------------------------------
(* Where the client will stand once it has handled what it has read.       *)

(* The move the tree has yet to be re-rooted along, if any. *)
Unapplied ==
  IF worker = "reparent" THEN handled
  ELSE IF tree_indications # <<>> THEN tree_indications[Len(tree_indications)].move
  ELSE NoMove

ClientView ==
  Settle(IF Unapplied = NoMove THEN rootPos ELSE After[rootPos][Unapplied])

(* Our move, from the moment it is chosen until the game manager reads it. *)
Answers ==
  {m \in Move : \/ toServer # <<>> /\ Head(toServer) = m
                \/ client_responses # <<>> /\ Head(client_responses) = MoveMessage(m)}

(* The client has read the limit and not yet chosen a move. *)
Thinking ==
  /\ transport \in {"wait_for_move", "request_move", "forward_own"}
  /\ Answers = {}

(* message leads a player that stands at p to q. *)
Delivers(p, message, q) ==
  \/ /\ message.kind = "move"
     /\ Status[p] = "opponent_turn"
     /\ message.move \in Legal[p]
     /\ q = Settle(After[p][message.move])
  \/ /\ message.kind = "limit"
     /\ Status[p] = "own_turn"
     /\ q = p

(* messages, delivered in order, lead a player from p to q. *)
Leads(p, messages, q) ==
  \E path \in [1..(Len(messages) + 1) -> Position] :
    /\ path[1] = p
    /\ path[Len(messages) + 1] = q
    /\ \A i \in 1..Len(messages) : Delivers(path[i], messages[i], path[i + 1])

(* A limit, if there is one, is the last unread message. *)
LimitUnread == toClient # <<>> /\ toClient[Len(toClient)].kind = "limit"

-----------------------------------------------------------------------------
(* Safety.                                                                 *)

(* Client and game manager play the same game: what the client has not     *)
(* read yet takes it from its own position to the manager's, across game   *)
(* ends too, and while its move is on the way only that move separates the *)
(* two.  The reset text play.py drops is not needed.                       *)
Agreement ==
  \/ Answers = {} /\ Leads(ClientView, toClient, serverPos)
  \/ /\ toClient = <<>>
     /\ \E m \in Legal[serverPos] :
          Answers = {m} /\ ClientView = Settle(After[serverPos][m])

(* A limit is outstanding exactly while it is unread, being thought about  *)
(* or answered by a move on its way: no question is lost, none answered    *)
(* twice and none answered before it is asked.                             *)
AskedOnce ==
  /\ asked <=> (LimitUnread \/ Thinking \/ Answers # {})
  /\ Thinking => ~LimitUnread
  /\ Answers # {} => Status[serverPos] = "own_turn"
  /\ \A i \in 1..(Len(toClient) - 1) : toClient[i].kind = "move"
  /\ Len(toServer) <= 1

(* The asserts of get_game_status and forward_move_from_player_to_server   *)
(* on the variant they pop hold, string_to_move never reads a limit, and   *)
(* the reasoner is never given a move that is illegal at the root.         *)
VariantsMatch == failure \in {"none", "no_visited_child"}

(* The two workers take turns: neither queue ever holds more than two      *)
(* messages, and there are none in one queue while there are in the other. *)
Lockstep ==
  /\ Len(tree_indications) <= 2
  /\ Len(client_responses) <= 2
  /\ tree_indications = <<>> \/ client_responses = <<>>

(* The tree is searched only where there is something to search (from a    *)
(* finished game STATES_LIMIT would loop for ever, no simulation visiting  *)
(* a state), asked for a move only on our turn, and thrown away only when  *)
(* the game is over.                                                       *)
TurnDiscipline ==
  /\ worker = "simulate" => Status[rootPos] # "end_game"
  /\ worker = "choose" => Status[rootPos] = "own_turn"
  /\ worker = "reset" => Status[rootPos] = "end_game"

(* The assert of get_top_ranked_child_index: when a move is requested, a   *)
(* simulation has been recorded since the tree was re-rooted or kept by    *)
(* re-rooting.                                                             *)
SomeChildVisited == worker = "choose" => rootVisits > 0

-----------------------------------------------------------------------------
(* Liveness and refinement.                                                *)

(* The player answers every time limit, unless its process has ended. *)
Answered == asked ~> (~asked \/ ~Running)

(* A finished game is noticed and a new tree built, unless the process has *)
(* ended.                                                                  *)
GameRestarts == Status[rootPos] = "end_game" ~> (rootPos = InitPos \/ ~Running)

Contract == INSTANCE GameContract WITH
  pos <- serverPos,
  phase <- IF ~asked THEN "watching" ELSE IF toServer = <<>> THEN "asked" ELSE "answered",
  answer <- IF toServer = <<>> THEN NoMove ELSE Head(toServer)

(* The player keeps its contract with the game manager, answers included. *)
KeepsContract == Contract!Spec

(* What it sends keeps the contract, whether or not it lives to answer. *)
KeepsContractSafely == Contract!SafeSpec
=============================================================================
