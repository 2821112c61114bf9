# Verification of rbgPlayer

TLA+ specifications, TLC model checking and TLAPS proofs of the Monte-Carlo
tree search player of this repository. Every definition that stands for code is
listed with the lines it was translated from in `PROJECT.json` ("map").

## The system

A player is one C++ process, assembled per game from interchangeable parts by
`play.py`. At run time:

    game manager <--TCP--> play.py <--TCP--> transport worker
                                               |           ^
                              tree_indications |           | client_responses
                                               v           |
                                             tree worker (tree_handler, Tree)

| component | state | operations | interaction |
|---|---|---|---|
| `transport_worker.cpp` (thread) | its place in the loop | wait for a status, then own turn (read limit, request simulation, sleep, request move, forward it), opponent's turn (request simulation, forward the move read), end of game (request a reset) | reads and writes the socket, produces indications, consumes responses |
| `tree_worker.cpp`, `tree_handler.cpp` (thread) | the tree, counters | the constructor's status report; handlers of move, move_request, simulation_request, reset_tree | consumes indications, produces responses, polls `tree_indications.empty()` without a lock |
| `concurrent_queue.hpp` | `std::queue`, mutex, two condition variables | emplace_back, emplace_back_or_block_if_too_much, pop_front, empty, size | shared by the two threads, one producer and one consumer each |
| trees (`orthodox_mcts`, `semisplit_mcts`, `rollup_mcts` over `mcts_common`) | vectors of nodes and children that refer to each other by index, root state, simulation counts | perform_simulation, reparent_along_move, choose_best_move, get_status | called by the tree handler; call simulator, move chooser, RAVE and reasoner |
| simulators, move choosers, RAVE, hash tables, action tables | move statistics | playouts, draws, updates, decay | called by the trees |
| receiver and sender | byte buffer | split into texts, parse a move or a limit; format a move | transport worker, socket |
| `play.py` proxy | two buffered sockets, two threads | forward_and_log in both directions, drops `reset`, closes on an empty text | game manager, player |
| `play.py` set-up, `Makefile`, `generate_split_players.py`, `split_strategies`, `agents` | files | configuration and compilation | before the game |
| reasoner (generated by rbg2cpp) | game state | legal moves, apply, scores | external, not in the repository |

Hard behaviours: two threads and a remote peer that take turns only by
convention; a status and a move in one queue told apart by position alone; an
answer that leaves before the tree is re-rooted; an unlocked read; a time limit
racing the first simulation; a game end each side notices by itself; trees that
are renumbered in place, lose dead ends and are rolled up while they are in use;
texts cut up or torn on their way and connections lost at any time; tables that
grow under indices in use. `PROJECT.json` lists each under "hazards" with its
line and the properties that cover it, or why none does.

What makes each component correct: the runtime keeps a contract with the game
manager and never loses step; the queue is an atomic FIFO queue that delivers;
a tree stays one tree of legal moves with consistent counts, its statuses agree
with the game, re-rooting and roll-ups keep what was known, and the move sent is
legal; the proxy forwards everything once and in order and shuts down; a table
files every score under the actions it was made for.

## Modules

| module | models | in terms of |
|---|---|---|
| `GameRules` | positions (after the keeper's turns), legal moves, statuses, the game manager's restart | constants |
| `GameContract` | what the player promises at the socket | `Ask`, `Answer`, `Accept`, `Watch` |
| `SearchTree` | what any tree promises the tree worker | root position and the number of simulations its children remember |
| `PlayerRuntime` | both threads, both queues, the wire, the game manager | composes `SearchTree`; refines `GameContract` |
| `ConcurrentQueue` | the queue, lock by lock | refines `FifoQueue` |
| `FifoQueue` | an atomic, delivering FIFO queue | histories of what was put and taken |
| `MctsTree` | what every tree shares: the two vectors, the first unvisited child, swaps, `fix_tree`, the ranking | operators on the vectors |
| `OrthodoxTree` | the tree of whole moves | extends `MctsTree`; refines `SearchTree` |
| `SplitGame` | the game within a turn: semimoves, split points (dots), texts of moves | constants |
| `SemisplitTree` | the tree of semimoves | extends `MctsTree` and `SplitGame`; refines `SearchTree` |
| `RollupTree` | the tree that rolls semimoves up | extends `SemisplitTree` |
| `ContextPlayout` | a playout of single actions, MAST in context, the hash table | extends `SplitGame` |
| `Proxy` | play.py between game manager and player, byte by byte | the wire `PlayerRuntime` takes for granted |
| `MCPlayerRuntime`, `MCConcurrentQueue`, `MCOrthodoxTree`, `MCSemisplitTree`, `MCRollupTree`, `MCContextPlayout`, `MCProxy` | the games, threads and texts of the TLC runs | |
| `PlayerRuntimeProofs`, `ConcurrentQueueProofs`, `ProxyProofs`, `OrthodoxTreeProofs`, `SemisplitTreeProofs`, `RollupTreeProofs`, `ContextPlayoutProofs` | inductive invariants, lemmas and theorems | extend the module they are named after |
| `MctsTreeProofs` | lemmas on sums and flattened sequences, and on the two vectors of a tree | the proofs about the three trees and about `ContextPlayout` rest on them |

### PlayerRuntime

`transport` and `worker` are the program counters. `get_status` is the blocking
`pop_front` in `get_game_status`; `own_turn`, `opponent_turn` and `end_game` are
the branches of the switch; `wait_for_move`, `request_move` and `forward_own`
are the places inside `handle_own_turn`, `receive_move` the read in an
opponent's turn. `handle_status` of the worker is the report at the end of the
constructor, of a re-rooting and of a reset; `pop` is its blocking `pop_front`;
`simulate`, `choose`, `reparent` and `reset` are the handlers.
`handle_move_request` is two steps, because the answer is queued before the tree
is re-rooted and the other thread may act in between; the rest of a handler
between two queue operations is one step, as no other thread can see it. Queue
operations are atomic, which `ConcurrentQueue` justifies, and the unlocked
`empty()` may say "empty" for some time after a message arrived (`SimulateOnce`
does not test the queue in time mode). The sleep of `wait_for_move` may be
shorter or longer than any number of simulations.

A failed assertion, an exception and a move the reasoner is not defined on set
`failure`, and then no thread of the process takes a step.

The wire carries whole messages in order; play.py's forwarding adds only delay.
`MaxInFlight` bounds the messages on their way to the player. The game manager
is external: it sends a limit to the player on turn, forwards moves of the
others, accepts a legal answer, and begins the next game without a pause
(`Settle`). It never moves for us when we are late: a player that misses its
limit is a matter for the manager, and timing is not modelled.

`rootVisits`, the number of simulations the children of the root remember, is
all that decides whether `choose_best_move` has something to choose. `MaxVisits`
caps it; above the cap counts are not told apart, and `Kept` then allows any.

### ConcurrentQueue

One action per lock, test, wait, copy, pop, unlock and notify. `notify_one` may
wake any sleeper, sleepers may wake without reason, and a woken thread has to
take the mutex again. `NoWakeUpLost` is why that is enough: while a consumer
sleeps, there are no more elements in the queue than threads that have yet to
notify or to come for one (`TendToData`), and the same goes for producers and
free places (`TendToSpace`). One limit serves all callers; nothing in the
repository calls the bounded variant yet. `size()` is not modelled: it changes nothing and nobody
calls it.

### OrthodoxTree

`nodes` and `children` are the vectors, a child's `index` is the node below it
or 0. `BeginSimulation`, `Descend` and `VisitChild` or `ScoreTerminal` are the
parts of `perform_simulation`; `Preorder`, `FixedNodes` and `FixedChildren` give
what `fix_tree` computes recursively. The child `get_best_uct_child_index` takes
is any child of the node, the scores of a playout are any scores. The model
compares average scores as fractions; for counts below 2^26 doubles order them
the same way.

### SemisplitTree and RollupTree

The vectors are those of `MctsTree`; a node also has `is_nodal` (a turn begins
there) and a status, an edge is a semimove. A simulation descends as in the
orthodox tree (`Descend`, `Expand`). At a node with unvisited children
`RemoveDeadEnd` is a failing `save_path_to_nodal_state`: the child is swapped
behind the last one and cut off, and a node that loses all its children becomes
terminal. `VisitChild` is one that succeeds: `way` is the path found to the end
of the turn, `tried` the dead ends met before, which the code no longer has in
`legal_actions` when it adds the rest of the turn (`Chain`, only with
`IS_NODAL`). `AfterPlayout` sets the status the playout tells of. `Walk` is the
depth-first search of `reparent_along_move` with its stack of dots, for actions
and for semimoves: one `WalkTurn` per turn of its loop, iterated by a recursive
function as often as there are children; `Rerooted` is `root_at_index`. `SavedPaths` and
`MovesFromPath` are `choose_best_move`: averages are open, so any path of
visited children may be saved, and a random suffix completes it.

`RollupTree` adds one `RollUp` for every node of the path, from the bottom, and
one for the root. Any subset of the children that are simulated often enough may
be chosen, since whether their scores differ enough is open.

The game is a graph of states (`Semimoves`, `Successor`, `Nodal`), with split
points at the beginning of a turn, in the middle and one after another, and with
dead ends; `SplitGameAssumption` says what the reasoner guarantees. `Depth`
bounds the semimoves left in a turn: turns end, which the recursions of the code
rely on, and the model's recursive functions on states with them.

### ContextPlayout

`legal_actions`, `reverters` and `turn` are the recursion of
`apply_random_move_exhaustive`; `TakeAction` and `TakeBack` are its way down and
back, `EndPlayout` a turn that cannot be completed, `UpdateAllMoves` the updates
after the playout. `context` is the number of the bucket of the action before,
and every look-up depends on it. Buckets, their links, growth and the hash are
modelled as they are: `Link` puts a bucket behind the last one of its slot, in
an insertion and for every bucket in turn when the table grows. A score is the
number of its updates; the history `credits` counts what the updates were for.
`Roomy` bounds the model to tables that do not outgrow `HASH_PRIMES`; the code
would read past the end of that array, with more than 10^9 buckets in a table.

Semimoves have one action here. Of a semimove of several actions
`switch_context` saves one context, after the contexts of all but the last
action, so `revert_context` restores a context in the middle of the semimove
taken back. Later actions of that turn are then looked up behind the actions
taken back. This concerns only which statistics guide a choice.

### Proxy

`up`, `down`, `buffer` and `inbox` are sequences of bytes. `ExtendBuffer` is one
`recv` of any part of what has arrived, `Prepare` the three texts of the
preparation read by the main thread, `Forward` one turn of `forward_and_log`,
`Join` both joins, `terminate` and the end. `SendText` and `PlayerHears` are the
player's sender and receiver as well as the manager's. A peer may close, leaving
the beginning of a text, or reset its connection at any time; writing to a peer
that is gone raises, at once or at a later write. The history `sent` holds what
each side wrote for the other one: no preparation, no reset and nothing empty
(`Due`), but a text torn by a close.

What the model shows beside its properties: a text torn by its writer's end is
forwarded as if it were whole (`InOrder` allows just that one); a reset makes
`recv` raise, which ends one thread and leaves the other side up, so that
`LossEndsAll` is about closed connections only; and a failed preparation leaves
play.py waiting, since the listener is no daemon and no player will connect to
it. `send` accepting a part of a message and `read` failing with -1 are not
modelled.

## Runs

| run | asks | states |
|---|---|---|
| `PlayerSimulations` | fixed number of simulations, simulating on opponents' turns, we move first: types, lockstep, turns, answers, the contract with liveness | 844 |
| `PlayerStates` | fixed number of states, opponents move first, no simulation on their turns, three messages in flight: the manager runs ahead across the end of a game; finished games restart | 1574 |
| `PlayerTime` | time limit: the variants match, every limit is answered unless the process has ended, what is sent keeps the contract | 782 |
| `PlayerNothingToChoose` | time limit: a move request finds nothing to choose from (expected violation) | |
| `QueueBounded` | two bounded producers and a consumer on a queue of one: the limit, what `empty()` said stays true, every call returns | 4352 |
| `QueueMixed` | all operations, two consumers: no wake-up is lost, refinement of `FifoQueue` with delivery | 121318 |
| `OrthodoxTree` | three of five positions with choices, two paths to one position, a stuck player, an end by the keeper, six simulations per root: shape, moves, counts, ranking, re-rooting, refinement of `SearchTree` | 65483 |
| `SemisplitTree` | single actions, whole turns added at once (`IS_NODAL`), ten states, dead ends and split points, five simulations per root: moves, statuses, counts, re-rooting, refinement of `SearchTree` | 4277 |
| `SemisplitEmptyMove` | single actions, one node per simulation: an empty move is sent (expected violation) | |
| `RollupTree` | semimoves of one and two actions, one node per simulation, six simulations per root: roll-ups keep what was learnt, the first unvisited child, re-rooting, legal moves | 12513 |
| `ContextPlayout` | three playouts from any turn, tables of 3 slots that grow: the context names the turn, every score is found | 96441 |
| `Proxy` | five texts of the manager and one of the player, two bytes each, closing and resetting at any time: order, delivery, shutdown | 134978 |

Bounds. The games have turns of ours followed by ours and by others', moves of
others in a row, and ends after a move of either side; the runtime never holds
more than two messages per queue (`Lockstep`), and `MaxInFlight` of 2 and 3 lets
the manager be a whole game end ahead. `MoveBudget` of 2 and 3 with up to 2
states per simulation exercises the loops and their overshoot. `MaxVisits`
exceeds the budget, so zero and non-zero counts are told apart after re-rooting.
Two threads on each condition variable are enough for a notification to reach
the wrong one. Six simulations expand every node of the game graph, visit some
children twice and leave others unvisited. Five simulations of whole turns, or
six of one node each, build turns through every split point and dead end of
their games, roll them up where several children are ripe, and re-root below
them. A first capacity of 3 lets a table grow several times in three playouts
and makes actions collide; the real sizes only make both rarer. In `Proxy` a
text has a middle, a `recv` may end at any byte of it or take the beginning of
the next, and the manager's window of two bytes makes its writer wait.
`CHECK_DEADLOCK FALSE` appears where the system may stop: a process that ended,
producers that made all their calls, playouts at their bound, play.py exited.

Fairness. `PlayerRuntime`: each thread is scheduled and a wait ends when its
condition holds (`WF` of the transport and of the worker step); `SimulateOnce`
has its own, as each turn of a loop is a step; the game manager asks and reads.
No opponent is obliged to move. In time mode `FinishSimulations` stays enabled
once a message is queued, so weak fairness of the worker's step says that a
stale "empty" is not read for ever. `ConcurrentQueue`: a thread runs on, a mutex
that is free again and again is finally obtained (`SF`), consumers return for
more as both workers do; nobody is obliged to call. `Proxy`: each thread of
play.py is scheduled (`WF` of `Prepare`, `Join` and of the two forwarding
threads), as each only waits for its own socket, and the player reads; nobody is
obliged to send or to close. The trees and `ContextPlayout` are sequential and
state no fairness.

### Findings

In time mode `handle_simulation_request` may run no simulation at all: if the
`move_request` is already queued when the `simulation_request` is popped, the
first test of `empty()` (`tree_handler.cpp:73`) ends the loop. The transport
worker queues the two in succession when the limit does not exceed
`BUFFER_TIME`. With a root none of whose children was visited
`assert(children_indices.size() > 0);` (`mcts_tree.cpp:167`) fails; in a release
build an empty vector is indexed. `PlayerNothingToChoose` shows the shortest
case, our first move.

With actions for semimoves and `IS_NODAL` false a turn may begin with a split
point, and its child may be the best one while nothing below it is expanded. The
saved path is then a single dot. `get_move_from_saved_path_with_random_suffix`
leaves dots out before it applies the move (`semisplit_tree.hpp:51-58`), so it
applies nothing, finds the root state nodal, adds no suffix and sends an empty
move, which play.py takes for a lost connection. `SemisplitEmptyMove` shows it.
Of semimoves (`GETTER` "S") the last dot is kept for the application, and
`ChosenMoveLegal` holds (`RollupTree`).

## Proofs

All theorems hold for every value of the constants. Those of the runtime, the
queue and the proxy are about `SafeSpec`, the specification without fairness;
those of the trees and the playout, which state none, are about `Spec`, and
about `RollupSpec` for the tree that rolls up.
They assume only what the modules declare: `GameAssumption` (statuses, moves and
successors are total, a game is over where there is no legal move, and it is not
over where it begins), `VisitsAssumption`, `RuntimeAssumption` (limits and
bounds are positive), `QueueAssumption` (finitely many threads, each of one
sort), `ProxyAssumption` (texts are not empty and hold no NUL, there are three
preparations), `TreeAssumption` (a position has finitely many legal moves, as
the code lists them in a vector; scores are natural numbers; the keeper has no
moves to choose from), `SplitGameAssumption` (what the reasoner promises within
a turn), `SemisplitAssumption` and `RollupAssumption` (the options have one of
their values, bounds are natural numbers) and `PlayoutAssumption` (semimoves have one action, a switch ends a turn
and nothing else does, and there is a list of table sizes).

`PlayerRuntimeProofs`. `TypeCorrect` comes first and stands alone. `Lockstep`
and the other invariants are not inductive: they say what a queue never holds,
not what it does hold. `Protocol` lists it: eight shapes of the two queues
together with the places of the two threads (`OnTurn`, `BeforeRequest`,
`AfterRequest`, `AfterChoice`, `Watching`, `AfterWatching`, `AfterGame`,
`AwaitingStatus`). With `TypeOK` it is inductive whatever the game manager
sends, and gives `WorkersTakeTurns` and `TreeAskedInTurn`.

What the game manager and the client believe needs more:

    IInv == TypeOK /\ Protocol /\ GameInv
    GameInv == UnappliedLegal /\ WireFree /\ Agreement /\ AskedOnce /\ VariantsMatch

`Agreement` says that the messages still to be read lead from the client's view
to the manager's position; `UnappliedLegal` that a move chosen or read but not
yet applied is legal at the root; `WireFree` that no answer is on the wire while
the next one is made; `AskedOnce` and `VariantsMatch` need one another, since a
message is read as what it is only because limits are sent in turn, and an
answer is legal only because nothing was misread. `Agreement` follows a path
over a sequence of messages; the lemmas `LeadsNowhere`, `LeadsTail`,
`LeadsAppend` and `LeadsLast` say what reading and sending do to such a path,
with the path as a witness, so that no induction is needed. From `IInv` follow
`OneGame`, `LimitsAnsweredOnce` and `NothingMisread`.

`ContractKept` maps steps: `AskPlayer` is `Ask`, `ForwardOwnMove` is `Answer`,
`AcceptMove` is `Accept`, `OpponentMove` is `Watch`, the rest stutter; `AskedOnce`
is what makes an answer allowed. `SomethingToChoose` strengthens
`SomeChildVisited` to `Visited` (a simulation was made or is still owed before
the request is popped) and assumes that the limit is not one of time; with one
the property fails, which is the finding above.

`ConcurrentQueueProofs`. `IInv` adds to `TypeOK`, `Bounded` and
`NoWakeUpLost`: one thread at a time is between its lock and its unlock
(`MutualExclusion`), who sleeps does so inside a wait (`SleepersWait`), a call is
counted (`Called`), the element a consumer copied is still
the first (`InHand`), what came out followed by what is inside is what went in
(`InOrder`), the place a bounded producer found is still free (`PlaceFound`),
and what a lone consumer has seen is there (`SeenIsThere`). The mutex makes
`InHand` and `PlaceFound` inductive, and these make `InOrder` and `Bounded` so.
`NobodyOversleeps` counts: an element emplaced adds one to `TendToData`, the
producer that has yet to notify, a notification replaces it by the consumer
woken, and an element popped takes one from each side of `DataTended`; places
likewise.
`FirstInFirstOut` maps `Emplace` to `Put` and `Pop` to `Take`; `HeadMoved` and
`AppendToSecond` are the facts on sequences it rests on. Since this theorem
holds for any number of threads, `PlayerRuntime` may take queue operations as
atomic. `QueueTypes` is the type invariant alone.

`ProxyProofs`. `TextsInOrder` is about streams of bytes, for all texts, quotas
and windows. `Carries` says what a stream is: a number of whole texts and the
beginning of one more, of which some go nowhere (preparations, `Reset`) and the
others are the next ones of a given list; the rests of the stream behind each
text are its witnesses, so that no induction is needed. `CarriesMore`,
`CarriesTorn` and `CarriesLess` write and read at its ends, `ReadsWord` shows
that the search for the first NUL finds exactly the first text wherever the
reads were cut. `ReadUpTo` is such a stream from one peer: the buffer and the
wire, or, after a reset, the buffer and something lost; `Forwarded` the stream
to the player. The invariant

    IInv == Types /\ Phase /\ ToPlayer /\ ToManager /\ HeardIsSent

ties them together: the text where the stream to the player ends is the one
where the stream from the manager begins, and the manager has heard as many as
were read from the player, both as long as the other side is there (`Gone`).
`Phase` says why nothing half read is forwarded after a reset: a socket is shut
down only after the other side has come to its end.

`OrthodoxTreeProofs`. There are positions of the nodes for which

    Sound == Tree /\ Counted
    Tree  == Vectors /\ Links /\ Placement /\ Moves /\ VisitedOrder

hold at any time: ranges of children lie in the vector, do not overlap and cover
it; every node but the root is the node of one child, whose parent is older; a
child's node stands for the position its move leads to; the children of an expanded node
are its legal moves; visited ones come first. `Counted` balances the count of a
child with those of the children of its node. None of this can be read off the
vectors alone (nodes do not store their positions), hence the existential
quantifier over positions, whose witness every step has to give. Within a
simulation `Descending` adds that the stack leads from the root to the node it
has come to (`Way`), and that `node_sim_count` is the count of that node
(`SimulatedTimes`); `Pending` is what holds of the counts between the playout
and the end of the backpropagation. A new block of children, a swap, a new node and the
backpropagation each have a lemma of what they keep; re-rooting copies a subtree
(`FixedIsCopy`, `IsCopy`), and what a copy keeps is proved once for its shape
(`CopyKeepsTree`), its counts and its knowledge. From the invariant follow
`TreeTypes`, `OneTree`, `ChildrenAreMoves`, `UnvisitedFound` and `VisitsAddUp`;
`KeepsSearchTree` maps a visit to `Simulate` and a re-rooting to `Reparent`,
with the sum of the root's children for the visits remembered. `BestMovePlayed`
is about the ranking loop, a fold over the children: after each prefix the loop
holds the best of it, since fractions compared by cross products are ordered
transitively. `KnowledgeKept` is the action property that re-rooting keeps
moves, counts and scores below the move played. It speaks of every move the step
may be a re-rooting along: where two moves lead to one position, what was known
of the one does not excuse forgetting the other.

`SemisplitTreeProofs`. The invariant has the plan of the one before,

    IInv(rolled) == \E L, pos : Inv(rolled, L, pos)
    Tree == Vectors /\ Links /\ Stands /\ Covers /\ Statuses /\ VisitedOnTop

with two differences in its data. The vectors hold more than the tree: a dead
end cut off and a block of children rolled up stay behind as garbage, so `L`,
the nodes still in the tree, is a witness beside `pos`, the states they stand
for. And an edge is no longer a legal move but the beginning of some: `Covers`
says that the edges of an expanded node are semimoves of its state, that the
moves through two of them differ, and that those through all of them are the
legal moves. `rolled` says whether a node may count more than its children
account for, which only roll-ups bring about; with `rolled` false `Counted` is
the exact balance. `Touched` says that a node within a turn was expanded for a
visit: except for the one the simulation has come to, it has a visited child.
`Idling`, `Descending` and `Returning` are the places within a simulation.

Dead ends: `RemoveDeadEnd` cuts a child off only if no move passes through it,
so `Covers` survives. A live node is within a turn that can be completed, and
one that is not terminal has moves (`Statuses`), so that another child is left:
the branch of the code marked "fix", in which a node loses all its children, is
never taken (`CutBlocks`). `VisitChild` with `IS_NODAL` adds the nodes of a
whole turn at once, one simulation each; that the backpropagation then adds
exactly one to every count on the way is shown with `CountedBut`, the balance
with one node excepted.
Re-rooting copies a subtree of the live nodes (`IsCopy`), for which the lemmas
of `MctsTreeProofs` on copies are used again, and `WalkHolds` is the invariant
of the search's loop: each place on its stack is a node of this turn, reached by
a beginning of the move. From `SemisplitInvariant` follow the five invariants
the run checks.

`SemisplitChosenMoveLegal` assumes `GETTER = "S" \/ IS_NODAL`. This leaves out
exactly the configuration of `SemisplitEmptyMove`, where the statement is false.
With `IS_NODAL` the reason is `TurnsWhole`: a node within a turn was made by a
chain that reached its end, so that every saved path ends a turn.

`RollupTreeProofs`. `RollUp` preserves `IInv(TRUE)`: the children that move up
are new entries at the end of the vector, the edges to them are spelled anew
(`Raised`) and stand for the same states; `RollsUp` says so of the vectors alone,
and each part of the invariant is shown to survive it. From `RollupInvariant`
follow the invariants of the semisplit tree, with `ChosenMoveLegal` for
semimoves (`GETTER = "S"`, as in the run; of actions the finding above applies).
`RollupKeepsTurns` is about the recursive function `Turns`: what a node knows
about the turns through it is a union over its children, and a roll-up replaces
one term of this union by the terms it stands for. At the nodes it does not
touch nothing changes, by induction on the nodes, as those below are younger.

`SemisplitKeepsSearchTree` closes that module: for `Spec`, under the assumption
of `SemisplitChosenMoveLegal`, simulations and re-rootings are steps of
`SearchTree`. It does not hold of `RollupSpec`: a child that is rolled up may
have counted one simulation more than its children, which the root's children
then no longer remember, so that this sum may fall although nothing was played.

`SemisplitKeepsOrForgets` and `RollupKeepsOrForgets` hold of every game:
re-rooting keeps the count and the knowledge of a turn whose
text is the move played, or it keeps nothing. Two arguments meet. `WalkKnows` is
an invariant of the search: reading what is left of the move from its node
continues a turn the tree knows from the root. `CopyKeepsKnowledge` is about the
copy: what is known below a node is a recursive function of what is below its
children, and the copied vectors give the same function, by induction from the
youngest node to the oldest, although all indices have changed.

`SemisplitKeepsSubtree` and `RollupKeepsSubtree` add that the search of
`reparent_along_move` fails for a reason only: if the tree knew a way to the end
of the move that nothing hides, and no leaf is open within a turn, the search
finds a child. They assume `GETTER = "A" \/ Telling`. The search goes back to a
split point, but never to before an action it has matched; so the beginning of a
move must tell the state it leads to. Actions for edges always do
(`ActionsTelling`), and so do semimoves that stop at split points only
(`SplitsTelling`). Other games need not: if a state has the semimove `<<a>>`,
which goes on with `<<c>>`, and a split point `<<dot>>`, which goes on with
`<<a, b>>`, the search for `a b` takes `<<a>>` and gives up, although it knew the
end of that turn, and TLC finds `KeepsSubtree` violated. Only simulations are
lost by it. TLC checks `Telling` of the game of `RollupTree` on every run
(`MCTelling`). The argument has three parts. `Tracks` is the invariant: either
the node searched lies on the way known (`OnTrack`), or it lies behind a dot off
that way, where nothing matches that is not part of another move, and one of the
dots remembered leads back (`Waits`). `EndMoves` makes the children of a node
tell whose move is whose: what is known below a child is among the moves through
it, and no move passes through two. And the loop ends: `Past` says which
children the search is done with, and as it is done with each once and comes
back from each dot at most once, it never needs more than the turns the model
gives it, twice the number of children and one (`SearchFinds`). The bound of the
recursive function in `Walk` is thus no restriction.

`Preorder`, the sums, the folds and `Knowledge` are recursive functions. That
there is such a function is a lemma each time, proved by building it value by
value; what it computes follows by induction, stated with sets of numbers
(`SetInduction`, `LeastNat`), which first-order provers can use.

`ContextPlayoutProofs`. `IsGood` is what a hash table is at any time: links lead
forward, so that following them ends; each bucket is found by looking up its own
action and context, which is the whole point of the table; a context is older
than its bucket, so that names of buckets can be told. `LinkLinks` shows that
putting a bucket behind the last of its slot keeps it and everything before it
findable. Growing is the same lemma for each bucket in turn, after its stale
link is taken away (`GrowGoesOn`); the links to buckets not linked yet are the
reason why only the first buckets are known to be found meanwhile (`FindsUpTo`).
No two buckets have one name (`NamesDiffer`), and `BucketOf` finds the bucket of
a name if there is one (`BucketOfFinds`). The invariant

    IInv == InContext /\ Scored
    InContext == tables are good /\ Types /\ Depths /\ Options /\ PathEnds
                                  /\ OnePlayer /\ Contexts

says that the path ends with the turn and a turn has one player, so that the
updates after the playout meet the contexts of the playout again; `Scored`, that
the weight of a bucket is the number of credits for its name and nothing was
credited that has no bucket. The updates of a playout are a recursive function;
`UpTo(k)` is what holds after k of them. `ContextIsTurn` and `ScoresAreCredits`
follow, and `UpdatesEndTurns`, the assertion at the end of `update_all_moves`.

## Not modelled, and the plan

Left out for good: the generated reasoner, floating-point weights (UCT, MAST and
RAVE priorities, decay), printed statistics, configuration, compilation and
installation. RAVE statistics decide only priorities, which every tree model
leaves open; the action tables and the containers of moves wrap arrays and the
hash table. `MAX_SEMIDEPTH` is a bound a game has to keep: the depth of the
recursion is never checked against it. Unsigned sums of scores may wrap after
very many simulations of one move; the models use natural numbers and never get
there. The random generator is open everywhere.

Model-checked only: liveness (`Answered`, `GameRestarts`, the liveness parts of
`KeepsContract` and `KeepsFifo`, `CallsReturn`, `Delivered`, `LossEndsAll`),
which the proof system does not reach. All other properties of the passing runs
are theorems.

Next:

1. `RollupTree` with actions and `SemisplitTree` with semimoves and `IS_NODAL`
   as runs of their own; the choice between saved paths by average scores.
2. The sets of moves that RAVE keeps at nodes, on the table of `ContextPlayout`.
