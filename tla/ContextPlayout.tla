--------------------------- MODULE ContextPlayout ---------------------------
(***************************************************************************)
(* A playout of single actions (semisplit_simulator) with the statistics   *)
(* of MAST in context (mast_context): an action is rated together with the *)
(* actions before it in its turn, which the number of their bucket in the  *)
(* hash table of the player stands for.  Dead ends are taken back, and the *)
(* table grows under the contexts in use.                                  *)
(*                                                                         *)
(* A score is the number of its updates; decay is left out, and which      *)
(* action is drawn is open.                                                *)
(***************************************************************************)
EXTENDS SplitGame, FiniteSets

CONSTANTS
  HASH_PRIMES, HASH_OVERLOAD_FACTOR, HASHMAP_INITIAL_LEVEL,
  Code,        \* Code[a]: index * 17 + cell
  Switch,      \* is_switch: the actions that end a turn
  MaxPlayouts  \* bounds the scores

ASSUME PlayoutAssumption ==
  /\ KEEPER \notin Player
  /\ \A s \in State : \A e \in Semimoves[s] : Len(e) = 1
  /\ HASH_PRIMES \in Seq(Nat \ {0}) /\ HASHMAP_INITIAL_LEVEL \in DOMAIN HASH_PRIMES
  /\ HASH_OVERLOAD_FACTOR \in Nat \ {0}
  /\ Code \in [Action -> Nat]
  /\ Switch \subseteq Action \ Dot
  /\ \A s \in State : \A e \in Semimoves[s] :
       /\ Successor[s][e] \in Nodal <=> e[1] \in Switch
       /\ Successor[s][e] \notin Nodal => Mover[Successor[s][e]] = Mover[s]
  /\ MaxPlayouts \in Nat

VARIABLES
  moves,          \* moves[p]: the hash table of player p
  context, context_stack,
  path,           \* the actions of the playout and who took them
  state,
  legal_actions,  \* legal_actions[d]: what is left to try at depth d
  reverters,      \* the states before the actions of the turn
  turn,           \* the actions of the turn
  playouts,
  credits,        \* the number of updates made for each player's beginnings of turns
  pc              \* "idle", "play" or "update"

chooser == <<context, context_stack, path>>
recursion == <<state, legal_actions, reverters, turn>>
vars == <<moves, chooser, recursion, playouts, credits, pc>>

-----------------------------------------------------------------------------
(* The hash table t.  Bucket 0 is the default, which is never looked for.  *)

Bucket(t, i) == t.buckets[i + 1]
NewBucket(a, c) == [move |-> a, context |-> c, next |-> 0, weight |-> 0]

hash(a, c) == IF a \in Dot THEN c ELSE Code[a] * 13 + c

EmptySlots(level) == [h \in 0..(HASH_PRIMES[level] - 1) |-> 0]

Slot(t, a, c) == hash(a, c) % HASH_PRIMES[t.capacity_level]
SlotOf(t, i) == Slot(t, Bucket(t, i).move, Bucket(t, i).context)

(* The last bucket on the links from bucket i. *)
EndOfLinks(t, i) ==
  LET end[j \in 0..(Len(t.buckets) - 1)] == IF Bucket(t, j).next = 0 THEN j ELSE end[Bucket(t, j).next]
  IN end[i]

(* Mutant of Link: the slot is overwritten. *)
Overwritten(t, i) == [t EXCEPT !.hashtable[SlotOf(t, i)] = i]

(* Bucket i is linked behind those of its slot. *)
Link(t, i) ==
  LET first == t.hashtable[SlotOf(t, i)]
  IN IF first = 0 THEN [t EXCEPT !.hashtable[SlotOf(t, i)] = i]
     ELSE [t EXCEPT !.buckets[EndOfLinks(t, first) + 1].next = i]

grow_hashtable(t) ==
  LET linked[i \in 0..(Len(t.buckets) - 1)] ==
        IF i = 0 THEN [t EXCEPT !.capacity_level = @ + 1, !.hashtable = EmptySlots(t.capacity_level + 1)]
        ELSE Link([linked[i - 1] EXCEPT !.buckets[i + 1].next = 0], i)
  IN linked[Len(t.buckets) - 1]

find_or_get_default(t, a, c) ==
  LET from[i \in 0..(Len(t.buckets) - 1)] ==
        IF i = 0 \/ (Bucket(t, i).move = a /\ Bucket(t, i).context = c) THEN i
        ELSE from[Bucket(t, i).next]
  IN from[t.hashtable[Slot(t, a, c)]]

(* The table after find_or_insert, and the index it returns. *)
find_or_insert(t, a, c) ==
  LET found == find_or_get_default(t, a, c)
      linked == Link([t EXCEPT !.buckets = Append(@, NewBucket(a, c))], Len(t.buckets))
      full == (Len(t.buckets) + 1) * HASH_OVERLOAD_FACTOR >= HASH_PRIMES[t.capacity_level]
  IN IF found # 0 THEN [table |-> t, index |-> found]
     ELSE [table |-> IF full THEN grow_hashtable(linked) ELSE linked, index |-> Len(t.buckets)]

insert_or_update(t, a, c) ==
  LET found == find_or_insert(t, a, c)
  IN [found EXCEPT !.table.buckets[found.index + 1].weight = @ + 1]

(* The bucket that the contexts of actions in a row lead to; 0 is none. *)
BucketOf(t, actions) ==
  LET at[k \in 0..Len(actions)] == IF k = 0 \/ (k > 1 /\ at[k - 1] = 0) THEN 0
                                    ELSE find_or_get_default(t, actions[k], at[k - 1])
  IN at[Len(actions)]

Score(t, actions) == Bucket(t, BucketOf(t, actions)).weight

(* A bound of the model: no table outgrows HASH_PRIMES.  The code would go  *)
(* on past the end of the array, with more than 10^9 buckets in a table.    *)
Roomy(tables) == \A p \in Player : tables[p].capacity_level \in DOMAIN HASH_PRIMES

-----------------------------------------------------------------------------
FreshTable ==
  [buckets |-> <<NewBucket(CHOOSE a \in Action : TRUE, 0)>>,
   capacity_level |-> HASHMAP_INITIAL_LEVEL,
   hashtable |-> EmptySlots(HASHMAP_INITIAL_LEVEL)]

Init ==
  /\ moves = [p \in Player |-> FreshTable]
  /\ context = 0 /\ context_stack = <<>> /\ path = <<>>
  /\ state = InitState
  /\ legal_actions = <<>> /\ reverters = <<>> /\ turn = <<>>
  /\ playouts = 0 /\ credits = <<>>
  /\ pc = "idle"

(* A turn begins, or play has ended because the keeper has no move. *)
BeginTurn(s) ==
  /\ state' = s
  /\ reverters' = <<>> /\ turn' = <<>>
  /\ IF Mover[s] = KEEPER THEN pc' = "update" /\ legal_actions' = <<>>
     ELSE pc' = "play" /\ legal_actions' = <<Semimoves[s]>>

BeginPlayout ==
  /\ pc = "idle"
  /\ playouts < MaxPlayouts
  /\ \E s \in Nodal : BeginTurn(s)
  /\ context' = 0 /\ context_stack' = <<>> /\ path' = <<>>
  /\ UNCHANGED <<moves, playouts, credits>>

switch_context(a, p) ==
  IF a \in Switch
  THEN context' = 0 /\ context_stack' = <<>> /\ UNCHANGED moves
  ELSE /\ context_stack' = Append(context_stack, context)
       /\ IF a \in Dot THEN UNCHANGED <<context, moves>>
          ELSE LET found == find_or_insert(moves[p], a, context)
               IN context' = found.index /\ moves' = [moves EXCEPT ![p] = found.table]

(* Mutant of revert_context: the context is forgotten instead of restored. *)
revert_context_only_pop ==
  /\ context_stack' = Front(context_stack)
  /\ UNCHANGED context

revert_context ==
  /\ context' = Last(context_stack)
  /\ context_stack' = Front(context_stack)

(* apply_random_move_exhaustive takes an action, *)
TakeAction(e) ==
  LET s == Successor[state][e]
  IN /\ pc = "play"
     /\ e \in Last(legal_actions)
     /\ switch_context(e[1], Mover[state]) /\ Roomy(moves')
     /\ path' = Append(path, [action |-> e[1], player |-> Mover[state]])
     /\ IF s \in Nodal THEN BeginTurn(s)
        ELSE /\ state' = s
             /\ reverters' = Append(reverters, state)
             /\ turn' = Append(turn, e[1])
             /\ legal_actions' = Append(legal_actions, Semimoves[s])
             /\ UNCHANGED pc
     /\ UNCHANGED <<playouts, credits>>

(* takes it back where it has led to a dead end, *)
TakeBack ==
  /\ pc = "play"
  /\ Last(legal_actions) = {} /\ turn # <<>>
  /\ state' = Last(reverters)
  /\ revert_context
  /\ legal_actions' = [Front(legal_actions) EXCEPT ![Len(turn)] = @ \ {<<Last(turn)>>}]
  /\ path' = Front(path)
  /\ reverters' = Front(reverters)
  /\ turn' = Front(turn)
  /\ UNCHANGED <<moves, playouts, credits, pc>>

(* and fails if the turn cannot be completed, which ends the playout. *)
EndPlayout ==
  /\ pc = "play"
  /\ Last(legal_actions) = {} /\ turn = <<>>
  /\ pc' = "update"
  /\ UNCHANGED <<moves, chooser, recursion, playouts, credits>>

(* update_move, on the tables and the context. *)
update_move(x, move) ==
  LET found == insert_or_update(x.moves[move.player], move.action, x.context)
  IN [moves |-> [x.moves EXCEPT ![move.player] = found.table],
      context |-> CASE move.action \in Switch -> 0
                    [] move.action \in Dot -> x.context
                    [] OTHER -> found.index]

(* The beginning of a turn that ends with the k-th action of the path. *)
TurnUpTo(k) ==
  LET since == CHOOSE i \in 1..k : /\ i = 1 \/ path[i - 1].action \in Switch
                                  /\ \A j \in i..(k - 1) : path[j].action \notin Switch
  IN Append(Written([j \in 1..(k - since) |-> path[since + j - 1].action]), path[k].action)

Credited(c) == IF c \in DOMAIN credits THEN credits[c] ELSE 0

(* Who is credited with which beginning of a turn for the k-th action. *)
Credit(k) == <<path[k].player, TurnUpTo(k)>>

(* The tables and the context after the first k updates of update_all_moves. *)
Updated ==
  LET after[k \in 0..Len(path)] == IF k = 0 THEN [moves |-> moves, context |-> context]
                                   ELSE update_move(after[k - 1], path[k])
  IN after

(* update_all_moves, and the reset at the end of perform_simulation. *)
UpdateAllMoves ==
  /\ pc = "update"
  /\ \A k \in DOMAIN path : Roomy(Updated[k].moves)
  /\ moves' = Updated[Len(path)].moves
  /\ credits' = [c \in DOMAIN credits \union {Credit(k) : k \in DOMAIN path} |->
                   Credited(c) + Cardinality({k \in DOMAIN path : Credit(k) = c})]
  /\ context' = 0 /\ context_stack' = <<>> /\ path' = <<>>
  /\ playouts' = playouts + 1
  /\ pc' = "idle"
  /\ UNCHANGED recursion

Next ==
  \/ BeginPlayout \/ TakeBack \/ EndPlayout \/ UpdateAllMoves
  \/ \E e \in UNION {Semimoves[s] : s \in State} : TakeAction(e)

Spec == Init /\ [][Next]_vars
-----------------------------------------------------------------------------
(* The actions a bucket stands for. *)
Named(t, i) ==
  LET name[j \in 0..(Len(t.buckets) - 1)] ==
        IF j = 0 THEN <<>> ELSE Append(name[Bucket(t, j).context], Bucket(t, j).move)
  IN name[i]

(* Wherever a turn has got to, by actions taken, taken back and taken      *)
(* anew, with tables growing meanwhile, the context stands for exactly its *)
(* actions, and what revert_context will restore for exactly those before. *)
ContextNamesTurn ==
  /\ Len(context_stack) = Len(turn)
  /\ pc # "idle" =>
       IF turn = <<>> THEN context = 0
       ELSE \A k \in 1..(Len(turn) + 1) :
              Named(moves[Last(path).player], Append(context_stack, context)[k])
                = Written(SubSeq(turn, 1, k - 1))

(* The beginnings of turns, without dots but for one at the end. *)
Beginnings == {r.actions : r \in UNION {Reachable[s] : s \in Nodal}}

(* However the table grew and whatever collided in it: looking up the      *)
(* beginning of a turn finds the updates made for it, all and no others.   *)
ScoresInContext ==
  pc = "idle" =>
    \A p \in Player : \A b \in Beginnings : Score(moves[p], b) = Credited(<<p, b>>)
=============================================================================
