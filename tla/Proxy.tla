-------------------------------- MODULE Proxy --------------------------------
(***************************************************************************)
(* play.py between the game manager and the player: it reads the manager's *)
(* preparations, starts the player, says "ready" and forwards texts in     *)
(* both directions, one thread for each, until a connection is lost.  On   *)
(* the wires are bytes; a NUL ends a text.  Whoever reads (BufferedSocket, *)
(* remote_moves_receiver) gets any part of what has arrived.               *)
(*                                                                         *)
(* A peer may close its end, in the middle of a text too, or reset it.     *)
(* The manager is external, of the player only the sockets are here.       *)
(***************************************************************************)
EXTENDS Integers, Sequences, SequencesExt

CONSTANTS
  Message,      \* texts, sequences of bytes
  Reset,        \* the text play.py does not forward
  Ready,        \* the text it adds
  Preparation,  \* the texts the manager begins with: seconds, rules, number
  Quota,        \* Quota[p]: texts p writes at most
  Window        \* bytes on a wire from which on its writer waits

NUL == 0
Peer == {"manager", "player"}
Other(p) == CHOOSE q \in Peer : q # p

ASSUME ProxyAssumption ==
  /\ Message \union {Reset, Ready} \subseteq Seq(Nat \ {NUL}) \ {<<>>}
  /\ Preparation \in Seq(Seq(Nat \ {NUL}) \ {<<>>}) /\ Len(Preparation) = 3
  /\ Quota \in [Peer -> Nat]
  /\ Window \in Nat \ {0}

VARIABLES
  alive,   \* alive[p]: "open", "closed" or "reset", what p made of its end
  shut,    \* shut[p]: play.py has shut down or closed its socket to p
  up,      \* up[p]: bytes on their way from p to play.py
  down,    \* bytes on their way from play.py to the player
  buffer,  \* buffer[p]: current_buffer of the BufferedSocket to p
  inbox,   \* the buffer of the player's receiver
  thread,  \* thread[p]: "new", "read" or "done", the thread that reads from p
  main,    \* "prepare", "failed", "forward" or "exited"
  told,    \* how many preparations main has read
  written, \* written[p]: how many texts p has written
  sent,    \* sent[p]: what p has written for the other side
  heard    \* heard[p]: the texts p has read, or will if it is the manager

sockets == <<alive, shut>>
history == <<written, sent>>
vars == <<sockets, up, down, buffer, inbox, thread, main, told, history, heard>>

Init ==
  /\ alive = [p \in Peer |-> "open"]
  /\ shut = [p \in Peer |-> FALSE]
  /\ up = [p \in Peer |-> <<>>]
  /\ down = <<>>
  /\ buffer = [p \in Peer |-> <<>>]
  /\ inbox = <<>>
  /\ thread = [p \in Peer |-> "new"]
  /\ main = "prepare"
  /\ told = 0
  /\ written = [p \in Peer |-> 0]
  /\ sent = [p \in Peer |-> <<>>]
  /\ heard = [p \in Peer |-> <<>>]

Extend(wire, p, bytes) == [wire EXCEPT ![p] = @ \o bytes]
Framed(text) == Append(text, NUL)

(* send_message to p, where it is there to read it. *)
Send(p, text) ==
  IF p = "player" THEN down' = down \o Framed(text) /\ UNCHANGED heard
  ELSE heard' = [heard EXCEPT !["manager"] = Append(@, text)] /\ UNCHANGED down

-----------------------------------------------------------------------------
(* read_until: what has been read, up to a NUL or to the end of stream.    *)

Complete(bytes) == \E i \in DOMAIN bytes : bytes[i] = NUL

FirstNul(bytes) ==
  CHOOSE i \in DOMAIN bytes : bytes[i] = NUL /\ \A j \in 1..(i - 1) : bytes[j] # NUL

Text(bytes) == IF Complete(bytes) THEN SubSeq(bytes, 1, FirstNul(bytes) - 1) ELSE bytes

(* Mutant of Rest: what was read beyond the text is thrown away. *)
RestDropped(bytes) == <<>>

Rest(bytes) == IF Complete(bytes) THEN SubSeq(bytes, FirstNul(bytes) + 1, Len(bytes)) ELSE <<>>

(* Nothing more will come from p. *)
AtEnd(p) == up[p] = <<>> /\ (alive[p] = "closed" \/ shut[p])

(* Somebody reads from p: main at first, then its thread. *)
Reading(p) == thread[p] = "read" \/ (main = "prepare" /\ p = "manager")

(* One recv. *)
ExtendBuffer(p) ==
  /\ Reading(p)
  /\ ~Complete(buffer[p])
  /\ \E n \in 1..Len(up[p]) :
       /\ buffer' = Extend(buffer, p, SubSeq(up[p], 1, n))
       /\ up' = [up EXCEPT ![p] = SubSeq(@, n + 1, Len(@))]
  /\ UNCHANGED <<sockets, down, inbox, thread, main, told, history, heard>>

(* recv raises, which ends the thread. *)
ReceiveRaises(p) ==
  /\ Reading(p)
  /\ ~Complete(buffer[p])
  /\ alive[p] = "reset"
  /\ thread' = [thread EXCEPT ![p] = "done"]
  /\ main' = IF main = "prepare" THEN "failed" ELSE main
  /\ UNCHANGED <<sockets, up, down, buffer, inbox, told, history, heard>>

ReceiveMessage(p) ==
  /\ Complete(buffer[p]) \/ AtEnd(p)
  /\ buffer' = [buffer EXCEPT ![p] = Rest(@)]

(* Mutant of Prepare: the thread starts with a BufferedSocket of its own.   *)
PrepareFreshBuffer ==
  /\ main = "prepare"
  /\ Complete(buffer["manager"])
  /\ Text(buffer["manager"]) # <<>>
  /\ told' = told + 1
  /\ IF told' = Len(Preparation)
     THEN /\ main' = "forward"
          /\ thread' = [p \in Peer |-> "read"]
          /\ Send("manager", Ready)
          /\ buffer' = [p \in Peer |-> <<>>]
     ELSE ReceiveMessage("manager") /\ UNCHANGED <<main, thread, down, heard>>
  /\ UNCHANGED <<sockets, up, inbox, history>>

(* receive_preparation_seconds, write_game_to_file, receive_player_name;   *)
(* after the last the player is compiled and started, and the threads are. *)
(* An empty text raises; main ends, and play.py waits for its listener,    *)
(* which is no daemon and to which no player will ever connect.            *)
Prepare ==
  /\ main = "prepare"
  /\ ReceiveMessage("manager")
  /\ IF Text(buffer["manager"]) = <<>>
     THEN /\ main' = "failed"
          /\ UNCHANGED <<told, thread, down, heard>>
     ELSE /\ told' = told + 1
          /\ IF told' = Len(Preparation)
             THEN /\ main' = "forward"
                  /\ thread' = [p \in Peer |-> "read"]
                  /\ Send("manager", Ready)
             ELSE UNCHANGED <<main, thread, down, heard>>
  /\ UNCHANGED <<sockets, up, inbox, history>>

(* Mutant of Forward: the other side is not shut down. *)
ForwardNoShutdown(p) ==
  /\ thread[p] = "read"
  /\ ReceiveMessage(p)
  /\ \/ /\ Text(buffer[p]) = <<>>
        /\ thread' = [thread EXCEPT ![p] = "done"]
        /\ UNCHANGED <<shut, down, heard>>
     \/ /\ Text(buffer[p]) # <<>>
        /\ Send(Other(p), Text(buffer[p]))
        /\ UNCHANGED <<shut, thread>>
  /\ UNCHANGED <<alive, up, inbox, main, told, history>>

(* One turn of forward_and_log, in the thread that reads from p.  Sending  *)
(* waits for space; to a peer that is gone it raises, sooner or later.     *)
Forward(p) ==
  /\ thread[p] = "read"
  /\ ReceiveMessage(p)
  /\ LET data == Text(buffer[p])
         q == Other(p)
         gone == alive[q] # "open" \/ shut[q]
     IN \/ /\ data = <<>>
           /\ shut' = [shut EXCEPT ![q] = TRUE]
           /\ thread' = [thread EXCEPT ![p] = "done"]
           /\ UNCHANGED <<down, heard>>
        \/ /\ data = Reset
           /\ UNCHANGED <<shut, thread, down, heard>>
        \/ /\ data \notin {<<>>, Reset}
           /\ ~gone
           /\ q = "player" => Len(down) < Window
           /\ Send(q, data)
           /\ UNCHANGED <<shut, thread>>
        \/ /\ data \notin {<<>>, Reset}
           /\ gone
           /\ thread' \in {[thread EXCEPT ![p] = "done"]} \union (IF shut[q] THEN {} ELSE {thread})
           /\ UNCHANGED <<shut, down, heard>>
  /\ UNCHANGED <<alive, up, inbox, main, told, history>>

(* Both joins, player_process.terminate(), and the end of the process. *)
Join ==
  /\ main = "forward"
  /\ \A p \in Peer : thread[p] = "done"
  /\ main' = "exited"
  /\ shut' = [p \in Peer |-> TRUE]
  /\ alive' = [alive EXCEPT !["player"] = IF @ = "open" THEN "closed" ELSE @]
  /\ UNCHANGED <<up, down, buffer, inbox, thread, told, history, heard>>

-----------------------------------------------------------------------------
(* The peers.                                                              *)

Running(p) == p = "player" => main = "forward"

(* A text, or the beginning of one, that p writes now is to be forwarded.  *)
Due(p, m) ==
  /\ m \notin {<<>>, Reset}
  /\ p = "manager" => written[p] >= Len(Preparation)

Record(p, m) == sent' = IF Due(p, m) THEN [sent EXCEPT ![p] = Append(@, m)] ELSE sent

(* send_text, and its counterpart in the game manager. *)
SendText(p, m) ==
  /\ Running(p)
  /\ alive[p] = "open" /\ ~shut[p]
  /\ written[p] < Quota[p]
  /\ Len(up[p]) < Window
  /\ IF p = "manager" /\ written[p] < Len(Preparation)
     THEN m = Preparation[written[p] + 1]
     ELSE m \in Message \union {Reset}
  /\ written' = [written EXCEPT ![p] = @ + 1]
  /\ Record(p, m)
  /\ up' = Extend(up, p, Framed(m))
  /\ UNCHANGED <<sockets, down, buffer, inbox, thread, main, told, heard>>

(* The end of a peer, with the beginning of a text just written. *)
Close(p) ==
  /\ Running(p)
  /\ alive[p] = "open"
  /\ alive' = [alive EXCEPT ![p] = "closed"]
  /\ \E m \in Message : \E n \in 0..Len(m) :
       LET torn == SubSeq(m, 1, n)
       IN /\ shut[p] => n = 0
          /\ Record(p, torn)
          /\ up' = Extend(up, p, torn)
  /\ UNCHANGED <<shut, down, buffer, inbox, thread, main, told, written, heard>>

(* The same with a reset, which takes back what was not read. *)
ResetConnection(p) ==
  /\ Running(p)
  /\ alive[p] = "open"
  /\ alive' = [alive EXCEPT ![p] = "reset"]
  /\ up' = [up EXCEPT ![p] = <<>>]
  /\ UNCHANGED <<shut, down, buffer, inbox, thread, main, told, history, heard>>

(* remote_moves_receiver::extend_buffer. *)
ExtendInbox ==
  /\ alive["player"] = "open"
  /\ ~Complete(inbox)
  /\ \E n \in 1..Len(down) :
       /\ inbox' = inbox \o SubSeq(down, 1, n)
       /\ down' = SubSeq(down, n + 1, Len(down))
  /\ UNCHANGED <<sockets, up, buffer, thread, main, told, history, heard>>

(* remote_moves_receiver::read_until, where there is a text to be read. *)
PlayerHears ==
  /\ alive["player"] = "open"
  /\ Complete(inbox) \/ (inbox # <<>> /\ down = <<>> /\ shut["player"])
  /\ heard' = [heard EXCEPT !["player"] = Append(@, Text(inbox))]
  /\ inbox' = Rest(inbox)
  /\ UNCHANGED <<sockets, up, down, buffer, thread, main, told, history>>

PlayStep == \E p \in Peer : ExtendBuffer(p) \/ ReceiveRaises(p) \/ Forward(p)

Next ==
  \/ PlayStep \/ Prepare \/ Join
  \/ \E p \in Peer :
       \/ \E m \in Message \union {Reset} \union ToSet(Preparation) : SendText(p, m)
       \/ Close(p) \/ ResetConnection(p)
  \/ ExtendInbox \/ PlayerHears

(* Every thread of play.py is scheduled, and peers read. *)
Fairness ==
  /\ WF_vars(Prepare) /\ WF_vars(Join)
  /\ WF_vars(ExtendInbox \/ PlayerHears)
  /\ \A p \in Peer : WF_vars(ExtendBuffer(p) \/ ReceiveRaises(p) \/ Forward(p))

SafeSpec == Init /\ [][Next]_vars
Spec == SafeSpec /\ Fairness
-----------------------------------------------------------------------------
(* Ready is play.py's own. *)
HeardFrom(p) == IF p = "manager" THEN heard["player"] ELSE Tail(heard["manager"])

(* However the bytes are cut up on their way, each side reads exactly the  *)
(* texts the other one wrote for it, in order, whole, none twice, no reset: *)
(* only a text torn by its writer's end is taken for a whole one.          *)
InOrder ==
  /\ heard["manager"] # <<>> => Head(heard["manager"]) = Ready
  /\ \A p \in Peer :
       heard[Other(p)] # <<>> => IsPrefix(HeardFrom(p), sent[p])

AllOpen == \A p \in Peer : alive[p] = "open"

(* Nothing gets stuck in a buffer: every text is read by the other side,   *)
(* as long as both are there.                                              *)
Delivered ==
  \A p \in Peer : \A n \in 1..Quota[p] :
    (Len(sent[p]) >= n /\ main = "forward")
      ~> (heard[Other(p)] # <<>> /\ Len(HeardFrom(p)) >= n) \/ ~AllOpen

(* Once the player runs, the end of one side, if it is no reset, ends the  *)
(* other thread's wait, both joins return and no player is left behind.    *)
LossEndsAll ==
  (main = "forward" /\ \E p \in Peer : alive[p] = "closed")
    ~> (main = "exited" /\ alive["player"] # "open") \/ (\E p \in Peer : alive[p] = "reset")
=============================================================================
