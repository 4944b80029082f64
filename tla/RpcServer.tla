-------------------------------- MODULE RpcServer ------------------------------
(***************************************************************************)
(* main of Program4_Sever/r_server.c: one listener, a child forked for     *)
(* every connection, and several clients. What a call carries is           *)
(* RpcSession's business; here a call is one message and one reply.        *)
(*                                                                         *)
(* The parent closes no connection and waits for no child: descriptors and *)
(* zombies accumulate until one of the two tables is full.                 *)
(***************************************************************************)
EXTENDS Integers, Sequences, FiniteSets

CONSTANTS
  Client,    (* the client processes, one connection each          *)
  MAXFDS,    (* connections the parent can have descriptors for    *)
  MAXPROCS,  (* children, zombies included, the system lets it have *)
  BACKLOG    (* the argument of listen                             *)

ASSUME LimitsAreNumbers == MAXFDS \in Nat /\ MAXPROCS \in Nat /\ BACKLOG \in Nat

VARIABLES
  client,    (* outside, idle, calling, ended or killed                 *)
  request,   (* none, call or eof: what it sent and nobody has read     *)
  reply,     (* an answer it has not read                               *)
  backlog,   (* the clients connected and not accepted                  *)
  conns,     (* the connections the parent has open, in the order of their descriptors *)
  parent,    (* accept, fork or dead                                    *)
  conn,      (* what accept returned: a place in conns, or 0 for -1     *)
  children   (* for every fork, its conn, how many of conns it inherited,
                whether it has read an opcode, and if it runs, waits for a
                pipe or is dead *)

clients == <<client, request, reply>>
vars == <<clients, backlog, conns, parent, conn, children>>

Init ==
  /\ client = [c \in Client |-> "outside"]
  /\ request = [c \in Client |-> "none"] /\ reply = [c \in Client |-> FALSE]
  /\ backlog = <<>> /\ conns = <<>>
  /\ parent = "accept" /\ conn = 0 /\ children = <<>>

Become(c, s) == client' = [client EXCEPT ![c] = s]
Gone(c) == client[c] \in {"ended", "killed"}
Accepted(c) == \E i \in DOMAIN conns : conns[i] = c
Runs(k) == children[k].state = "runs"
Lives(k) == children[k].state # "dead"
ChildOf(k, c) ==
  k \in DOMAIN children /\ children[k].conn # 0 /\ conns[children[k].conn] = c
Serving(k, c) == ChildOf(k, c) /\ Runs(k)

--------------------------------------------------------------------------------
(* The listener is inherited, too: a child keeps it open when the parent is gone. *)
Listening == parent # "dead" \/ \E k \in DOMAIN children : Lives(k)

(* The connection is made by the kernel, before anybody accepts it. *)
Connect(c) ==
  /\ client[c] = "outside" /\ Listening /\ Len(backlog) < BACKLOG
  /\ Become(c, "idle") /\ backlog' = Append(backlog, c)
  /\ UNCHANGED <<request, reply, conns, parent, conn, children>>

Call(c) ==
  /\ client[c] = "idle" /\ Become(c, "calling")
  /\ request' = [request EXCEPT ![c] = "call"]
  /\ UNCHANGED <<reply, backlog, conns, parent, conn, children>>

TakeReply(c) ==
  /\ client[c] = "calling" /\ reply[c]
  /\ Become(c, "idle") /\ reply' = [reply EXCEPT ![c] = FALSE]
  /\ UNCHANGED <<request, backlog, conns, parent, conn, children>>

(* The read of the reply finds the end of the stream only when every process
   that has the server's end of the connection is gone. *)
Held(c) ==
  \/ parent # "dead"
  \/ \E k \in DOMAIN children :
       Lives(k) /\ (~Accepted(c) \/ \E i \in 1..children[k].holds : conns[i] = c)

TakeEndOfStream(c) ==
  /\ client[c] = "calling" /\ ~reply[c] /\ ~Held(c)
  /\ Become(c, "idle")
  /\ UNCHANGED <<request, reply, backlog, conns, parent, conn, children>>

Leave(c) ==
  /\ \/ client[c] = "idle" /\ Become(c, "ended") /\ request' = [request EXCEPT ![c] = "eof"]
     \/ client[c] \in {"idle", "calling"} /\ Become(c, "killed") /\ UNCHANGED request
  /\ UNCHANGED <<reply, backlog, conns, parent, conn, children>>

--------------------------------------------------------------------------------
(* Mistake: a failed accept leaves conn as it was. *)
AcceptKeepsConn ==
  /\ parent = "accept" /\ parent' = "fork"
  /\ IF Len(conns) = MAXFDS THEN UNCHANGED <<conn, conns, backlog>>
     ELSE /\ backlog # <<>>
          /\ conns' = Append(conns, Head(backlog))
          /\ backlog' = Tail(backlog)
          /\ conn' = Len(conns) + 1
  /\ UNCHANGED <<clients, children>>

(* With its table full accept fails at once, whether anybody waits or not, and
   the parent goes on to fork all the same. *)
Accept ==
  /\ parent = "accept" /\ parent' = "fork"
  /\ IF Len(conns) = MAXFDS THEN conn' = 0 /\ UNCHANGED <<conns, backlog>>
     ELSE /\ backlog # <<>>
          /\ conns' = Append(conns, Head(backlog))
          /\ backlog' = Tail(backlog)
          /\ conn' = Len(conns) + 1
  /\ UNCHANGED <<clients, children>>

Born == [conn |-> conn, holds |-> Len(conns), used |-> FALSE, state |-> "runs"]

(* Mistake: wait(&status), which is commented out at line 411. *)
ForkAndWait ==
  /\ parent = "fork" /\ parent' = "accept"
  /\ \A k \in DOMAIN children : ~Runs(k)
  /\ children' = IF Len(children) < MAXPROCS THEN Append(children, Born) ELSE children
  /\ UNCHANGED <<clients, backlog, conns, conn>>

(* A fork that fails returns -1, which is not 0: the parent goes on and the
   connection has nobody. *)
Fork ==
  /\ parent = "fork" /\ parent' = "accept"
  /\ children' = IF Len(children) < MAXPROCS THEN Append(children, Born) ELSE children
  /\ UNCHANGED <<clients, backlog, conns, conn>>

(* Killed, it accepts nobody more; its children go on. *)
ParentDies ==
  /\ parent # "dead" /\ parent' = "dead"
  /\ UNCHANGED <<clients, backlog, conns, conn, children>>

--------------------------------------------------------------------------------
Dies(k) == children' = [children EXCEPT ![k].state = "dead"]

(* One turn of the opcode loop: a call is made and answered. *)
Serve(k, c) ==
  /\ Serving(k, c) /\ request[c] = "call"
  /\ request' = [request EXCEPT ![c] = "none"]
  /\ reply' = [reply EXCEPT ![c] = client[c] = "calling"]
  /\ children' = [children EXCEPT ![k].used = TRUE]
  /\ UNCHANGED <<client, backlog, conns, parent, conn>>

(* Mistake: type is unsigned, and never equal to EOF. *)
MissEOF(k, c) ==
  /\ Serving(k, c) /\ request[c] = "eof"
  /\ request' = [request EXCEPT ![c] = "none"]
  /\ UNCHANGED <<client, reply, backlog, conns, parent, conn, children>>

ReadEOF(k, c) ==
  /\ Serving(k, c) /\ request[c] = "eof"
  /\ request' = [request EXCEPT ![c] = "none"]
  /\ Dies(k)
  /\ UNCHANGED <<client, reply, backlog, conns, parent, conn>>

(* The client was killed: read returns 0 and type is still the last opcode, so
   the last call is made again until a write is fatal. Before the first opcode
   type is 0, which is no call: the loop goes on for ever, and so it does on
   descriptor -1. Neither changes anything. *)
RepeatLast(k, c) ==
  /\ Serving(k, c) /\ client[c] = "killed" /\ request[c] = "none" /\ children[k].used
  /\ Dies(k)
  /\ UNCHANGED <<clients, backlog, conns, parent, conn>>

(* A remote read of an empty pipe: the child has both its ends, and the one
   program that could write to it waits for this answer. *)
Wait(k, c) ==
  /\ Serving(k, c) /\ request[c] = "call"
  /\ request' = [request EXCEPT ![c] = "none"]
  /\ children' = [children EXCEPT ![k].state = "waits"]
  /\ UNCHANGED <<client, reply, backlog, conns, parent, conn>>

(* A handler crashes: pipes, memory, a signal. *)
Crash(k) ==
  /\ k \in DOMAIN children /\ Lives(k) /\ Dies(k)
  /\ UNCHANGED <<clients, backlog, conns, parent, conn>>

--------------------------------------------------------------------------------
ChildStep(k, c) == Serve(k, c) \/ ReadEOF(k, c) \/ RepeatLast(k, c)

Next ==
  \/ Accept \/ Fork \/ ParentDies
  \/ \E c \in Client :
       \/ Connect(c) \/ Call(c) \/ TakeReply(c) \/ TakeEndOfStream(c) \/ Leave(c)
       \/ \E k \in 1..MAXPROCS : ChildStep(k, c) \/ Wait(k, c)
  \/ \E k \in 1..MAXPROCS : Crash(k)

(* Every process is scheduled (a client has one child); nobody is obliged to call, leave or die. *)
Spec ==
  /\ Init /\ [][Next]_vars
  /\ WF_vars(Accept) /\ WF_vars(Fork)
  /\ \A c \in Client :
       /\ WF_vars(TakeReply(c)) /\ WF_vars(TakeEndOfStream(c))
       /\ WF_vars(\E k \in 1..MAXPROCS : ChildStep(k, c))
--------------------------------------------------------------------------------
TypeOK ==
  /\ client \in [Client -> {"outside", "idle", "calling", "ended", "killed"}]
  /\ request \in [Client -> {"none", "call", "eof"}] /\ reply \in [Client -> BOOLEAN]
  /\ backlog \in Seq(Client) /\ conns \in Seq(Client)
  /\ parent \in {"accept", "fork", "dead"} /\ conn \in 0..MAXFDS
  /\ children \in Seq([conn : 0..MAXFDS, holds : 0..MAXFDS, used : BOOLEAN,
                       state : {"runs", "waits", "dead"}])

(* A connection is read by one child at most; a child has the connections
   accepted before its own and no later one. *)
ChildrenApart ==
  \A k \in DOMAIN children :
    /\ children[k].conn \in {0, children[k].holds}
    /\ children[k].holds <= Len(conns)
    /\ \A j \in DOMAIN children \ {k} :
         children[k].conn # 0 => children[j].conn # children[k].conn

(* A reply is on the connection of a client that waits for it. *)
RepliesAwaited ==
  \A c \in Client : reply[c] =>
    client[c] \in {"calling", "killed"} /\ request[c] = "none" /\ Accepted(c)

(* Whatever accept and fork answer (r_server.c:362-415), children share no
   connection and replies go where they are awaited. *)
Confined == TypeOK /\ ChildrenApart /\ RepliesAwaited

(* Why a call may go unanswered: its child crashed or waits for a pipe, there
   was no room for one, or for the connection, or the parent died first. *)
Abandoned(c) ==
  \/ \E k \in DOMAIN children : ChildOf(k, c) /\ ~Runs(k)
  \/ Len(children) = MAXPROCS /\ ~\E k \in DOMAIN children : Serving(k, c)
  \/ Len(conns) = MAXFDS /\ ~Accepted(c)
  \/ parent = "dead" /\ ~\E k \in DOMAIN children : Serving(k, c)

(* Every other call is answered (r_server.c:364-409), however many clients sit
   idle meanwhile. *)
CallsAnswered ==
  \A c \in Client : client[c] = "calling" ~> client[c] # "calling" \/ Abandoned(c)

(* The two children that outlive a killed client: one in a remote read of an
   empty pipe (r_server.c:154), and one that has no opcode to make again and
   reads the end of the stream for ever (371). *)
LeftBehind(k, c) ==
  /\ client[c] = "killed"
  /\ \/ children[k].state = "waits"
     \/ ~children[k].used /\ request[c] = "none"

(* When a client is gone its child ends (r_server.c:371-407), though siblings
   hold copies of the connection; the child of a killed client does, unless it is
   one of those two. *)
ChildrenEnd ==
  \A c \in Client :
    (Gone(c) /\ \E k \in DOMAIN children : ChildOf(k, c))
      ~> \E k \in DOMAIN children : ChildOf(k, c) /\ (~Lives(k) \/ LeftBehind(k, c))
================================================================================
