---------------------------- MODULE RpcServerProofs ----------------------------
(***************************************************************************)
(* Proof about RpcServer for any number of clients, descriptors and        *)
(* processes and any backlog: connections stay apart (Confined).           *)
(***************************************************************************)
EXTENDS RpcServer, SequenceTheorems, TLAPS

Child == [conn : 0..MAXFDS, holds : 0..MAXFDS, used : BOOLEAN, state : {"runs", "waits", "dead"}]

(* What accept returned just now is the newest connection, and nobody's yet. *)
ConnIsFresh ==
  /\ Len(conns) <= MAXFDS
  /\ parent = "fork" =>
       /\ conn \in {0, Len(conns)}
       /\ conn # 0 => \A k \in DOMAIN children : children[k].conn # conn

(* Confined is inductive together with it. *)
IInv == Confined /\ ConnIsFresh

--------------------------------------------------------------------------------
(* A change of one child that leaves its connection and what it holds alone
   disturbs neither its type nor what is said of connections. *)
LEMMA ChildChanged ==
  ASSUME NEW s \in Seq(Child), NEW k \in DOMAIN s, NEW t,
         \/ \E v \in {"waits", "dead"} : t = [s EXCEPT ![k].state = v]
         \/ t = [s EXCEPT ![k].used = TRUE]
  PROVE  /\ t \in Seq(Child) /\ DOMAIN t = DOMAIN s
         /\ \A j \in DOMAIN s : t[j].conn = s[j].conn /\ t[j].holds = s[j].holds
<1>1. s \in [1..Len(s) -> Child] /\ DOMAIN s = 1..Len(s) /\ Len(s) \in Nat
  BY LenProperties
<1>2. t \in [1..Len(s) -> Child] /\ DOMAIN t = DOMAIN s
  BY <1>1 DEF Child
<1>3. t \in Seq(Child)
  BY <1>1, <1>2, SeqDef
<1>4. ASSUME NEW j \in DOMAIN s
      PROVE  t[j].conn = s[j].conn /\ t[j].holds = s[j].holds
  <2>1. s[j] \in Child
    BY <1>1
  <2>2. ASSUME NEW v \in {"waits", "dead"}, t = [s EXCEPT ![k].state = v]
        PROVE  t[j].conn = s[j].conn /\ t[j].holds = s[j].holds
    <3>1. t[j] = IF j = k THEN [s[j] EXCEPT !.state = v] ELSE s[j]
      BY <1>1, <2>2
    <3> QED BY <2>1, <3>1 DEF Child
  <2>3. CASE t = [s EXCEPT ![k].used = TRUE]
    <3>1. t[j] = IF j = k THEN [s[j] EXCEPT !.used = TRUE] ELSE s[j]
      BY <1>1, <2>3
    <3> QED BY <2>1, <3>1 DEF Child
  <2> QED BY <2>2, <2>3
<1> QED BY <1>2, <1>3, <1>4

LEMMA ChildTyped ==
  ASSUME TypeOK, NEW k \in DOMAIN children
  PROVE  /\ children[k].conn \in 0..MAXFDS /\ children[k].conn \in Int
         /\ children[k].holds \in 0..MAXFDS /\ children[k].holds \in Int
<1>1. children \in Seq(Child)
  BY DEF TypeOK, Child
<1>2. children[k] \in Child
  BY <1>1, LenProperties, ElementOfSeq
<1> QED BY <1>2 DEF Child

LEMMA InitHolds == Init => IInv
<1> SUFFICES ASSUME Init PROVE IInv
  OBVIOUS
<1>1. DOMAIN children = {} /\ Len(conns) = 0
  BY DEF Init
<1>2. TypeOK
  BY EmptySeq, LimitsAreNumbers DEF Init, TypeOK
<1>3. ChildrenApart /\ RepliesAwaited /\ ConnIsFresh
  BY <1>1, LimitsAreNumbers DEF Init, ChildrenApart, RepliesAwaited, ConnIsFresh
<1> QED BY <1>2, <1>3 DEF IInv, Confined

--------------------------------------------------------------------------------
(* Nothing a client does touches what the server has. *)
LEMMA ClientKeeps ==
  ASSUME IInv, NEW c \in Client,
         Connect(c) \/ Call(c) \/ TakeReply(c) \/ TakeEndOfStream(c) \/ Leave(c)
  PROVE  IInv'
<1> USE DEF IInv, Confined
<1>1. UNCHANGED <<conns, parent, conn, children>>
  BY DEF Connect, Call, TakeReply, TakeEndOfStream, Leave
<1>2. backlog' \in Seq(Client)
  <2>1. CASE Connect(c)
    BY <2>1, AppendProperties DEF Connect, TypeOK
  <2>2. CASE Call(c) \/ TakeReply(c) \/ TakeEndOfStream(c) \/ Leave(c)
    BY <2>2 DEF Call, TakeReply, TakeEndOfStream, Leave, TypeOK
  <2> QED BY <2>1, <2>2
<1>3. /\ client' \in [Client -> {"outside", "idle", "calling", "ended", "killed"}]
      /\ request' \in [Client -> {"none", "call", "eof"}] /\ reply' \in [Client -> BOOLEAN]
  BY DEF TypeOK, Connect, Call, TakeReply, TakeEndOfStream, Leave, Become
<1>4. TypeOK'
  BY <1>1, <1>2, <1>3 DEF TypeOK
<1>5. ChildrenApart' /\ ConnIsFresh'
  BY <1>1 DEF ChildrenApart, ConnIsFresh
<1>6. RepliesAwaited'
  <2> USE DEF RepliesAwaited, Accepted, TypeOK
  <2>1. CASE Connect(c)
    BY <1>1, <2>1 DEF Connect, Become
  <2>2. CASE Call(c)
    BY <1>1, <2>2 DEF Call, Become
  <2>3. CASE TakeReply(c)
    BY <1>1, <2>3 DEF TakeReply, Become
  <2>4. CASE TakeEndOfStream(c)
    BY <1>1, <2>4 DEF TakeEndOfStream, Become
  <2>5. CASE Leave(c)
    BY <1>1, <2>5 DEF Leave, Become
  <2> QED BY <2>1, <2>2, <2>3, <2>4, <2>5
<1> QED BY <1>4, <1>5, <1>6

LEMMA AcceptKeeps ==
  ASSUME IInv, Accept
  PROVE  IInv'
<1> USE DEF IInv, Confined
<1>1. UNCHANGED clients /\ UNCHANGED children /\ parent' = "fork"
  BY DEF Accept
<1>2. CASE Len(conns) = MAXFDS
  <2>1. conn' = 0 /\ UNCHANGED <<conns, backlog>>
    BY <1>2 DEF Accept
  <2>2. TypeOK'
    BY <1>1, <2>1, LimitsAreNumbers DEF TypeOK, clients
  <2> QED BY <1>1, <2>1, <2>2 DEF clients, ChildrenApart, RepliesAwaited, Accepted, ConnIsFresh
<1>3. CASE Len(conns) # MAXFDS
  <2>1. /\ backlog # <<>> /\ conns' = Append(conns, Head(backlog))
        /\ backlog' = Tail(backlog) /\ conn' = Len(conns) + 1
    BY <1>3 DEF Accept
  <2>2. backlog \in Seq(Client) /\ conns \in Seq(Client)
    BY DEF TypeOK
  <2>3. Head(backlog) \in Client /\ backlog' \in Seq(Client)
    BY <2>1, <2>2, HeadTailProperties
  <2>4. /\ conns' \in Seq(Client) /\ Len(conns') = Len(conns) + 1
        /\ \A i \in 1..Len(conns) : conns'[i] = conns[i]
    BY <2>1, <2>2, <2>3, AppendProperties
  <2>5. /\ Len(conns) \in Nat /\ DOMAIN conns = 1..Len(conns) /\ DOMAIN conns' = 1..Len(conns')
    BY <2>2, <2>4, LenProperties
  <2>6. Len(conns) <= MAXFDS /\ MAXFDS \in Nat
    BY LimitsAreNumbers DEF ConnIsFresh
  <2>7. conn' \in 0..MAXFDS /\ Len(conns') <= MAXFDS
    <3>1. \A m, n \in Nat : m <= n /\ m # n => m + 1 \in 0..n /\ m + 1 <= n
      OBVIOUS
    <3>2. Len(conns) + 1 \in 0..MAXFDS /\ Len(conns) + 1 <= MAXFDS
      BY <1>3, <2>5, <2>6, <3>1
    <3> QED BY <2>1, <2>4, <3>2
  <2>8. TypeOK'
    BY <1>1, <2>3, <2>4, <2>7 DEF TypeOK, clients
  <2>9. \A k \in DOMAIN children : children[k].conn \in Int /\ children[k].holds \in Int
    BY ChildTyped
  <2>10. ChildrenApart'
    BY <1>1, <2>4, <2>5, <2>9 DEF ChildrenApart
  <2>11. RepliesAwaited'
    BY <1>1, <2>4, <2>5 DEF RepliesAwaited, Accepted, clients
  <2>12. ConnIsFresh'
    BY <1>1, <2>1, <2>4, <2>5, <2>7, <2>9 DEF ConnIsFresh, ChildrenApart
  <2> QED BY <2>8, <2>10, <2>11, <2>12
<1> QED BY <1>2, <1>3

LEMMA ForkKeeps ==
  ASSUME IInv, Fork
  PROVE  IInv'
<1> USE DEF IInv, Confined
<1>1. UNCHANGED <<client, request, reply, backlog, conns, conn>> /\ parent' = "accept"
  BY DEF Fork, clients
<1>2. Len(conns) \in 0..MAXFDS /\ conn \in {0, Len(conns)} /\ conn \in Int
  BY LenProperties, LimitsAreNumbers DEF Fork, ConnIsFresh, TypeOK
<1>3. RepliesAwaited' /\ ConnIsFresh'
  BY <1>1 DEF RepliesAwaited, Accepted, ConnIsFresh
<1>4. CASE UNCHANGED children
  BY <1>1, <1>3, <1>4 DEF TypeOK, ChildrenApart
<1>5. CASE children' = Append(children, Born)
  <2>1. Born \in Child
    BY <1>2 DEF Born, Child, TypeOK
  <2>2. children \in Seq(Child)
    BY DEF TypeOK, Child
  <2>3. /\ children' \in Seq(Child) /\ Len(children') = Len(children) + 1
        /\ \A k \in 1..Len(children) : children'[k] = children[k]
        /\ children'[Len(children) + 1] = Born
    BY <1>5, <2>1, <2>2, AppendProperties
  <2>4. /\ Len(children) \in Nat /\ DOMAIN children = 1..Len(children)
        /\ DOMAIN children' = 1..Len(children')
    BY <2>2, <2>3, LenProperties
  <2>5. TypeOK'
    BY <1>1, <2>3 DEF TypeOK, Child
  <2>6. Born.conn = conn /\ Born.holds = Len(conns)
    BY DEF Born
  <2>7. conn # 0 => \A k \in DOMAIN children : children[k].conn # conn
    BY DEF ConnIsFresh, Fork
  <2>8. DOMAIN children' = DOMAIN children \union {Len(children) + 1}
    BY <2>3, <2>4
  <2>9. ChildrenApart'
    BY <1>1, <1>2, <2>3, <2>4, <2>6, <2>7, <2>8 DEF ChildrenApart
  <2> QED BY <1>3, <2>5, <2>9
<1> QED BY <1>4, <1>5 DEF Fork

LEMMA ParentDiesKeeps ==
  ASSUME IInv, ParentDies
  PROVE  IInv'
BY DEF IInv, Confined, ParentDies, clients, TypeOK, ChildrenApart, RepliesAwaited, Accepted, ConnIsFresh

--------------------------------------------------------------------------------
(* Whatever a child does to itself, its connection stays its own. *)
LEMMA ChildKeepsApart ==
  ASSUME IInv, NEW k \in DOMAIN children,
         UNCHANGED <<backlog, conns, parent, conn>>,
         \/ \E v \in {"waits", "dead"} : children' = [children EXCEPT ![k].state = v]
         \/ children' = [children EXCEPT ![k].used = TRUE]
  PROVE  children' \in Seq(Child) /\ ChildrenApart' /\ ConnIsFresh'
<1>1. children \in Seq(Child)
  BY DEF IInv, Confined, TypeOK, Child
<1>2. /\ children' \in Seq(Child) /\ DOMAIN children' = DOMAIN children
      /\ \A j \in DOMAIN children :
           children'[j].conn = children[j].conn /\ children'[j].holds = children[j].holds
  BY <1>1, ChildChanged
<1> QED BY <1>2 DEF IInv, Confined, ChildrenApart, ConnIsFresh

LEMMA ChildKeeps ==
  ASSUME IInv, NEW c \in Client, NEW k, ChildStep(k, c) \/ Wait(k, c)
  PROVE  IInv'
<1> USE DEF IInv, Confined
<1>1. k \in DOMAIN children /\ Serving(k, c)
  BY DEF ChildStep, Serve, ReadEOF, RepeatLast, Wait, Serving, ChildOf
<1>2. UNCHANGED <<client, backlog, conns, parent, conn>>
  BY DEF ChildStep, Serve, ReadEOF, RepeatLast, Wait, clients
<1>3. \/ \E v \in {"waits", "dead"} : children' = [children EXCEPT ![k].state = v]
      \/ children' = [children EXCEPT ![k].used = TRUE]
  BY DEF ChildStep, Serve, ReadEOF, RepeatLast, Wait, Dies
<1>4. children' \in Seq(Child) /\ ChildrenApart' /\ ConnIsFresh'
  BY <1>1, <1>2, <1>3, ChildKeepsApart
<1>5. request' \in [Client -> {"none", "call", "eof"}] /\ reply' \in [Client -> BOOLEAN]
  BY DEF TypeOK, ChildStep, Serve, ReadEOF, RepeatLast, Wait, clients
<1>6. TypeOK'
  BY <1>2, <1>4, <1>5 DEF TypeOK, Child
<1>7. Accepted(c)
  <2>1. children[k].conn \in 0..MAXFDS /\ children[k].holds \in 0..MAXFDS
    BY <1>1, ChildTyped
  <2>2. children[k].conn # 0 /\ conns[children[k].conn] = c
    BY <1>1 DEF Serving, ChildOf
  <2>3. children[k].conn <= Len(conns)
    BY <1>1, <2>1, <2>2 DEF ChildrenApart
  <2>4. children[k].conn \in DOMAIN conns
    BY <2>1, <2>2, <2>3, LenProperties DEF TypeOK
  <2> QED BY <2>2, <2>4 DEF Accepted
<1>8. RepliesAwaited'
  <2>1. CASE Serve(k, c)
    BY <2>1, <1>2, <1>7 DEF Serve, RepliesAwaited, Accepted, TypeOK
  <2>2. CASE ReadEOF(k, c) \/ RepeatLast(k, c) \/ Wait(k, c)
    BY <2>2, <1>2 DEF ReadEOF, RepeatLast, Wait, clients, RepliesAwaited, Accepted, TypeOK
  <2> QED BY <2>1, <2>2 DEF ChildStep
<1> QED BY <1>4, <1>6, <1>8

LEMMA CrashKeeps ==
  ASSUME IInv, NEW k, Crash(k)
  PROVE  IInv'
<1>1. /\ k \in DOMAIN children /\ children' = [children EXCEPT ![k].state = "dead"]
      /\ UNCHANGED <<client, request, reply, backlog, conns, parent, conn>>
  BY DEF Crash, Dies, clients
<1>2. children' \in Seq(Child) /\ ChildrenApart' /\ ConnIsFresh'
  BY <1>1, ChildKeepsApart
<1>3. TypeOK' /\ RepliesAwaited'
  BY <1>1, <1>2 DEF IInv, Confined, TypeOK, Child, RepliesAwaited, Accepted
<1> QED BY <1>2, <1>3 DEF IInv, Confined

LEMMA NextKeeps == IInv /\ [Next]_vars => IInv'
<1> SUFFICES ASSUME IInv, [Next]_vars PROVE IInv'
  OBVIOUS
<1>1. CASE UNCHANGED vars
  BY <1>1 DEF vars, clients, IInv, Confined, TypeOK, ChildrenApart, RepliesAwaited, Accepted, ConnIsFresh
<1>2. CASE Accept
  BY <1>2, AcceptKeeps
<1>3. CASE Fork
  BY <1>3, ForkKeeps
<1>4. CASE ParentDies
  BY <1>4, ParentDiesKeeps
<1>5. ASSUME NEW c \in Client,
             \/ Connect(c) \/ Call(c) \/ TakeReply(c) \/ TakeEndOfStream(c) \/ Leave(c)
             \/ \E k \in 1..MAXPROCS : ChildStep(k, c) \/ Wait(k, c)
      PROVE  IInv'
  BY <1>5, ClientKeeps, ChildKeeps
<1>6. ASSUME NEW k \in 1..MAXPROCS, Crash(k)
      PROVE  IInv'
  BY <1>6, CrashKeeps
<1> QED BY <1>1, <1>2, <1>3, <1>4, <1>5, <1>6 DEF Next

(* main of r_server.c, with any limits: no two children read one connection, a
   child holds nothing accepted after its own, and a reply is on a connection
   whose client waits for it. *)
THEOREM ConnectionsConfined == Spec => []Confined
<1>1. IInv => Confined
  BY DEF IInv
<1> QED BY <1>1, InitHolds, NextKeeps, PTL DEF Spec
================================================================================
