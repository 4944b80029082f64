------------------------------- MODULE RpcSession -------------------------------
(***************************************************************************)
(* One client of Program4_Sever/r_client.c and the child process of        *)
(* r_server.c that serves its connection: the stubs, the byte streams of   *)
(* the socket, the child's opcode loop and its handlers.                   *)
(*                                                                         *)
(* Each write() of the program is one segment and arrives whole; a read()  *)
(* returns what has arrived, up to its count.  Every read of the child is  *)
(* a step: between two of them the client may be killed.                   *)
(*                                                                         *)
(* The parent never closes its copy of conn (r_server.c:362-415), so the   *)
(* client sees no end of file when the child is gone: its read blocks.     *)
(*                                                                         *)
(* c_write reads its data into what malloc(0) gives.  More than that       *)
(* overruns the heap: from then on the child may die of it at any moment,  *)
(* since glibc aborts wherever it next meets what was overwritten.         *)
(***************************************************************************)
EXTENDS RpcWire, SequencesExt

CONSTANTS
  Calls,     (* the calls the linked program makes: [op, args, data]         *)
  Errors,    (* errno values of failing system calls                         *)
  Garbage,   (* bytes found in memory malloc has just returned               *)
  ROOM,      (* bytes that malloc(0) gives: 24                               *)
  Snug,      (* lengths that calloc gives no byte more than: 24, 40, 56...   *)
  Connections,   (* the child's numbers of conn and the sockets it inherits  *)
  MAXCALLS   (* calls per session (bounds the model)                         *)

VARIABLES
  cpc,       (* the client: in "app", "wait"ing for a reply, "ended", "killed" *)
  toServer, toClient,   (* bytes sent and not yet read                        *)
  spc,       (* the child: "opcode", "handler", "exited", "sigpipe", "aborted" *)
  type,      (* the child's last opcode byte                                  *)
  todo,      (* what the handler has still to read                            *)
  tempbuff,  (* the handler's four-byte buffer                                *)
  ints,      (* the ints it decoded                                           *)
  bytes,     (* the pathname or the data it read                              *)
  overrun,   (* the child's heap is overwritten                               *)
  errno,     (* the child's errno                                             *)
  reset,     (* the child has written to a closed connection                  *)
  calls,     (* history: the client's calls                                   *)
  log,       (* history: the calls the child made, with their results         *)
  returns    (* history: what the stubs returned                              *)

client == <<cpc, calls, returns>>
handler == <<type, todo, tempbuff, ints, bytes, overrun>>
vars == <<client, toServer, toClient, spc, handler, errno, reset, log>>

Ops == <<"open", "close", "read", "write", "lseek", "pipe", "dup2">>
Opcode(op) == CHOOSE n \in DOMAIN Ops : Ops[n] = op
EOF == BASE - 1

(* char buf[n] = " " *)
Blank == <<BASE \div 8, 0, 0, 0>>

(* How many ints a stub is passed, a buffer's address apart. *)
Arity == [open |-> 2, close |-> 1, read |-> 2, write |-> 2, lseek |-> 3, pipe |-> 0, dup2 |-> 2]

(* Which of them are descriptors. *)
Descriptors == [open |-> {}, close |-> {1}, read |-> {1}, write |-> {1}, lseek |-> {1},
                pipe |-> {}, dup2 |-> {1, 2}]

(* The handlers act on the child's own table, so a call that names conn would
   close it, replace it or talk over it: no call does. *)
ASSUME RpcSessionAssumption ==
  /\ Calls \subseteq [op : ToSet(Ops), args : Seq(Int), data : Seq(Byte)]
  /\ \A c \in Calls :
       /\ Len(c.args) = Arity[c.op]
       /\ c.op = "read" => c.args[2] >= 0
       /\ c.op = "write" => c.args[2] = Len(c.data)
       /\ c.data # <<>> => c.op \in {"open", "write"}
       /\ \A k \in Descriptors[c.op] : Wire(c.args[k]) \notin Connections
  /\ Decode(Blank) \notin Connections
  /\ Errors \subseteq Int /\ Garbage \subseteq Byte /\ MAXCALLS \in Nat
  /\ ROOM \in Nat /\ Snug \subseteq Nat

--------------------------------------------------------------------------------
(* The client's stubs. *)

EncodeAll(s) == FlattenSeq([i \in DOMAIN s |-> Encode(s[i])])

(* The message each stub writes.  r_dup2 does not reset L after malloc, so nine
   bytes nobody wrote, g each, go first. *)
r_open(c)    == <<Opcode("open")>> \o EncodeLength(Len(c.data)) \o c.data \o EncodeAll(c.args)
r_close(c)   == <<Opcode("close")>> \o EncodeAll(c.args)
r_read(c)    == <<Opcode("read")>> \o EncodeAll(c.args)
r_write(c)   == <<Opcode("write")>> \o EncodeAll(c.args) \o c.data
r_lseek(c)   == <<Opcode("lseek")>> \o EncodeAll(c.args)
r_pipe(c)    == <<Opcode("pipe")>>
r_dup2(c, g) == [i \in 1..9 |-> g] \o <<Opcode("dup2")>> \o EncodeAll(c.args)

Message(c, g) ==
  CASE c.op = "open"  -> r_open(c)  [] c.op = "close" -> r_close(c)
    [] c.op = "read"  -> r_read(c)  [] c.op = "write" -> r_write(c)
    [] c.op = "lseek" -> r_lseek(c) [] c.op = "pipe"  -> r_pipe(c)
    [] c.op = "dup2"  -> r_dup2(c, g)

Invoke(c) ==
  /\ cpc = "app" /\ Len(calls) < MAXCALLS
  /\ \E g \in Garbage : toServer' = toServer \o Message(c, g)
  /\ cpc' = "wait" /\ calls' = Append(calls, c)
  /\ UNCHANGED <<toClient, spc, handler, errno, reset, log, returns>>

(* Mistake: r_pipe reads a reply of the common size. *)
AskedEight(c) == IF c.op = "read" THEN 8 + c.args[2] ELSE 8

(* How many bytes the stub's one read() of the reply asks for. *)
Asked(c) == CASE c.op = "read" -> 8 + c.args[2] [] c.op = "pipe" -> 16 [] OTHER -> 8

(* Mistake: r_read copies from result[i + 7]. *)
DecodedEarly(c, r, g) ==
  LET at(i) == IF i <= Len(r) THEN r[i] ELSE g
      int(i) == Decode([k \in 1..4 |-> at(4 * i + k)])
  IN  [ret |-> int(0), err |-> int(1),
       out |-> CASE c.op = "read" -> [k \in 1..int(0) |-> at(7 + k)]
                 [] c.op = "pipe" -> <<int(2), int(3)>>
                 [] OTHER -> <<>>]

(* The reply as the stub decodes it; g fills what the read left unwritten. *)
Decoded(c, r, g) ==
  LET at(i) == IF i <= Len(r) THEN r[i] ELSE g
      int(i) == Decode([k \in 1..4 |-> at(4 * i + k)])
  IN  [ret |-> int(0), err |-> int(1),
       out |-> CASE c.op = "read" -> [k \in 1..int(0) |-> at(8 + k)]
                 [] c.op = "pipe" -> <<int(2), int(3)>>
                 [] OTHER -> <<>>]

Receive ==
  /\ cpc = "wait" /\ toClient # <<>>
  /\ LET c == Last(calls)
         n == IF Asked(c) < Len(toClient) THEN Asked(c) ELSE Len(toClient)
     IN  \E g \in Garbage :
           /\ returns' = Append(returns, Decoded(c, SubSeq(toClient, 1, n), g))
           /\ toClient' = SubSeq(toClient, n + 1, Len(toClient))
  /\ cpc' = "app"
  /\ UNCHANGED <<calls, toServer, spc, handler, errno, reset, log>>

(* Mistake: main returns without writing EOF. *)
EndSilently ==
  /\ cpc = "app"
  /\ cpc' = "ended"
  /\ UNCHANGED <<calls, returns, toServer, toClient, spc, handler, errno, reset, log>>

(* entry() returns: main writes EOF and the process ends. *)
End ==
  /\ cpc = "app"
  /\ cpc' = "ended" /\ toServer' = Append(toServer, EOF)
  /\ UNCHANGED <<calls, returns, toClient, spc, handler, errno, reset, log>>

(* The client dies before that: a signal, or a program that calls exit().  A
   reply it has not read makes the close a reset. *)
Kill ==
  /\ cpc \in {"app", "wait"}
  /\ cpc' = "killed" /\ reset' = (toClient # <<>>)
  /\ UNCHANGED <<calls, returns, toServer, toClient, spc, handler, errno, log>>

--------------------------------------------------------------------------------
(* The child. *)

Gone == cpc \in {"ended", "killed"}

(* What read(conn, buf, n) can put in buf.  At the end of the stream, and for
   a count that decoded negative (EFAULT), it puts nothing. *)
Taken(n) ==
  IF n <= 0 THEN {<<>>}
  ELSE IF toServer # <<>> THEN {SubSeq(toServer, 1, IF n < Len(toServer) THEN n ELSE Len(toServer))}
  ELSE IF Gone THEN {<<>>} ELSE {}

Drop(b) == toServer' = SubSeq(toServer, Len(b) + 1, Len(toServer))

(* Mistake: c_close reads an errno after its descriptor. *)
c_closeTwo == <<"int", "int">>

(* The reads each handler makes, in order. *)
c_open  == <<"length", "path", "int", "int">>
c_close == <<"int">>
c_read  == <<"int", "int">>
c_write == <<"int", "int", "data">>
c_lseek == <<"int", "int", "int">>
c_pipe  == <<>>
c_dup2  == <<"int", "int">>
Fields  == <<c_open, c_close, c_read, c_write, c_lseek, c_pipe, c_dup2>>

(* Mistake: the buffer of the handlers is static. *)
ReadOpcodeStatic ==
  /\ spc = "opcode"
  /\ \E b \in Taken(1) :
       LET t == IF b = <<>> THEN type ELSE b[1]
       IN  /\ Drop(b) /\ type' = t
           /\ IF t \in 1..7
              THEN /\ spc' = "handler" /\ todo' = Fields[t]
                   /\ ints' = <<>> /\ bytes' = <<>>
              ELSE /\ spc' = IF t = EOF THEN "exited" ELSE "opcode"
                   /\ UNCHANGED <<todo, ints, bytes>>
  /\ UNCHANGED <<client, toClient, tempbuff, overrun, errno, reset, log>>

(* Mistake: a byte that is no opcode ends the child. *)
ReadOpcodeStrict ==
  /\ spc = "opcode"
  /\ \E b \in Taken(1) :
       LET t == IF b = <<>> THEN type ELSE b[1]
       IN  /\ Drop(b) /\ type' = t
           /\ IF t \in 1..7
              THEN /\ spc' = "handler" /\ todo' = Fields[t]
                   /\ tempbuff' = Blank /\ ints' = <<>> /\ bytes' = <<>>
              ELSE spc' = "exited" /\ UNCHANGED <<todo, tempbuff, ints, bytes>>
  /\ UNCHANGED <<client, toClient, overrun, errno, reset, log>>

(* The loop of main: a read that returns 0 or -1 leaves type as it was. *)
ReadOpcode ==
  /\ spc = "opcode"
  /\ \E b \in Taken(1) :
       LET t == IF b = <<>> THEN type ELSE b[1]
       IN  /\ Drop(b) /\ type' = t
           /\ IF t \in 1..7
              THEN /\ spc' = "handler" /\ todo' = Fields[t]
                   /\ tempbuff' = Blank /\ ints' = <<>> /\ bytes' = <<>>
              ELSE /\ spc' = IF t = EOF THEN "exited" ELSE "opcode"
                   /\ UNCHANGED <<todo, tempbuff, ints, bytes>>
  /\ UNCHANGED <<client, toClient, overrun, errno, reset, log>>

Wanted(f) == CASE f = "int" -> 4 [] f = "length" -> 2 [] f = "path" -> ints[1] [] f = "data" -> ints[2]

Overlay(b) == [i \in 1..4 |-> IF i <= Len(b) THEN b[i] ELSE tempbuff[i]]

(* What it leaves in the handler's memory.  A path that fills what calloc gave
   has no NUL: the size of the next chunk, which is never 0, belongs to it. *)
Held(b) ==
  IF Head(todo) = "path" /\ Len(b) = ints[1] /\ Len(b) \in Snug
  THEN {Append(b, g) : g \in Byte \ {0}} ELSE {b}

(* One read() of a handler. *)
ReadField ==
  /\ spc = "handler" /\ todo # <<>>
  /\ \E b \in Taken(Wanted(Head(todo))) :
       /\ Drop(b)
       /\ \/ /\ Head(todo) \in {"int", "length"}
             /\ tempbuff' = Overlay(b)
             /\ ints' = Append(ints, IF Head(todo) = "int" THEN Decode(tempbuff')
                                                          ELSE DecodeLength(tempbuff'))
             /\ UNCHANGED bytes
          \/ /\ Head(todo) \in {"path", "data"}
             /\ bytes' \in Held(b)
             /\ UNCHANGED <<tempbuff, ints>>
       /\ overrun' = (overrun \/ (Head(todo) = "data" /\ Len(b) > ROOM))
  /\ todo' = Tail(todo)
  /\ UNCHANGED <<client, toClient, spc, type, errno, reset, log>>

Requested ==
  [op |-> Ops[type], args |-> IF Ops[type] = "open" THEN Tail(ints) ELSE ints, data |-> bytes]

(* A descriptor that was never opened, a pathname that is empty and a count that
   decoded negative are all refused by the system. *)
Refused(c) ==
  \/ c.op = "open" /\ c.data = <<>>
  \/ c.op \notin {"open", "pipe"} /\ c.args[1] = Decode(Blank)
  \/ c.op \in {"read", "write"} /\ c.args[2] < 0

(* What the system call of a handler can come to: ret, and the data or the two
   descriptors with it.  pipefd is not initialised. *)
Failures(c) ==
  {[ret |-> -1, out |-> o] : o \in IF c.op = "pipe" THEN {<<g, g>> : g \in Garbage} ELSE {<<>>}}
Successes(c) ==
  CASE c.op = "read"  -> {[ret |-> n, out |-> [i \in 1..n |-> i % BASE]] : n \in 0..c.args[2]}
    [] c.op = "write" -> {[ret |-> c.args[2], out |-> <<>>]}
    [] c.op = "pipe"  -> {[ret |-> 0, out |-> <<5, 6>>]}
    [] c.op = "open"  -> {[ret |-> 5, out |-> <<>>]}
    [] c.op = "lseek" -> {[ret |-> n, out |-> <<>>] : n \in {0, HALF + 1}}
    [] OTHER          -> {[ret |-> 0, out |-> <<>>]}
Outcomes(c) == Failures(c) \union IF Refused(c) THEN {} ELSE Successes(c)

(* The reply: c_read sends readReturn + 8 bytes, which is 7 when it is -1. *)
Reply(c, o, e) ==
  LET head == Encode(o.ret) \o Encode(e)
  IN  CASE c.op = "read" -> SubSeq(head \o o.out, 1, 8 + o.ret)
        [] c.op = "pipe" -> head \o EncodeAll(o.out)
        [] OTHER         -> head

(* The handler has its arguments: it makes the call and writes the reply.  A
   call that succeeds leaves errno alone, and errno is sent all the same.  The
   first write after the client is gone is answered by a reset, the next one
   by SIGPIPE.  c_read allocates its reply after the call. *)
Serve ==
  /\ spc = "handler" /\ todo = <<>>
  /\ \E o \in Outcomes(Requested), e \in Errors \union {errno} :
       /\ o.ret # -1 => e = errno
       /\ o.ret = -1 => e \in Errors
       /\ errno' = e
       /\ log' = Append(log, [call |-> Requested, ret |-> o.ret, err |-> e, out |-> o.out])
       /\ \/ /\ toClient' = IF Gone THEN toClient ELSE toClient \o Reply(Requested, o, e)
             /\ reset' = (reset \/ Gone)
             /\ spc' = IF reset THEN "sigpipe" ELSE "opcode"
          \/ /\ overrun /\ Ops[type] = "read"
             /\ spc' = "aborted"
             /\ UNCHANGED <<toClient, reset>>
  /\ UNCHANGED <<client, toServer, handler>>

(* malloc, calloc or free meets what the heap was overwritten with. *)
Abort ==
  /\ overrun /\ spc \in {"opcode", "handler"}
  /\ spc' = "aborted"
  /\ UNCHANGED <<client, toServer, toClient, handler, errno, reset, log>>

--------------------------------------------------------------------------------
Init ==
  /\ cpc = "app" /\ calls = <<>> /\ returns = <<>>
  /\ toServer = <<>> /\ toClient = <<>>
  /\ spc = "opcode" /\ type = 0
  /\ todo = <<>> /\ tempbuff = Blank /\ ints = <<>> /\ bytes = <<>>
  /\ overrun = FALSE /\ errno = 0 /\ reset = FALSE /\ log = <<>>

Child == ReadOpcode \/ ReadField \/ Serve
Client == (\E c \in Calls : Invoke(c)) \/ Receive \/ End \/ Kill

Next == Child \/ Client \/ Abort

(* The two processes are scheduled; the program is not obliged to make a call,
   to end or to be killed, nor the overwritten heap to kill the child. *)
Spec == Init /\ [][Next]_vars /\ WF_vars(Child) /\ WF_vars(Receive)

--------------------------------------------------------------------------------
Reached(c) == [c EXCEPT !.args = [i \in DOMAIN c.args |-> Wire(c.args[i])]]

(* The types of the variables. *)
TypeOK ==
  /\ cpc \in {"app", "wait", "ended", "killed"}
  /\ toServer \in Seq(Byte) /\ toClient \in Seq(Byte)
  /\ spc \in {"opcode", "handler", "exited", "sigpipe", "aborted"} /\ type \in Byte
  /\ overrun \in BOOLEAN
  /\ tempbuff \in Word /\ errno \in Errors \union {0} /\ reset \in BOOLEAN
  /\ calls \in Seq(Calls) /\ Len(returns) <= Len(calls)

(* Between calls nothing is left on either stream, and the child stands at its
   opcode loop if it did not die of an overrun: every call consumes its message and its reply to the byte,
   c_read's short error reply included (r_server.c:180, r_client.c:220). *)
StreamsDrained ==
  cpc = "app" => toServer = <<>> /\ toClient = <<>> /\ spc \in {"opcode", "aborted"}

(* What the child does when the client is gone carries nothing of the client's:
   a call made again on a stale opcode has arguments no descriptor matches
   (r_server.c:369-406). *)
PhantomsCarryNothing ==
  \A i \in DOMAIN log : i > Len(calls) =>
    /\ \A k \in DOMAIN log[i].call.args : log[i].call.args[k] = Decode(Blank)
    /\ log[i].call.data = <<>>

(* The child leaves only when the client has: no call is left unanswered by a
   child that took an argument for EOF (r_server.c:371). *)
ChildOutlivesClient == spc \in {"exited", "sigpipe"} => Gone

(* A call returns, unless its client is killed or a write of more than malloc(0)
   gives (r_server.c:191) has been the child's death. *)
CallsReturn == cpc = "wait" ~> cpc # "wait" \/ spc = "aborted"

(* A child whose client ended, or made a call before it was killed, ends. *)
ChildEnds == Gone /\ (cpc = "ended" \/ calls # <<>>) ~> spc \in {"exited", "sigpipe", "aborted"}

(* What a stub can tell of a result: ints come through the wire, and the errno
   of a failed read lacks its last byte (r_server.c:180). *)
Told(c, r) ==
  [ret |-> r.ret, out |-> r.out,
   err |-> IF c.op = "read" /\ r.ret = -1 THEN 0 ELSE r.err]
Wired(c, r) ==
  [ret |-> Wire(r.ret), err |-> Wire(r.err),
   out |-> IF c.op = "pipe" THEN [i \in DOMAIN r.out |-> Wire(r.out[i])] ELSE r.out]
Own == IF Len(log) < Len(calls) THEN Len(log) ELSE Len(calls)

(* The session as RemoteCalls sees it. *)
RemoteCall == {Reached(c) : c \in Calls}
RemoteResult ==
  {Told(c, Wired(c, [ret |-> o.ret, out |-> o.out, err |-> e])) :
     c \in RemoteCall, o \in UNION {Outcomes(d) : d \in RemoteCall}, e \in Errors \union {0}}
Phase ==
  CASE cpc = "app"  -> "ready"
    [] cpc = "wait" -> IF Own < Len(calls) THEN "called" ELSE "served"
    [] OTHER        -> IF Own < Len(calls) THEN "abandoned" ELSE "over"
Issued == [i \in DOMAIN calls |-> Reached(calls[i])]
OnServer ==
  [i \in 1..Own |-> [call |-> log[i].call, result |-> Told(log[i].call, Wired(log[i].call, log[i]))]]
Answers == [i \in DOMAIN returns |-> Told(calls[i], returns[i])]

Promise == INSTANCE RemoteCalls WITH
  Call <- RemoteCall, Result <- RemoteResult,
  phase <- Phase, issued <- Issued, served <- OnServer, answers <- Answers

(* The session implements RemoteCalls: every call is made on the server once, in
   the order of the program, with the arguments the wire leaves of it, and its
   stub returns its own result, data and errno, whatever a kill interrupts
   (r_client.c:85-400, r_server.c:46-328).  A call that the child dies of, or
   that finds it dead, stays unserved. *)
ImplementsRemoteCalls == Promise!Spec

(* Every call is made on the server with the arguments the program passed. *)
ServedAsCalled ==
  \A i \in DOMAIN log : i <= Len(calls) => log[i].call = calls[i]
================================================================================
