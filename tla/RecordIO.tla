-------------------------------- MODULE RecordIO -------------------------------
(***************************************************************************)
(* recordio.c, with the program that calls it, beside the indexer. A file  *)
(* of records is two files, the bytes and the descriptors, each with its   *)
(* own position; a handle holds the two file descriptors in one int.       *)
(* Positions in the index are counted in descriptors of DESC bytes: every  *)
(* write to that file is one descriptor.                                   *)
(*                                                                         *)
(* The program has one thread, and nobody but the indexer is at the files  *)
(* beside it. rio_write and rio_lseek make several system calls between    *)
(* which the indexer may write, each a step here; rio_read has one effect  *)
(* of the index on it, its first read, and is one step. Files are opened   *)
(* O_RDWR, with or without O_CREAT, and a close does not fail.             *)
(***************************************************************************)
EXTENDS Indexer, SequencesExt

CONSTANTS
  DESC,       (* sizeof(struct record_descriptor); 8 in the build     *)
  SHIFT,      (* what a file descriptor is below; 2^16 in the build   *)
  Counts,     (* the numbers of bytes the program writes              *)
  Offsets,    (* the offsets it seeks by                              *)
  HOLE,       (* the byte of a hole, and the terminating NUL          *)
  MAXFDS,     (* bound: file descriptors a process may have           *)
  MAXWRITES   (* bound: writes that reach the data file               *)

ASSUME SizesPositive == DESC \in Nat \ {0} /\ MAXFDS \in Nat \ {0}
ASSUME FdsFit == SHIFT \in Nat /\ MAXFDS <= SHIFT
ASSUME ProgramAsks == Counts \subseteq Nat \ {0} /\ Offsets \subseteq Int
ASSUME BytesAreNumbers == HOLE \in Nat /\ MAXWRITES \in Nat

VARIABLES
  fds,        (* file descriptor -> Closed, or the file and the position in it *)
  handles,    (* what rio_open returned and the program has not closed         *)
  answer,     (* what the last call returned                                   *)
  writes,     (* writes that reached the data file so far                      *)
  call,       (* the rio_write or rio_lseek under way, and its next step       *)
  cut         (* history: the records whose data write was cut short           *)

ioVars == <<fds, handles, answer, writes, call, cut>>
vars == <<indexerVars, ioVars>>

Fd == 0 .. MAXFDS - 1
Closed == [file |-> "none", pos |-> 0]
At(file, pos) == [file |-> file, pos |-> pos]
Result(n, text) == [val |-> n, text |-> text]
Error == Result(-1, <<>>)

(* A call waits for its step: for a write, "data" or "index"; for a seek, "seek",
   or "past" when it found no descriptor. at is the place in the index it is for;
   put counts the bytes written. *)
Call(step, h, at, new, position, count) ==
  [step |-> step, h |-> h, at |-> at, new |-> new, position |-> position, count |-> count,
   put |-> 0]
Idle == Call("none", 0, 0, FALSE, 0, 0)
Writing == call.step \in {"data", "index"}

combineDescriptors(d, i) == i * SHIFT + d
dataFd(h) == h % SHIFT
indexFd(h) == h \div SHIFT
dpos(h) == fds[dataFd(h)].pos
ipos(h) == fds[indexFd(h)].pos
MoveTo(h, d, i) == fds' = [fds EXCEPT ![dataFd(h)].pos = d, ![indexFd(h)].pos = i]

(* write(2) at position p of a file: what lies between its end and p is a hole. *)
Put(s, p, b, hole) ==
  IF b = <<>> THEN s
  ELSE [k \in 1 .. Max({Len(s), p + Len(b)}) |->
         CASE k \in p + 1 .. p + Len(b)              -> b[k - p]
           [] k \in DOMAIN s \ (p + 1 .. p + Len(b)) -> s[k]
           [] OTHER                                 -> hole]
PutIndex(p, r) == index' = Put(index, p, <<r>>, [position |-> 0, length |-> 0])

AtEnd(h) == ipos(h) >= Len(index)
Current(h) == index[ipos(h) + 1]

(* The bytes of a write: its number, n times. *)
Bytes(w, n) == [k \in 1..n |-> w]

Init ==
  /\ InitIndexer
  /\ fds = [f \in Fd |-> Closed]
  /\ handles = {} /\ answer = Error /\ writes = 0 /\ call = Idle /\ cut = {}

--------------------------------------------------------------------------------
Free == {f \in Fd : fds[f] = Closed}

(* When the index cannot be opened the descriptor of the data file stays open. *)
rio_open(create) ==
  LET may(file) == create \/ file \in made
      d == Min(Free)
      i == Min(Free \ {d})
  IN  \/ /\ Free = {} \/ ~may("data")
         /\ answer' = Error
         /\ UNCHANGED <<fds, handles, made>>
      \/ /\ Free # {} /\ may("data")
         /\ Free = {d} \/ ~may("index")
         /\ made' = made \union {"data"}
         /\ fds' = [fds EXCEPT ![d] = At("data", 0)]
         /\ answer' = Error
         /\ UNCHANGED handles
      \/ /\ Free # {} /\ Free # {d} /\ may("data") /\ may("index")
         /\ made' = made \union {"data", "index"}
         /\ fds' = [fds EXCEPT ![d] = At("data", 0), ![i] = At("index", 0)]
         /\ handles' = handles \union {combineDescriptors(d, i)}
         /\ answer' = Result(combineDescriptors(d, i), <<>>)

Open ==
  /\ call = Idle
  /\ \E create \in BOOLEAN : rio_open(create)
  /\ UNCHANGED <<data, index, indexer, careful, lost, writes, call, cut>>

(* The last byte is overwritten by NUL when it is a newline. *)
Chomp(b) == IF b # <<>> /\ Last(b) = NL THEN Append(Front(b), HOLE) ELSE b

(* Mistake: the data file is read where it stands. *)
ReadWhereItStands(h) ==
  LET r == Current(h)
      b == SubSeq(data, dpos(h) + 1, Min({dpos(h) + r.length, Len(data)}))
  IN  /\ call = Idle /\ ~AtEnd(h)
      /\ MoveTo(h, dpos(h) + Len(b), ipos(h) + 1)
      /\ answer' = Result(Len(b), IF Len(b) = r.length THEN Chomp(b) ELSE b)
      /\ UNCHANGED <<indexerVars, handles, writes, call, cut>>

(* Seeks the data file itself, to where the descriptor says.  Of a
   record that goes on past the data the last byte is not among those read. *)
rio_read(h) ==
  LET r == Current(h)
      b == SubSeq(data, r.position + 1, Min({r.position + r.length, Len(data)}))
  IN  /\ call = Idle
      /\ IF AtEnd(h)
         THEN answer' = Result(0, <<>>) /\ UNCHANGED fds
         ELSE /\ MoveTo(h, r.position + Len(b), ipos(h) + 1)
              /\ answer' = Result(Len(b), IF Len(b) = r.length THEN Chomp(b) ELSE b)
      /\ UNCHANGED <<indexerVars, handles, writes, call, cut>>

(* Mistake: the room the record has is not compared. *)
UpdateUnchecked(h, count) ==
  /\ ~AtEnd(h)
  /\ MoveTo(h, dpos(h), ipos(h) + 1)
  /\ call' = Call("data", h, ipos(h), FALSE, Current(h).position, count)
  /\ UNCHANGED answer

(* Mistake: the position is worked out backwards from the data file's. *)
UpdateBackwards(h, count) ==
  /\ ~AtEnd(h) /\ count <= Current(h).length
  /\ MoveTo(h, dpos(h), ipos(h) + 1)
  /\ call' = Call("data", h, ipos(h), FALSE, dpos(h) - Current(h).length, count)
  /\ UNCHANGED answer

(* rio_write at the end of the index: the record will be where the data file
   stands. *)
AppendRecord(h, count) ==
  /\ AtEnd(h)
  /\ call' = Call("data", h, ipos(h), TRUE, dpos(h), count)
  /\ UNCHANGED <<fds, answer>>

(* rio_write over a record: its descriptor was read, so the index has moved on
   even if the write is refused. *)
UpdateRecord(h, count) ==
  /\ ~AtEnd(h)
  /\ MoveTo(h, dpos(h), ipos(h) + 1)
  /\ \/ count > Current(h).length /\ answer' = Error /\ UNCHANGED call
     \/ /\ count <= Current(h).length
        /\ call' = Call("data", h, ipos(h), FALSE, Current(h).position, count)
        /\ UNCHANGED answer

rio_write(h, count) ==
  /\ call = Idle /\ writes < MAXWRITES
  /\ AppendRecord(h, count) \/ UpdateRecord(h, count)
  /\ UNCHANGED <<indexerVars, handles, writes, cut>>

(* The bytes go where the data file happens to stand, as many as the disk takes.
   Only a write that took none is an error. *)
WriteData ==
  /\ call.step = "data"
  /\ LET h == call.h
         count == call.count
     IN  \/ \E n \in 1..count :
              /\ n = count \/ FAULTS
              /\ data' = Put(data, dpos(h), Bytes(writes + 1, n), HOLE)
              /\ writes' = writes + 1
              /\ MoveTo(h, dpos(h) + n, ipos(h))
              /\ careful' = (/\ careful /\ n = count
                             /\ call.new => /\ call.at <= Len(index)
                                            /\ Untaken(DOMAIN index, dpos(h), count)
                             /\ ~call.new => dpos(h) = call.position)
              /\ call' = [call EXCEPT !.step = "index", !.put = n]
              /\ UNCHANGED answer
         \/ /\ FAULTS
            /\ answer' = Error /\ call' = Idle
            /\ UNCHANGED <<data, writes, fds, careful>>
  /\ UNCHANGED <<made, index, indexer, lost, handles, cut>>

(* The descriptor goes to its place in the index, whatever the indexer has put
   there since the call read it.  That an update cannot write it is ignored. *)
WriteIndex ==
  /\ call.step = "index"
  /\ LET h == call.h
         at == call.at
     IN  \/ /\ PutIndex(at, [position |-> call.position, length |-> call.count])
            /\ MoveTo(h, dpos(h), at + 1)
            /\ answer' = Result(call.count, <<>>)
            /\ careful' = (/\ careful
                           /\ call.new => Untaken(DOMAIN index \ {at + 1}, call.position, call.count))
            /\ cut' = IF call.new /\ call.put < call.count THEN cut \union {at + 1} ELSE cut
         \/ /\ FAULTS
            /\ MoveTo(h, dpos(h), at)
            /\ answer' = IF call.new THEN Error ELSE Result(call.count, <<>>)
            /\ careful' = (careful /\ call.new)
            /\ UNCHANGED <<index, cut>>
  /\ call' = Idle
  /\ UNCHANGED <<made, data, indexer, lost, handles, writes>>

(* The record asked for is bounded by the size of the DATA file. *)
rio_lseek(h, offset, whence) ==
  LET p == offset + CASE whence = "SET" -> 0
                      [] whence = "CUR" -> ipos(h)
                      [] whence = "END" -> Len(index)
  IN  /\ call = Idle
      /\ IF p < 0 \/ p > Len(data) \div DESC
         THEN answer' = Error /\ UNCHANGED call
         ELSE call' = Call("seek", h, p, FALSE, 0, 0) /\ UNCHANGED answer
      /\ UNCHANGED <<indexerVars, fds, handles, writes, cut>>

(* Both files are set, and the call returns. *)
Sought(d) ==
  /\ MoveTo(call.h, d, call.at)
  /\ answer' = Result(call.at, <<>>) /\ call' = Idle

(* It reads the descriptor there. *)
FindPlace ==
  /\ call.step = "seek"
  /\ \/ call.at < Len(index) /\ Sought(index[call.at + 1].position)
     \/ /\ call.at >= Len(index)
        /\ call' = [call EXCEPT !.step = "past"]
        /\ UNCHANGED <<fds, answer>>
  /\ UNCHANGED <<indexerVars, handles, writes, cut>>

(* There is none: the data file is set to the size of the INDEX file. *)
SeekPast ==
  /\ call.step = "past"
  /\ Sought(Len(index) * DESC)
  /\ UNCHANGED <<indexerVars, handles, writes, cut>>

(* Mistake: the index is left open. *)
CloseDataOnly(h) ==
  /\ call = Idle
  /\ fds' = [fds EXCEPT ![dataFd(h)] = Closed]
  /\ handles' = handles \ {h}
  /\ answer' = Result(0, <<>>)
  /\ UNCHANGED <<indexerVars, writes, call, cut>>

rio_close(h) ==
  /\ call = Idle
  /\ fds' = [fds EXCEPT ![dataFd(h)] = Closed, ![indexFd(h)] = Closed]
  /\ handles' = handles \ {h}
  /\ answer' = Result(0, <<>>)
  /\ UNCHANGED <<indexerVars, writes, call, cut>>

(* The program ends, or dies in the middle of a call: the kernel closes
   everything. *)
Exit ==
  /\ fds' = [f \in Fd |-> Closed]
  /\ handles' = {} /\ answer' = Error /\ call' = Idle
  /\ UNCHANGED <<indexerVars, writes, cut>>

Index ==
  /\ StartIndexer \/ FindLine \/ WriteLine \/ EndIndexer \/ KillIndexer
  /\ UNCHANGED ioVars

Next ==
  \/ Index \/ Open \/ Exit \/ WriteData \/ WriteIndex \/ FindPlace \/ SeekPast
  \/ \E h \in handles :
       \/ rio_read(h) \/ rio_close(h)
       \/ \E count \in Counts : rio_write(h, count)
       \/ \E offset \in Offsets, whence \in {"SET", "CUR", "END"} : rio_lseek(h, offset, whence)

(* Only the indexer is alone with its loop: it goes on as long as it runs. *)
Spec == Init /\ [][Next]_vars /\ WF_vars((FindLine \/ WriteLine \/ EndIndexer) /\ UNCHANGED ioVars)
--------------------------------------------------------------------------------
Handle == {combineDescriptors(d, i) : d \in Fd, i \in Fd}
Steps == {"none", "data", "index", "seek", "past"}

TypeOK ==
  /\ made \subseteq {"data", "index"} /\ careful \in BOOLEAN /\ lost \in BOOLEAN
  /\ data \in Seq(Nat) /\ index \in Seq([position : Nat, length : Nat])
  /\ indexer \in [pc : {"off", "line", "found", "stuck"}, at : Nat, size : Nat, runs : 0..MAXRUNS]
  /\ fds \in [Fd -> {Closed} \union [file : {"data", "index"}, pos : Nat]]
  /\ handles \subseteq Handle
  /\ answer \in [val : Int, text : Seq(Nat)]
  /\ writes \in 0..MAXWRITES
  /\ call \in [step : Steps, h : Nat, at : Nat, new : BOOLEAN, position : Nat, count : Nat, put : Nat]
  /\ cut \subseteq Nat

(* However handles are opened and closed (recordio.c:31-54, 246-270): a
   handle's two numbers are an open data file and an open index, no two handles
   share one, and what no handle names is a data file that a failed rio_open
   left at its start. *)
DescriptorsOwned ==
  /\ \A h \in handles :
       /\ fds[dataFd(h)].file = "data" /\ fds[indexFd(h)].file = "index"
       /\ \A g \in handles \ {h} : {dataFd(h), indexFd(h)} \cap {dataFd(g), indexFd(g)} = {}
  /\ \A f \in Fd :
       \/ \E h \in handles : f \in {dataFd(h), indexFd(h)}
       \/ fds[f] \in {Closed, At("data", 0)}

(* A descriptor reaches past the bytes of the data file only if the write of its
   own bytes was cut short, which rio_write takes for success (recordio.c:134-141):
   no write that failed, no death between the two writes, no update and no
   indexer beside them makes one that does (132-163, indexer.c:67-114). *)
EndOf(r) == r.position + r.length
WithinData == \A i \in DOMAIN index \ cut : EndOf(index[i]) <= Len(data)

(* While only the indexer has written (indexer.c:67-114), run once, the
   descriptors are lines of the text in their order: each begins at the start of
   the text or behind a newline, and goes up to its first newline, that one
   included, or to the end of the text.  Unless one could not be written each
   begins where the one before it ends, and when the indexer ends in good order
   every byte of the text is in a line. *)
IndexedTo == IF index = <<>> THEN 0 ELSE EndOf(index[Len(index)])
IsLine(r) ==
  /\ r.length > 0
  /\ r.position = 0 \/ data[r.position] = NL
  /\ \A k \in r.position + 1 .. EndOf(r) - 1 : data[k] # NL
  /\ data[EndOf(r)] = NL \/ EndOf(r) = Len(data)
Follows(r, last) == IF lost THEN r.position >= last ELSE r.position = last
IndexedLines ==
  writes = 0 /\ indexer.runs <= 1 =>
    /\ \A i \in DOMAIN index :
         IsLine(index[i]) /\ Follows(index[i], IF i = 1 THEN 0 ELSE EndOf(index[i - 1]))
    /\ (indexer.pc = "off" /\ indexer.at = Len(data) /\ ~lost) => IndexedTo = Len(data)

(* As long as the bytes of every write went where its record is and all of them
   were taken, and no update failed to write its descriptor, the two files behave
   as one sequence of records: writes that fail, deaths between two writes, an
   indexer beside a write and handles on the same file included
   (recordio.c:64-259). *)
Records == [i \in DOMAIN index |-> SubSeq(data, index[i].position + 1, EndOf(index[i]))]
Place(h) == IF Writing /\ call.h = h THEN call.at ELSE ipos(h)
NoWrite == [handle |-> -1, buffer |-> <<>>, new |-> FALSE, put |-> FALSE]
UnderWay ==
  IF ~Writing THEN NoWrite
  ELSE [handle |-> call.h, new |-> call.new, put |-> call.step = "index",
        buffer |-> Bytes(IF call.step = "index" THEN writes ELSE writes + 1, call.count)]
RF == INSTANCE RecordFile WITH
        Buffer <- UNION {[1..n -> {w}] : n \in Counts, w \in 1..MAXWRITES},
        Shown <- Chomp, Failed <- Error, Nothing <- NoWrite,
        records <- Records, cursor <- [h \in handles |-> Place(h)], writing <- UnderWay
ActsAsRecordFile == [][careful' => RF!Next]_(RF!fileVars)

(* Started on a file that exists, the indexer ends (indexer.c:67-114); started
   on one that does not, it may search its one unfilled byte for a newline for
   ever (72-83). *)
IndexerEnds == (indexer.pc \in {"line", "found"}) ~> (indexer.pc = "off")


(* recordio.c:111-113, "If updating an existing record, read the
   record_descriptor, check to see if the new record fits in the allocated area
   and rewrite": the record is then what was written. *)
Rewrites ==
  [][WriteIndex /\ ~call.new /\ answer' = Result(call.count, <<>>)
     => Records'[call.at + 1] = Bytes(writes, call.count)]_vars
================================================================================
