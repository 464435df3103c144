------------------------------ MODULE Receivers ------------------------------
(***************************************************************************)
(* From the sockets to the parser and back (receiver.rs, and the loop at   *)
(* the end of main.rs).  A thread per TVU socket fills buffers of its own  *)
(* pool and queues them; the parser thread drains them in the order they   *)
(* were queued and hands each back to the receiver it came from.  Nothing  *)
(* else stops a parser that falls behind from growing the queue.           *)
(*                                                                         *)
(* A datagram is its number on its socket: only what the kernel gave out   *)
(* is numbered, what it dropped before never was here.  A receiver reads   *)
(* the exit flag and picks a buffer in one step: only it takes from its    *)
(* pool, and the flag is never taken back.                                 *)
(***************************************************************************)
EXTENDS Integers, Sequences, FiniteSets

CONSTANTS
  Sockets,
  POOL_BATCHES,  \* Buffers a receiver owns
  RECV_BATCH,    \* Datagrams a buffer takes
  KERNEL,        \* Datagrams a socket holds before the kernel drops them
  DATAGRAMS      \* Bound: datagrams a socket is given in a behaviour

ASSUME ReceiversAssumption ==
  /\ IsFiniteSet(Sockets) /\ "none" \notin Sockets
  /\ {POOL_BATCHES, RECV_BATCH, KERNEL} \subseteq Nat \ {0}
  /\ DATAGRAMS \in Nat

VARIABLES
  \* a receiver thread
  rx,      \* where it is
  held,    \* the spare buffer at the top of its loop, the batch below it
  pool,    \* the channel its buffers come home on
  \* its socket
  kernel,  \* datagrams waiting to be read
  taken,   \* datagrams read so far
  \* the parser thread
  parser,  \* where it is
  current, \* the batch it is parsing
  parsed,  \* history: socket |-> the datagrams parsed, in order
  dropped, \* the ends of the channels it has dropped without finishing
  \* shared
  queue,   \* Receivers.batches
  depth,   \* the gauge of sniper.queue.depth
  exit

socketVars == <<kernel, taken>>
rxVars     == <<rx, held>>
parserVars == <<parser, current, parsed, dropped>>
vars == <<rxVars, pool, socketVars, parserVars, queue, depth, exit>>

----------------------------------------------------------------------------
(* Batch.                                                                   *)

NoBatch == [socket |-> "none"]

\* The packets of a buffer, 0 where the Meta is untouched.
NewBatch(s) == [socket |-> s, packets |-> [i \in 1..RECV_BATCH |-> 0], filled |-> 0]

Filled(batch, n, from) ==
  [batch EXCEPT !.packets = [i \in 1..RECV_BATCH |-> IF i <= n THEN from + i ELSE @[i]],
                !.filled = n]

Received_Whole(batch) == batch.packets

Received(batch) == SubSeq(batch.packets, 1, batch.filled)

Clear(batch) ==
  [batch EXCEPT !.packets = [i \in 1..RECV_BATCH |-> IF i <= batch.filled THEN 0 ELSE @[i]],
                !.filled = 0]

\* QueueMetrics::popped saturates.
Popped_Batches(batch) == IF depth = 0 THEN 0 ELSE depth - 1

Popped(batch) == IF depth < batch.filled THEN 0 ELSE depth - batch.filled

----------------------------------------------------------------------------
Init ==
  /\ rx = [s \in Sockets |-> "top"]
  /\ held = [s \in Sockets |-> NoBatch]
  /\ pool = [s \in Sockets |-> [k \in 1..POOL_BATCHES |-> NewBatch(s)]]
  /\ kernel = [s \in Sockets |-> 0] /\ taken = [s \in Sockets |-> 0]
  /\ parser = "starting" /\ current = NoBatch
  /\ parsed = [s \in Sockets |-> <<>>]
  /\ dropped = {}
  /\ queue = <<>> /\ depth = 0
  /\ exit = FALSE

\* The thread returns, and drops the buffers it holds and its channel ends.
Return(s) ==
  /\ rx' = [rx EXCEPT ![s] = "gone"]
  /\ held' = [held EXCEPT ![s] = NoBatch]
  /\ pool' = [pool EXCEPT ![s] = <<>>]
  /\ UNCHANGED <<socketVars, parserVars, queue, depth, exit>>

Leave(s) == rx[s] = "top" /\ exit /\ Return(s)

\* The spare buffer, or one the parser has returned.
Pick(s) ==
  /\ rx[s] = "top" /\ ~exit
  /\ rx' = [rx EXCEPT ![s] = "reading"]
  /\ \/ held[s] # NoBatch /\ UNCHANGED <<held, pool>>
     \/ /\ held[s] = NoBatch /\ pool[s] # <<>>
        /\ held' = [held EXCEPT ![s] = Head(pool[s])]
        /\ pool' = [pool EXCEPT ![s] = Tail(@)]
  /\ UNCHANGED <<socketVars, parserVars, queue, depth, exit>>

Exhausted(s) ==
  /\ rx[s] = "top" /\ ~exit /\ held[s] = NoBatch /\ pool[s] = <<>>
  /\ rx' = [rx EXCEPT ![s] = "waiting"]
  /\ UNCHANGED <<held, pool, socketVars, parserVars, queue, depth, exit>>

Returned(s) ==
  /\ rx[s] = "waiting" /\ pool[s] # <<>>
  /\ rx' = [rx EXCEPT ![s] = "reading"]
  /\ held' = [held EXCEPT ![s] = Head(pool[s])]
  /\ pool' = [pool EXCEPT ![s] = Tail(@)]
  /\ UNCHANGED <<socketVars, parserVars, queue, depth, exit>>

\* RECV_TIMEOUT has passed with no buffer.
TimedOut(s) ==
  /\ rx[s] = "waiting" /\ pool[s] = <<>>
  /\ rx' = [rx EXCEPT ![s] = "top"]
  /\ UNCHANGED <<held, pool, socketVars, parserVars, queue, depth, exit>>

Disconnected(s) ==
  /\ rx[s] = "waiting" /\ pool[s] = <<>> /\ "pool" \in dropped
  /\ Return(s)

\* recvmmsg takes what is queued, up to a full buffer.
Receive(s) ==
  LET n == IF kernel[s] < RECV_BATCH THEN kernel[s] ELSE RECV_BATCH
  IN  /\ rx[s] = "reading" /\ kernel[s] > 0
      /\ rx' = [rx EXCEPT ![s] = "sending"]
      /\ held' = [held EXCEPT ![s] = Filled(@, n, taken[s])]
      /\ kernel' = [kernel EXCEPT ![s] = @ - n]
      /\ taken' = [taken EXCEPT ![s] = @ + n]
      /\ depth' = depth + n
      /\ UNCHANGED <<pool, parserVars, queue, exit>>

Spared(s) ==
  /\ rx' = [rx EXCEPT ![s] = "top"]
  /\ UNCHANGED <<held, pool, socketVars, parserVars, queue, depth, exit>>

\* Without a read timeout a quiet socket is read until something arrives.
Quiet_Never(s) == FALSE

\* The read timeout passed: the buffer is still clean, and kept.
Quiet(s) == rx[s] = "reading" /\ kernel[s] = 0 /\ Spared(s)

\* recvmmsg fails, or is interrupted, though datagrams are waiting.
Fails(s) == rx[s] = "reading" /\ kernel[s] > 0 /\ Spared(s)

Send(s) ==
  /\ rx[s] = "sending" /\ "batches" \notin dropped
  /\ rx' = [rx EXCEPT ![s] = "top"]
  /\ queue' = Append(queue, held[s])
  /\ held' = [held EXCEPT ![s] = NoBatch]
  /\ UNCHANGED <<pool, socketVars, parserVars, depth, exit>>

Unsent(s) == rx[s] = "sending" /\ "batches" \in dropped /\ Return(s)

----------------------------------------------------------------------------
(* The parser thread: the end of main.rs's run.                             *)

\* The threads started after the receivers are up.
Start ==
  /\ parser = "starting"
  /\ parser' = "idle"
  /\ UNCHANGED <<rxVars, pool, socketVars, current, parsed, dropped, queue, depth, exit>>

Parse ==
  LET batch == Head(queue)
  IN  /\ parser = "idle" /\ queue # <<>>
      /\ parser' = "parsing"
      /\ current' = batch
      /\ queue' = Tail(queue)
      /\ depth' = Popped(batch)
      /\ parsed' = [parsed EXCEPT ![batch.socket] = @ \o Received(batch)]
      /\ UNCHANGED <<rxVars, pool, socketVars, dropped, exit>>

\* Whichever socket is the first gets every buffer.
Home_First(batch) == CHOOSE s \in Sockets : TRUE

Home(batch) == batch.socket

\* Pool::recycle.  A receiver that has left takes nothing back.
Recycle ==
  LET s == Home(current)
  IN  /\ parser = "parsing"
      /\ parser' = "idle"
      /\ pool' = IF rx[s] = "gone" THEN pool
                 ELSE [pool EXCEPT ![s] = Append(@, Clear(current))]
      /\ current' = NoBatch
      /\ UNCHANGED <<rxVars, socketVars, parsed, dropped, queue, depth, exit>>

\* The flag ends the loop.
HungUp_OnFlag == exit

\* spawn's own sender, or a receiver's, is still around.
HungUp_Never == FALSE

HungUp == queue = <<>> /\ \A s \in Sockets : rx[s] = "gone"

Finish ==
  /\ parser = "idle" /\ HungUp
  /\ parser' = "done"
  /\ exit' = TRUE
  /\ UNCHANGED <<rxVars, pool, socketVars, current, parsed, dropped, queue, depth>>

\* A later step of the start-up fails, or parsing panics: the parser goes and
\* takes its ends of the channels with it, one and then the other.
Die ==
  /\ parser \in {"starting", "parsing"}
  /\ parser' = "dead"
  /\ current' = NoBatch
  /\ UNCHANGED <<rxVars, pool, socketVars, parsed, dropped, queue, depth, exit>>

Drop(end) ==
  /\ parser = "dead" /\ end \notin dropped
  /\ dropped' = dropped \cup {end}
  /\ queue' = IF end = "batches" THEN <<>> ELSE queue
  /\ UNCHANGED <<rxVars, pool, socketVars, parser, current, parsed, depth, exit>>

----------------------------------------------------------------------------
(* Around them.                                                             *)

Arrive(s) ==
  /\ kernel[s] < KERNEL /\ taken[s] + kernel[s] < DATAGRAMS
  /\ kernel' = [kernel EXCEPT ![s] = @ + 1]
  /\ UNCHANGED <<rxVars, pool, taken, parserVars, queue, depth, exit>>

\* A signal handler.
Stop ==
  /\ ~exit /\ exit' = TRUE
  /\ UNCHANGED <<rxVars, pool, socketVars, parserVars, queue, depth>>

ReceiverStep(s) ==
  Leave(s) \/ Pick(s) \/ Exhausted(s) \/ Returned(s) \/ TimedOut(s) \/ Disconnected(s)
    \/ Receive(s) \/ Quiet(s) \/ Send(s) \/ Unsent(s)

ParserStep == Start \/ Parse \/ Recycle \/ Finish \/ \E end \in {"batches", "pool"} : Drop(end)

Next ==
  \/ \E s \in Sockets : ReceiverStep(s) \/ Fails(s) \/ Arrive(s)
  \/ ParserStep \/ Die \/ Stop

\* Every thread runs, its waits bounded by RECV_TIMEOUT, and recvmmsg does not
\* fail for ever over datagrams that are there.
Spec ==
  /\ Init /\ [][Next]_vars
  /\ WF_vars(ParserStep)
  /\ \A s \in Sockets : WF_vars(ReceiverStep(s)) /\ SF_vars(Receive(s))

----------------------------------------------------------------------------
\* The batches waiting that came from a socket, by their places in the queue.
Queued(q, s) == {k \in DOMAIN q : q[k].socket = s}

Counted(batch, s) == IF batch.socket = s THEN 1 ELSE 0

\* The datagrams of a queue: the place of the batch, and the place in it.
Datagrams(q) == {at \in (DOMAIN q) \X (1..RECV_BATCH) : at[2] <= q[at[1]].filled}

\* The datagrams read by the receivers and not queued yet.
InHand ==
  {at \in Sockets \X (1..RECV_BATCH) :
     rx[at[1]] = "sending" /\ at[2] <= held[at[1]].filled}

\* What was read from a socket and is not yet in the parser's hands, the batch
\* not queued yet behind those that are.
Trail(s) == IF rx[s] = "sending" THEN Append(queue, held[s]) ELSE queue

OnTheWay(s) == {at \in Datagrams(Trail(s)) : Trail(s)[at[1]].socket = s}

Number(s, at) == Trail(s)[at[1]].packets[at[2]]

Before(at, to) == at[1] < to[1] \/ (at[1] = to[1] /\ at[2] < to[2])

TypeOK ==
  /\ rx \in [Sockets -> {"top", "waiting", "reading", "sending", "gone"}]
  /\ parser \in {"starting", "idle", "parsing", "done", "dead"}
  /\ \A s \in Sockets :
       /\ kernel[s] \in 0..KERNEL /\ taken[s] + kernel[s] \in 0..DATAGRAMS
       /\ rx[s] \in {"reading", "sending"} => held[s].socket = s
       /\ rx[s] \in {"waiting", "gone"} => held[s] = NoBatch
  /\ (parser = "parsing") = (current # NoBatch)
  /\ dropped \subseteq {"batches", "pool"} /\ (dropped # {} => parser = "dead")
  /\ depth \in Nat /\ exit \in BOOLEAN

\* While it and the parser live, a receiver owns every buffer it was given and
\* none of another's: no path through its loop, and no way home, loses one.
BuffersKept ==
  \A s \in Sockets :
    rx[s] # "gone" /\ parser # "dead" =>
      /\ \A k \in DOMAIN pool[s] : pool[s][k].socket = s
      /\ Cardinality(Queued(queue, s)) + Len(pool[s])
           + Counted(held[s], s) + Counted(current, s) = POOL_BATCHES

\* Every datagram read from a socket is parsed, once, in the order it was
\* read, or is on its way to the parser behind those before it; and the parser
\* leaves none on the way.
NothingSkipped ==
  parser # "dead" =>
    \A s \in Sockets :
      /\ Len(parsed[s]) <= taken[s]
      /\ parsed[s] = [i \in 1..Len(parsed[s]) |-> i]
      /\ {Number(s, at) : at \in OnTheWay(s)} = (Len(parsed[s]) + 1)..taken[s]
      /\ \A at, to \in OnTheWay(s) : Before(at, to) => Number(s, at) < Number(s, to)
      /\ parser = "done" => OnTheWay(s) = {}

\* The gauge counts the datagrams between receivers and parser, and does not
\* drift although the one side adds and the other subtracts and saturates.
DepthExact ==
  parser # "dead" => depth = Cardinality(Datagrams(queue)) + Cardinality(InHand)

\* What waits in a socket is read, however busy the others keep the parser.
NoneStarves ==
  \A s \in Sockets : kernel[s] > 0 ~> (kernel[s] = 0 \/ exit \/ parser = "dead")

\* The exit flag gets everyone home, whatever each of them is waiting for.
StopsOnExit ==
  exit ~> (parser \in {"done", "dead"} /\ \A s \in Sockets : rx[s] = "gone")
=============================================================================
