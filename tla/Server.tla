------------------------------- MODULE Server -------------------------------
(***************************************************************************)
(* The network server: the accept loop, one goroutine per connection, the  *)
(* active-expire loop, BGSAVE, and the stop sequence of the process.       *)
(*                                                                         *)
(* A command arrives as two pieces, so a connection can hold half of one.  *)
(* `buf' counts the pieces the reader has buffered: HasCompleteCommand is  *)
(* buf >= 2 (Codecs checks that reading against the bytes themselves).  A  *)
(* piece is sent when the reader fetches it, and `quota' bounds how many a *)
(* client sends.  What a command is, is chosen when it is parsed.          *)
(*                                                                         *)
(* The log is the set of its records the kernel does not have yet, and all *)
(* that matters of it is whether that is empty.  A reply `owes' when it    *)
(* acknowledges one of those records.                                      *)
(***************************************************************************)
EXTENDS Naturals, FiniteSets

CONSTANTS
  Conns,       \* the connections clients may open, each used once
  MaxClients,  \* bound: the largest maxclients the server is configured with
  MaxBatch,    \* maxBatch, in commands
  Sends,       \* bound: pieces each client sends
  ReplyCap,    \* replies the bufio writer holds before it spills
  Kinds,       \* the kinds of command each client sends
  IdleTimeout  \* whether cfg.IdleTimeout is set

ASSUME ServerAssumption ==
  /\ IsFiniteSet(Conns) /\ {"accept", "stopped"} \cap Conns = {}
  /\ MaxClients \in Nat \ {0} /\ MaxBatch \in Nat \ {0}
  /\ Sends \in [Conns -> Nat] /\ ReplyCap \in Nat \ {0}
  /\ Kinds \in [Conns -> SUBSET {"write", "read", "quit", "kill", "shutdown", "bgsave",
                                  "panic", "bad", "blank"}]
  /\ IdleTimeout \in BOOLEAN

VARIABLES
  pc,        \* where each connection's goroutine is
  buf,       \* pieces buffered by the connection's reader
  quota,     \* pieces its client may still send
  replies,   \* replies in the bufio writer: how many, and whether one owes
  batched,   \* commands served since the last blocking read
  victim,    \* the connection a CLIENT KILL in progress closes next
  open,      \* is the server's end of the socket open
  killed, closing,        \* command.Conn: killed, closeAfterReply
  conns,     \* s.conns, the registered connections
  maxclients, slots,      \* capacity of s.slots, fixed by New, and the tokens in it
  wg,        \* s.wg
  accept,    \* the accept loop: "accept", "stopped", or the connection it holds
  ln,        \* is the listener open
  cancelled, \* s.ctx
  main,      \* where main and Close are
  toClose,   \* connections Close copied and has not closed yet
  shutdownReq, \* the SHUTDOWN channel holds a request
  graceOver, \* Close stopped waiting at ShutdownGrace
  bgsave,    \* bgsaveActive
  expiry,    \* the active-expire loop runs
  engine,    \* "open" or "closed"
  unwritten, \* the log buffers records it has not handed to the kernel
  walFailed, \* a log write has failed
  ackedEarly \* a client got the reply to a record the kernel did not have

connVars == <<pc, buf, quota, replies, batched, victim, open, killed, closing>>
serveVars == <<conns, maxclients, slots, wg, accept, ln>>
stopVars == <<cancelled, main, toClose, shutdownReq, graceOver>>
logVars == <<engine, unwritten, walFailed, ackedEarly>>
vars == <<connVars, serveVars, stopVars, bgsave, expiry, logVars>>

NoReplies == [n |-> 0, owes |-> FALSE]

Handling == {"loop", "read", "dispatch", "batch", "kill", "flush", "reply"}
Alive == Handling \cup {"start", "exit"}

TypeOK ==
  /\ pc \in [Conns -> Alive \cup {"new", "held", "refused", "gone"}]
  /\ \A c \in Conns : buf[c] \in 0 .. Sends[c] /\ quota[c] \in 0 .. Sends[c]
  /\ replies \in [Conns -> [n : 0 .. ReplyCap, owes : BOOLEAN]]
  /\ batched \in [Conns -> 0 .. MaxBatch]
  /\ victim \in [Conns -> Conns]
  /\ {open, killed, closing} \subseteq [Conns -> BOOLEAN]
  /\ conns \subseteq Conns /\ toClose \subseteq Conns
  /\ maxclients \in 1 .. MaxClients /\ slots \in 0 .. maxclients /\ wg \in 0 .. Cardinality(Conns) + 2
  /\ accept \in Conns \cup {"accept", "stopped"}
  /\ main \in {"run", "cancel", "copy", "close", "engine", "exit"}
  /\ {ln, cancelled, shutdownReq, graceOver, bgsave, expiry, walFailed, unwritten,
      ackedEarly}
       \subseteq BOOLEAN
  /\ engine \in {"open", "closed"}

-----------------------------------------------------------------------------
(* The process is listening and no client has connected.                   *)
Init ==
  /\ pc = [c \in Conns |-> "new"]
  /\ buf = [c \in Conns |-> 0] /\ quota = Sends
  /\ replies = [c \in Conns |-> NoReplies] /\ batched = [c \in Conns |-> 0]
  /\ victim = [c \in Conns |-> c]
  /\ open = [c \in Conns |-> FALSE]
  /\ killed = [c \in Conns |-> FALSE] /\ closing = [c \in Conns |-> FALSE]
  /\ conns = {} /\ maxclients \in 1 .. MaxClients /\ slots = 0 /\ wg = 1 /\ accept = "accept" /\ ln = TRUE
  /\ cancelled = FALSE /\ main = "run" /\ toClose = {}
  /\ shutdownReq = FALSE /\ graceOver = FALSE
  /\ bgsave = FALSE /\ expiry = TRUE
  /\ engine = "open" /\ unwritten = FALSE /\ walFailed = FALSE /\ ackedEarly = FALSE

Goto(c, where) == pc' = [pc EXCEPT ![c] = where]
ShouldClose(c) == closing[c] \/ killed[c]
HasCompleteCommand(c) == buf[c] >= 2

-----------------------------------------------------------------------------
(* The accept loop.                                                        *)

Accept(c) ==
  /\ accept = "accept" /\ ln /\ pc[c] = "new"
  /\ accept' = c /\ Goto(c, "held") /\ open' = [open EXCEPT ![c] = TRUE]
  /\ UNCHANGED <<buf, quota, replies, batched, victim, killed, closing,
                 conns, maxclients, slots, wg, ln, stopVars, bgsave, expiry, logVars>>

\* A free slot: count the goroutine, then start it.
Spawn ==
  /\ accept \in Conns /\ slots < maxclients
  /\ slots' = slots + 1 /\ wg' = wg + 1
  /\ Goto(accept, "start") /\ accept' = "accept"
  /\ UNCHANGED <<buf, quota, replies, batched, victim, open, killed, closing,
                 conns, maxclients, ln, stopVars, bgsave, expiry, logVars>>

refuse ==
  /\ accept \in Conns /\ slots = maxclients
  /\ Goto(accept, "refused") /\ open' = [open EXCEPT ![accept] = FALSE]
  /\ accept' = "accept"
  /\ UNCHANGED <<buf, quota, replies, batched, victim, killed, closing,
                 conns, maxclients, slots, wg, ln, stopVars, bgsave, expiry, logVars>>

\* Accept on the closed listener fails, and the context says why.
AcceptStops ==
  /\ accept = "accept" /\ ~ln /\ cancelled
  /\ accept' = "stopped"
  /\ UNCHANGED <<connVars, conns, maxclients, slots, wg, ln, stopVars, bgsave, expiry, logVars>>

-----------------------------------------------------------------------------
(* handle and serveConn.                                                   *)

Register(c) ==
  /\ pc[c] = "start"
  /\ conns' = conns \cup {c} /\ Goto(c, "loop")
  /\ UNCHANGED <<buf, quota, replies, batched, victim, open, killed, closing,
                 maxclients, slots, wg, accept, ln, stopVars, bgsave, expiry, logVars>>

\* The context is not looked at.
LoopTopUnchecked(c) ==
  /\ pc[c] = "loop"
  /\ Goto(c, IF ~open[c] THEN "exit" ELSE "read")
  /\ batched' = [batched EXCEPT ![c] = 0]
  /\ UNCHANGED <<buf, quota, replies, victim, open, killed, closing,
                 serveVars, stopVars, bgsave, expiry, logVars>>

\* Top of the loop: a cancelled context or a closed socket (arming the read deadline
\* fails) ends the connection.
LoopTop(c) ==
  /\ pc[c] = "loop"
  /\ Goto(c, IF cancelled \/ ~open[c] THEN "exit" ELSE "read")
  /\ batched' = [batched EXCEPT ![c] = 0]
  /\ UNCHANGED <<buf, quota, replies, victim, open, killed, closing,
                 serveVars, stopVars, bgsave, expiry, logVars>>

\* The reader blocks for bytes, and some arrive.
Fill(c) ==
  /\ pc[c] = "read" /\ ~HasCompleteCommand(c) /\ open[c]
  /\ \E n \in 1 .. quota[c] :
       /\ buf' = [buf EXCEPT ![c] = @ + n] /\ quota' = [quota EXCEPT ![c] = @ - n]
  /\ UNCHANGED <<pc, replies, batched, victim, open, killed, closing,
                 serveVars, stopVars, bgsave, expiry, logVars>>

\* The read fails: the client hung up, or the socket was closed under the reader.
ReadFails(c) ==
  /\ pc[c] = "read" /\ ~HasCompleteCommand(c)
  /\ Goto(c, "exit")
  /\ UNCHANGED <<buf, quota, replies, batched, victim, open, killed, closing,
                 serveVars, stopVars, bgsave, expiry, logVars>>

\* The read deadline fires: mid-command (InFlight), or past the idle deadline, the
\* client is dropped; otherwise the loop goes round.
ReadTimeout(c) ==
  /\ pc[c] = "read" /\ ~HasCompleteCommand(c) /\ open[c]
  /\ \/ Goto(c, IF buf[c] > 0 THEN "exit" ELSE "loop")
     \/ buf[c] = 0 /\ IdleTimeout /\ Goto(c, "exit")
  /\ UNCHANGED <<buf, quota, replies, batched, victim, open, killed, closing,
                 serveVars, stopVars, bgsave, expiry, logVars>>

\* One more reply, owing or not; a full buffer spills to the socket first.
Reply(c, owes) ==
  IF replies[c].n < ReplyCap
    THEN /\ replies' = [replies EXCEPT ![c] = [n |-> @.n + 1, owes |-> @.owes \/ owes]]
         /\ UNCHANGED ackedEarly
    ELSE /\ replies' = [replies EXCEPT ![c] = [n |-> 1, owes |-> owes]]
         /\ ackedEarly' = (ackedEarly \/ (open[c] /\ replies[c].owes))

NoReply == UNCHANGED <<replies, ackedEarly>>

Take(c) == buf' = [buf EXCEPT ![c] = @ - 2]

\* A whole command is buffered and ReadCommand returns it.  "read" is the blocking
\* read that opens a batch, "batch" the loop that drains what is buffered.
ReadCommand(c) ==
  /\ pc[c] \in {"read", "batch"} /\ HasCompleteCommand(c)
  /\ pc[c] = "batch" => batched[c] < MaxBatch
  /\ Take(c)
  /\ \/ \* a blank line or an empty array: nothing to dispatch
        /\ "blank" \in Kinds[c]
        /\ Goto(c, "batch") /\ NoReply
        /\ batched' = [batched EXCEPT ![c] = IF pc[c] = "read" THEN 1 ELSE @]
        /\ UNCHANGED closing
     \/ \* framing is lost: one error reply, then hang up
        /\ "bad" \in Kinds[c]
        /\ Reply(c, FALSE) /\ Goto(c, "flush")
        /\ closing' = [closing EXCEPT ![c] = TRUE]
        /\ UNCHANGED batched
     \/ /\ Goto(c, "dispatch") /\ NoReply
        /\ batched' = [batched EXCEPT ![c] = @ + 1]
        /\ UNCHANGED closing
  /\ UNCHANGED <<quota, victim, open, killed, serveVars, stopVars, bgsave, expiry,
                 engine, unwritten, walFailed>>

\* The batch goes on while any byte is buffered.
BatchEndsLate(c) ==
  /\ pc[c] = "batch" /\ (~HasCompleteCommand(c) \/ batched[c] = MaxBatch)
  /\ IF buf[c] = 0 \/ batched[c] = MaxBatch THEN Goto(c, "flush")
     ELSE Goto(c, "read")
  /\ UNCHANGED <<buf, quota, replies, batched, victim, open, killed, closing,
                 serveVars, stopVars, bgsave, expiry, logVars>>

\* The batch ends: nothing complete is buffered, or maxBatch is reached.
BatchEnds(c) ==
  /\ pc[c] = "batch" /\ (~HasCompleteCommand(c) \/ batched[c] = MaxBatch)
  /\ Goto(c, "flush") /\ batched' = [batched EXCEPT ![c] = 0]
  /\ UNCHANGED <<buf, quota, replies, victim, open, killed, closing,
                 serveVars, stopVars, bgsave, expiry, logVars>>

-----------------------------------------------------------------------------
(* dispatch, one action per kind of command.  A killed connection serves   *)
(* nothing more; a command after which ShouldClose holds ends the batch.   *)

DispatchKilled(c) ==
  /\ pc[c] = "dispatch" /\ killed[c]
  /\ Goto(c, "flush")
  /\ UNCHANGED <<buf, quota, replies, batched, victim, open, killed, closing,
                 serveVars, stopVars, bgsave, expiry, logVars>>

Dispatch(c, kind) == pc[c] = "dispatch" /\ ~killed[c] /\ kind \in Kinds[c]

\* A command that writes appends a record; the error reply of a closed or failed log
\* acknowledges none.
DispatchWrite(c) ==
  /\ Dispatch(c, "write")
  /\ IF engine = "open" /\ ~walFailed
       THEN unwritten' = TRUE /\ Reply(c, TRUE)
       ELSE UNCHANGED unwritten /\ Reply(c, FALSE)
  /\ Goto(c, "batch")
  /\ UNCHANGED <<buf, quota, batched, victim, open, killed, closing,
                 serveVars, stopVars, bgsave, expiry, engine, walFailed>>

DispatchRead(c) ==
  /\ Dispatch(c, "read")
  /\ Reply(c, FALSE) /\ Goto(c, "batch")
  /\ UNCHANGED <<buf, quota, batched, victim, open, killed, closing,
                 serveVars, stopVars, bgsave, expiry, engine, unwritten, walFailed>>

cmdQuit(c) ==
  /\ Dispatch(c, "quit")
  /\ closing' = [closing EXCEPT ![c] = TRUE]
  /\ Reply(c, FALSE) /\ Goto(c, "flush")
  /\ UNCHANGED <<buf, quota, batched, victim, open, killed,
                 serveVars, stopVars, bgsave, expiry, engine, unwritten, walFailed>>

\* No reply: the connection dies with the server.
cmdShutdown(c) ==
  /\ Dispatch(c, "shutdown")
  /\ shutdownReq' = (main = "run")  \* later ones are never received
  /\ closing' = [closing EXCEPT ![c] = TRUE]
  /\ Goto(c, "flush")
  /\ UNCHANGED <<buf, quota, replies, batched, victim, open, killed, serveVars,
                 cancelled, main, toClose, graceOver, bgsave, expiry, logVars>>

\* A background save the wait group does not know of.
BackgroundSaveUncounted(c) ==
  /\ Dispatch(c, "bgsave")
  /\ bgsave' = TRUE
  /\ Reply(c, FALSE) /\ Goto(c, "batch")
  /\ UNCHANGED <<buf, quota, batched, victim, open, killed, closing,
                 serveVars, stopVars, expiry, engine, unwritten, walFailed>>

\* BackgroundSave: claim the flag, count the goroutine, start it.
BackgroundSave(c) ==
  /\ Dispatch(c, "bgsave")
  /\ bgsave' = TRUE /\ wg' = IF bgsave THEN wg ELSE wg + 1
  /\ Reply(c, FALSE) /\ Goto(c, "batch")
  /\ UNCHANGED <<buf, quota, batched, victim, open, killed, closing,
                 conns, maxclients, slots, accept, ln, stopVars, expiry,
                 engine, unwritten, walFailed>>

\* KillClient: find the target and flag it; the socket is closed in a second step.
KillClient(c, d) ==
  /\ Dispatch(c, "kill") /\ d \in conns
  /\ killed' = [killed EXCEPT ![d] = TRUE] /\ victim' = [victim EXCEPT ![c] = d]
  /\ Goto(c, "kill")
  /\ UNCHANGED <<buf, quota, replies, batched, open, closing,
                 serveVars, stopVars, bgsave, expiry, logVars>>

KillCloses(c) ==
  /\ pc[c] = "kill"
  /\ open' = [open EXCEPT ![victim[c]] = FALSE] /\ victim' = [victim EXCEPT ![c] = c]
  /\ Reply(c, FALSE)
  /\ Goto(c, IF killed[c] THEN "flush" ELSE "batch")
  /\ UNCHANGED <<buf, quota, batched, killed, closing,
                 serveVars, stopVars, bgsave, expiry, engine, unwritten, walFailed>>

\* A panic that is not recovered in handle skips the deferred clean-up of the slot.
PanicLeaks(c) ==
  /\ Dispatch(c, "panic")
  /\ Goto(c, "gone") /\ wg' = wg - 1 /\ conns' = conns \ {c}
  /\ UNCHANGED <<buf, quota, replies, batched, victim, open, killed, closing,
                 maxclients, slots, accept, ln, stopVars, bgsave, expiry, logVars>>

\* A panic in a handler is recovered in handle: no finish, the deferred clean-up runs.
Panic(c) ==
  /\ Dispatch(c, "panic")
  /\ Goto(c, "exit")
  /\ UNCHANGED <<buf, quota, replies, batched, victim, open, killed, closing,
                 serveVars, stopVars, bgsave, expiry, logVars>>

-----------------------------------------------------------------------------
(* finish: the log first, the replies second.                              *)

\* finish without the log.
FlushWALSkipped(c) ==
  /\ pc[c] = "flush" /\ Goto(c, "reply")
  /\ UNCHANGED <<buf, quota, replies, batched, victim, open, killed, closing,
                 serveVars, stopVars, bgsave, expiry, logVars>>

\* Flush returns at once when nothing is unwritten, even after a failure.
FlushWAL(c) ==
  /\ pc[c] = "flush"
  /\ \/ /\ engine = "open" /\ ~(walFailed /\ unwritten)
        /\ unwritten' = FALSE /\ Goto(c, "reply") /\ UNCHANGED walFailed
        /\ replies' = [d \in Conns |-> [n |-> replies[d].n, owes |-> FALSE]]
     \/ /\ engine = "open" /\ unwritten
        /\ walFailed' = TRUE /\ Goto(c, "exit") /\ UNCHANGED <<unwritten, replies>>
     \/ /\ engine = "closed"
        /\ Goto(c, "exit") /\ UNCHANGED <<unwritten, walFailed, replies>>
  /\ UNCHANGED <<buf, quota, batched, victim, open, killed, closing,
                 serveVars, stopVars, bgsave, expiry, engine, ackedEarly>>

\* A failed write is tried again.
FlushRepliesRetries(c) ==
  /\ pc[c] = "reply"
  /\ \/ /\ replies[c].n = 0 \/ open[c]
        /\ ackedEarly' = (ackedEarly \/ replies[c].owes)
        /\ replies' = [replies EXCEPT ![c] = NoReplies]
        /\ Goto(c, IF ShouldClose(c) THEN "exit" ELSE "loop")
     \/ replies[c].n > 0 /\ UNCHANGED <<pc, replies, ackedEarly>>
  /\ UNCHANGED <<buf, quota, batched, victim, open, killed, closing,
                 serveVars, stopVars, bgsave, expiry, engine, unwritten, walFailed>>

FlushReplies(c) ==
  /\ pc[c] = "reply"
  /\ \/ /\ replies[c].n = 0 \/ open[c]
        /\ ackedEarly' = (ackedEarly \/ replies[c].owes)
        /\ replies' = [replies EXCEPT ![c] = NoReplies]
        /\ Goto(c, IF ShouldClose(c) THEN "exit" ELSE "loop")
     \/ /\ replies[c].n > 0  \* the write fails or times out
        /\ Goto(c, "exit") /\ UNCHANGED <<replies, ackedEarly>>
  /\ UNCHANGED <<buf, quota, batched, victim, open, killed, closing,
                 serveVars, stopVars, bgsave, expiry, engine, unwritten, walFailed>>

-----------------------------------------------------------------------------
(* The deferred calls of a goroutine, run on every path out of it.  What   *)
(* it held is garbage, and reset.                                          *)

Exit(c) ==
  /\ pc[c] = "exit"
  /\ conns' = conns \ {c} /\ open' = [open EXCEPT ![c] = FALSE]
  /\ replies' = [replies EXCEPT ![c] = NoReplies]
  /\ buf' = [buf EXCEPT ![c] = 0] /\ quota' = [quota EXCEPT ![c] = 0]
  /\ batched' = [batched EXCEPT ![c] = 0]
  /\ killed' = [killed EXCEPT ![c] = FALSE] /\ closing' = [closing EXCEPT ![c] = FALSE]
  /\ slots' = slots - 1 /\ wg' = wg - 1
  /\ Goto(c, "gone")
  /\ UNCHANGED <<victim, maxclients, accept, ln, stopVars, bgsave, expiry, logVars>>

-----------------------------------------------------------------------------
(* Background work.                                                        *)

\* The snapshot finishes, or stops at the cancelled context.
BackgroundSaveEnds ==
  /\ bgsave /\ bgsave' = FALSE /\ wg' = wg - 1
  /\ UNCHANGED <<connVars, conns, maxclients, slots, accept, ln, stopVars, expiry, logVars>>

\* While it runs, the active-expire loop may be reading the store; it leaves at the
\* first look at the cancelled context.
activeExpireLoop ==
  /\ expiry /\ cancelled /\ expiry' = FALSE /\ wg' = wg - 1
  /\ UNCHANGED <<connVars, conns, maxclients, slots, accept, ln, stopVars, bgsave, logVars>>

-----------------------------------------------------------------------------
(* main: wait for a signal or SHUTDOWN, srv.Close, then closeEngine.       *)

MainTo(where) == main' = where /\ UNCHANGED <<connVars, bgsave, expiry>>

\* A SHUTDOWN request is received, or a signal is.
Stop ==
  /\ main = "run"
  /\ shutdownReq' = FALSE
  /\ MainTo("cancel")
  /\ UNCHANGED <<serveVars, cancelled, toClose, graceOver, logVars>>

CloseCancels ==
  /\ main = "cancel" /\ cancelled' = TRUE /\ MainTo("copy")
  /\ UNCHANGED <<serveVars, toClose, shutdownReq, graceOver, logVars>>

\* Under s.mu, copy the connections; then close the listener.
CloseCopies ==
  /\ main = "copy" /\ toClose' = conns /\ ln' = FALSE /\ MainTo("close")
  /\ UNCHANGED <<conns, maxclients, slots, wg, accept, cancelled, shutdownReq, graceOver, logVars>>

CloseConnection ==
  /\ main = "close"
  /\ \E c \in toClose :
       /\ open' = [open EXCEPT ![c] = FALSE] /\ toClose' = toClose \ {c}
  /\ UNCHANGED <<pc, buf, quota, replies, batched, victim, killed, closing,
                 serveVars, cancelled, main, shutdownReq, graceOver, bgsave, expiry, logVars>>

\* Close that does not wait for the goroutines.
CloseReturnsAtOnce ==
  /\ main = "close" /\ toClose = {} /\ MainTo("engine")
  /\ UNCHANGED <<serveVars, cancelled, toClose, shutdownReq, graceOver, logVars>>

\* wg.Wait returned, or ShutdownGrace passed.
CloseReturns ==
  /\ main = "close" /\ toClose = {}
  /\ \/ wg = 0 /\ UNCHANGED graceOver
     \/ wg > 0 /\ graceOver' = TRUE
  /\ MainTo("engine")
  /\ UNCHANGED <<serveVars, cancelled, toClose, shutdownReq, logVars>>

\* closeEngine: the log is flushed and closed, then the store.
EngineCloses ==
  /\ main = "engine" /\ engine' = "closed"
  /\ unwritten' = (unwritten /\ walFailed)
  /\ MainTo("exit")
  /\ UNCHANGED <<serveVars, cancelled, toClose, shutdownReq, graceOver, walFailed, ackedEarly>>

Stopped ==
  /\ main = "exit" /\ accept = "stopped" /\ \A c \in Conns : pc[c] \notin Alive
  /\ UNCHANGED vars

-----------------------------------------------------------------------------
Step(c) ==
  \/ Register(c) \/ LoopTop(c) \/ ReadCommand(c) \/ BatchEnds(c) \/ DispatchKilled(c)
  \/ DispatchWrite(c) \/ DispatchRead(c) \/ cmdQuit(c) \/ cmdShutdown(c)
  \/ BackgroundSave(c) \/ (\E d \in Conns : KillClient(c, d)) \/ KillCloses(c) \/ Panic(c)
  \/ FlushWAL(c) \/ FlushReplies(c) \/ Exit(c)

Background == BackgroundSaveEnds \/ activeExpireLoop

AcceptLoop == Spawn \/ refuse \/ AcceptStops

Close ==
  \/ CloseCancels \/ CloseCopies \/ CloseConnection \/ CloseReturns \/ EngineCloses

Next ==
  \/ \E c \in Conns : Accept(c) \/ Step(c) \/ Fill(c) \/ ReadFails(c) \/ ReadTimeout(c)
  \/ AcceptLoop \/ Background \/ Stop \/ Close \/ Stopped

(* The scheduler runs every goroutine that can take a step.  Nothing is    *)
(* assumed of clients, of timers or of signals: a read on an open socket   *)
(* may wait for ever, a read on a closed one fails.                        *)
Fairness ==
  /\ \A c \in Conns : WF_vars(Step(c)) /\ WF_vars(~open[c] /\ ReadFails(c))
  /\ WF_vars(AcceptLoop) /\ WF_vars(Background) /\ WF_vars(Close)
  /\ WF_vars(shutdownReq /\ Stop)

Spec == Init /\ [][Next]_vars /\ Fairness

-----------------------------------------------------------------------------
(* A goroutine blocks for bytes only with no reply in its buffer, so a     *)
(* client never waits for a reply the server is holding (serveConn's       *)
(* batching).                                                              *)
NoReplyHeldWhileBlocked ==
  \A c \in Conns : pc[c] = "read" /\ ~HasCompleteCommand(c) => replies[c].n = 0

(* A client that has the reply to a write can lose it only with the        *)
(* machine: the record was handed to the kernel before the reply (finish). *)
AckedIsWritten == ~ackedEarly

(* Once Close has closed the connections it copied, no goroutine sits in a *)
(* read that nothing will end, the ones registered while Close ran         *)
(* included (Serve, handle and Close).                                     *)
NoReaderLeftBehind ==
  main \in {"close", "engine", "exit"} /\ toClose = {} =>
    \A c \in Conns : pc[c] = "read" => ~open[c]

(* Unless the grace period ran out, the engine is closed only after the    *)
(* last command, background save and expire cycle that could use it.       *)
EngineClosedLast ==
  engine = "closed" /\ ~graceOver =>
    /\ ~bgsave /\ ~expiry
    /\ \A c \in Conns : pc[c] \notin Handling \ {"loop"}

(* The slots taken are the goroutines running, whichever way the others    *)
(* ended: refused, hung up, killed, failed or panicked.                    *)
SlotsAccounted ==
  slots = Cardinality({c \in Conns : pc[c] \in Alive})

(* A SHUTDOWN, or a signal, ends the process and every connection's        *)
(* goroutine, the ones whose client is idle or sent half a command         *)
(* included (Shutdown, main, Close).                                       *)
ShutdownStops ==
  shutdownReq \/ cancelled ~> main = "exit" /\ \A c \in Conns : pc[c] \notin Alive
=============================================================================
