---------------------------- MODULE ServerProofs ----------------------------
(***************************************************************************)
(* What the server guarantees for any set of connections, any maxclients   *)
(* and batch bound, any commands and any interleaving with the stop        *)
(* sequence.                                                               *)
(***************************************************************************)
EXTENDS Server, FiniteSetTheorems, TLAPS

PCs == Alive \cup {"new", "held", "refused", "gone"}
Running == {c \in Conns : pc[c] \in Alive}
Count(b) == IF b THEN 1 ELSE 0
Replies == [n : Nat, owes : BOOLEAN]

(* The types the argument rests on. *)
TypeInv ==
  /\ pc \in [Conns -> PCs]
  /\ replies \in [Conns -> Replies]
  /\ batched \in [Conns -> Nat]
  /\ open \in [Conns -> BOOLEAN]
  /\ conns \subseteq Conns /\ toClose \subseteq Conns
  /\ maxclients \in Nat /\ slots \in Int /\ wg \in Int
  /\ accept \in Conns \cup {"accept", "stopped"}
  /\ main \in {"run", "cancel", "copy", "close", "engine", "exit"}
  /\ engine \in {"open", "closed"}

(* The semaphore and the wait group count the goroutines there are, and    *)
(* the connection the accept loop holds has none yet.                      *)
CountInv ==
  /\ slots = Cardinality(Running) /\ slots <= maxclients
  /\ wg = slots + Count(bgsave) + Count(expiry)
  /\ accept \in Conns => pc[accept] = "held"

(* From the copy on, a goroutine that may block in a read is one whose     *)
(* connection Close still has to close, and nothing enters a read again.   *)
StopInv ==
  /\ cancelled <=> main \in {"copy", "close", "engine", "exit"}
  /\ \A c \in Conns : pc[c] \in Handling => c \in conns
  /\ main \in {"close", "engine", "exit"} =>
       \A c \in Conns : pc[c] = "read" /\ open[c] => c \in toClose
  /\ main \in {"engine", "exit"} => toClose = {}
  /\ engine = "closed" => main = "exit"
  /\ main \in {"engine", "exit"} /\ ~graceOver =>
       /\ ~bgsave /\ ~expiry
       /\ \A c \in Conns : pc[c] \notin Handling \ {"loop"}

(* A goroutine reaches its loop with an empty reply buffer, and its        *)
(* replies with nothing owed; a batch holds no more replies than commands. *)
Ordered(place, r, b) ==
  /\ place \in {"new", "held", "start", "loop", "read"} => r.n = 0 /\ ~r.owes
  /\ place = "reply" => ~r.owes
  /\ place = "read" => b = 0
  /\ b <= MaxBatch
  /\ place = "batch" => r.n <= b
  /\ place \in {"dispatch", "kill"} => r.n < b

ReplyInv == \A c \in Conns : Ordered(pc[c], replies[c], batched[c])
NoSpill == ReplyCap >= MaxBatch => ~ackedEarly

IInv == TypeInv /\ CountInv /\ StopInv /\ ReplyInv /\ NoSpill

(* An empty reply buffer holds nothing and owes nothing. *)
LEMMA NoRepliesFacts ==
    NoReplies \in Replies /\ NoReplies.n = 0 /\ ~NoReplies.owes
BY DEF NoReplies, Replies

(* A reply goes to one buffer, and into it while there is room. *)
LEMMA ReplyFacts ==
    ASSUME replies \in [Conns -> Replies], NEW c \in Conns, NEW owes \in BOOLEAN,
           Reply(c, owes)
    PROVE  /\ replies' \in [Conns -> Replies]
           /\ \A d \in Conns \ {c} : replies'[d] = replies[d]
           /\ replies'[c].n <= replies[c].n + 1
           /\ replies[c].n < ReplyCap => ackedEarly' = ackedEarly
<1> DEFINE e == IF replies[c].n < ReplyCap
                  THEN [n |-> replies[c].n + 1, owes |-> replies[c].owes \/ owes]
                  ELSE [n |-> 1, owes |-> owes]
<1>1. replies[c].n \in Nat /\ replies[c].owes \in BOOLEAN
  BY DEF Replies
<1>2. (replies[c].owes \/ owes) \in BOOLEAN
  BY <1>1
<1>3. e \in Replies
  BY <1>1, <1>2 DEF Replies
<1>4. e.n <= replies[c].n + 1 /\ (replies[c].n < ReplyCap => ackedEarly' = ackedEarly)
  BY <1>1 DEF Reply
<1>5. replies' = [replies EXCEPT ![c] = e]
  BY DEF Reply
<1> HIDE DEF e
<1>6. QED
  BY <1>3, <1>4, <1>5

(* The log hand-off leaves every buffer as full as it was and owing nothing. *)
LEMMA FlushFacts ==
    ASSUME replies \in [Conns -> Replies],
           replies' = [d \in Conns |-> [n |-> replies[d].n, owes |-> FALSE]]
    PROVE  /\ replies' \in [Conns -> Replies]
           /\ \A d \in Conns : replies'[d].n = replies[d].n /\ ~replies'[d].owes
<1>1. \A d \in Conns : [n |-> replies[d].n, owes |-> FALSE] \in Replies
  BY DEF Replies
<1>2. QED
  BY <1>1

(* A step of the server preserves the types. *)
LEMMA TypeStep ==
    ASSUME TypeInv, [Next]_vars
    PROVE  TypeInv'
<1> USE DEF TypeInv, PCs, Alive, Handling, Goto
<1>1. ASSUME NEW c \in Conns, Accept(c)
      PROVE  TypeInv'
  BY <1>1 DEF Accept, stopVars, logVars
<1>2. ASSUME NEW c \in Conns, Step(c)
      PROVE  TypeInv'
  <2>1. CASE Register(c) \/ LoopTop(c) \/ BatchEnds(c) \/ DispatchKilled(c) \/ Panic(c)
    BY <2>1 DEF Register, LoopTop, BatchEnds, DispatchKilled, Dispatch, Panic,
                serveVars, stopVars, logVars
  <2>2. CASE ReadCommand(c)
    <3>1. replies' \in [Conns -> Replies]
      BY <2>2, ReplyFacts, Zenon DEF ReadCommand, NoReply
    <3>2. pc' \in [Conns -> PCs]
      BY <2>2, Zenon DEF ReadCommand
    <3>3. \E n \in {batched[c], batched[c] + 1, 1} : batched' = [batched EXCEPT ![c] = n]
      BY <2>2, Zenon DEF ReadCommand
    <3>4. batched' \in [Conns -> Nat]
      BY <3>3
    <3>5. QED
      BY <2>2, <3>1, <3>2, <3>4 DEF ReadCommand, serveVars, stopVars
  <2>3. CASE DispatchWrite(c) \/ DispatchRead(c) \/ cmdQuit(c)
    <3>1. replies' \in [Conns -> Replies]
      BY <2>3, ReplyFacts, Zenon DEF DispatchWrite, DispatchRead, cmdQuit
    <3>2. QED
      BY <2>3, <3>1, Zenon DEF DispatchWrite, DispatchRead, cmdQuit, serveVars, stopVars
  <2>4. CASE BackgroundSave(c) \/ KillCloses(c)
    <3>1. replies' \in [Conns -> Replies]
      BY <2>4, ReplyFacts, Zenon DEF BackgroundSave, KillCloses
    <3>2. wg' \in {wg, wg + 1}
      BY <2>4, Zenon DEF BackgroundSave, KillCloses, serveVars
    <3>3. open' \in [Conns -> BOOLEAN]
      BY <2>4, Zenon DEF BackgroundSave, KillCloses
    <3>4. wg' \in Int
      BY <3>2
    <3>5. QED
      BY <2>4, <3>1, <3>3, <3>4, Zenon DEF BackgroundSave, KillCloses, serveVars, stopVars
  <2>5. CASE cmdShutdown(c) \/ \E d \in Conns : KillClient(c, d)
    BY <2>5 DEF cmdShutdown, KillClient, serveVars, stopVars, logVars
  <2>6. CASE FlushWAL(c)
    <3>1. replies' \in [Conns -> Replies]
      BY <2>6, FlushFacts DEF FlushWAL
    <3>2. QED
      BY <2>6, <3>1 DEF FlushWAL, serveVars, stopVars
  <2>7. CASE FlushReplies(c)
    BY <2>7, NoRepliesFacts DEF FlushReplies, serveVars, stopVars
  <2>8. CASE Exit(c)
    BY <2>8, NoRepliesFacts DEF Exit, stopVars, logVars
  <2>9. QED
    BY <1>2, <2>1, <2>2, <2>3, <2>4, <2>5, <2>6, <2>7, <2>8, SMTT(60) DEF Step
<1>3. ASSUME NEW c \in Conns, Fill(c) \/ ReadFails(c) \/ ReadTimeout(c)
      PROVE  TypeInv'
  BY <1>3 DEF Fill, ReadFails, ReadTimeout, serveVars, stopVars, logVars
<1>4. CASE AcceptLoop
  <2>1. CASE Spawn
    BY <2>1 DEF Spawn, stopVars, logVars
  <2>2. CASE refuse
    BY <2>2 DEF refuse, stopVars, logVars
  <2>3. CASE AcceptStops
    BY <2>3 DEF AcceptStops, connVars, stopVars, logVars
  <2>4. QED
    BY <1>4, <2>1, <2>2, <2>3 DEF AcceptLoop
<1>5. CASE Background
  BY <1>5, SMTT(60) DEF Background, BackgroundSaveEnds, activeExpireLoop, connVars, stopVars, logVars
<1>6. CASE Stop \/ Close
  BY <1>6, Zenon DEF Stop, Close, CloseCancels, CloseCopies, CloseConnection, CloseReturns,
              EngineCloses, MainTo, connVars, serveVars, logVars
<1>7. CASE Stopped \/ UNCHANGED vars
  BY <1>7 DEF Stopped, vars, connVars, serveVars, stopVars, logVars
<1>8. QED
  BY <1>1, <1>2, <1>3, <1>4, <1>5, <1>6, <1>7 DEF Next

(* A goroutine that goes from one place to another and lives on. *)
Walks ==
  \E c \in Conns, w \in Alive : pc[c] \in Alive /\ pc' = [pc EXCEPT ![c] = w]

(* Steps after which the same goroutines run keep the counts. *)
LEMMA WalkCount ==
    ASSUME TypeInv, CountInv, Walks \/ UNCHANGED pc,
           UNCHANGED <<slots, maxclients, accept>>,
           wg' - Count(bgsave') - Count(expiry') = wg - Count(bgsave) - Count(expiry),
           wg' \in Int
    PROVE  CountInv'
<1>1. Running' = Running
  BY DEF Running, Walks, TypeInv
<1>2. accept \in Conns => pc'[accept] = "held"
  BY DEF Walks, TypeInv, CountInv, Alive, Handling
<1>3. Count(bgsave) \in Int /\ Count(expiry) \in Int
      /\ Count(bgsave') \in Int /\ Count(expiry') \in Int
  BY DEF Count
<1>4. wg' = slots' + Count(bgsave') + Count(expiry')
  BY <1>3 DEF CountInv, TypeInv
<1>5. QED
  BY <1>1, <1>2, <1>4 DEF CountInv

(* A step of the server keeps the slots and the wait group right. *)
LEMMA CountStep ==
    ASSUME TypeInv, TypeInv', CountInv, [Next]_vars
    PROVE  CountInv'
<1> DEFINE Rest == /\ UNCHANGED <<slots, maxclients, accept>>
                   /\ wg' - Count(bgsave') - Count(expiry')
                        = wg - Count(bgsave) - Count(expiry)
<1>a. wg \in Int /\ wg' \in Int /\ IsFiniteSet(Conns)
  BY ServerAssumption DEF TypeInv
<1>b. IsFiniteSet(Running)
  BY <1>a, FS_Subset DEF Running
<1>1. ASSUME NEW c \in Conns, Accept(c)
      PROVE  CountInv'
  <2>1. Running' = Running
    BY <1>1 DEF Accept, Goto, Running, Alive, Handling, TypeInv
  <2>2. QED
    BY <1>1, <2>1 DEF Accept, Goto, CountInv, TypeInv
<1>2. ASSUME NEW c \in Conns, Step(c)
      PROVE  CountInv'
  <2>1. CASE Register(c) \/ LoopTop(c) \/ BatchEnds(c) \/ DispatchKilled(c) \/ Panic(c)
    <3>1. Walks /\ Rest
      BY <2>1, Zenon DEF Register, LoopTop, BatchEnds, DispatchKilled, Dispatch, Panic,
                  Walks, Goto, Alive, Handling, serveVars
    <3>2. QED
      BY <1>a, <3>1, WalkCount, Zenon
  <2>2. CASE ReadCommand(c)
    <3>1. Walks /\ Rest
      BY <2>2, Zenon DEF ReadCommand, Walks, Goto, Alive, Handling, serveVars
    <3>2. QED
      BY <1>a, <3>1, WalkCount
  <2>3. CASE DispatchWrite(c) \/ DispatchRead(c) \/ cmdQuit(c) \/ cmdShutdown(c)
    <3>1. Walks /\ Rest
      BY <2>3, Zenon DEF DispatchWrite, DispatchRead, cmdQuit, cmdShutdown, Dispatch,
                  Walks, Goto, Alive, Handling, serveVars
    <3>2. QED
      BY <1>a, <3>1, WalkCount
  <2>4. CASE BackgroundSave(c)
    <3>1. Walks /\ UNCHANGED <<slots, maxclients, accept, expiry>>
      BY <2>4, Zenon DEF BackgroundSave, Dispatch, Walks, Goto, Alive, Handling
    <3>2. wg' - Count(bgsave') = wg - Count(bgsave)
      BY <1>a, <2>4, SMTT(60) DEF BackgroundSave, Count
    <3>3. QED
      BY <1>a, <3>1, <3>2, WalkCount, Zenon
  <2>5. CASE \E d \in Conns : KillClient(c, d)
    <3>1. Walks /\ Rest
      BY <2>5, Zenon DEF KillClient, Dispatch, Walks, Goto, Alive, Handling, serveVars
    <3>2. QED
      BY <1>a, <3>1, WalkCount
  <2>6. CASE KillCloses(c) \/ FlushWAL(c) \/ FlushReplies(c)
    <3>1. Walks /\ Rest
      BY <2>6, Zenon DEF KillCloses, FlushWAL, FlushReplies, Walks, Goto, Alive, Handling,
                  serveVars
    <3>2. QED
      BY <1>a, <3>1, WalkCount
  <2>7. CASE Exit(c)
    <3>1. c \in Running /\ Running' = Running \ {c}
      BY <2>7 DEF Exit, Goto, Running, Alive, Handling, TypeInv
    <3>2. Cardinality(Running') = Cardinality(Running) - 1
      BY <1>b, <3>1, FS_RemoveElement, Zenon
    <3>3. accept \in Conns => pc'[accept] = "held"
      BY <2>7 DEF Exit, Goto, CountInv, TypeInv
    <3>4. Count(bgsave) \in Int /\ Count(expiry) \in Int
      BY DEF Count
    <3>5. slots' = slots - 1 /\ wg' = wg - 1
          /\ UNCHANGED <<maxclients, accept, bgsave, expiry>>
      BY <2>7 DEF Exit
    <3>6. QED
      BY <3>2, <3>3, <3>4, <3>5 DEF CountInv, TypeInv
  <2>8. QED
    BY <1>2, <2>1, <2>2, <2>3, <2>4, <2>5, <2>6, <2>7 DEF Step
<1>3. ASSUME NEW c \in Conns, Fill(c) \/ ReadFails(c) \/ ReadTimeout(c)
      PROVE  CountInv'
  <2>1. (Walks \/ UNCHANGED pc) /\ Rest
    BY <1>3 DEF Fill, ReadFails, ReadTimeout, Walks, Goto, Alive, Handling, serveVars
  <2>2. QED
    BY <1>a, <2>1, WalkCount, SMTT(60)
<1>4. CASE Spawn
  <2>1. accept \in Conns \ Running /\ Running' = Running \cup {accept}
    BY <1>4 DEF Spawn, Goto, Running, Alive, Handling, CountInv, TypeInv
  <2>2. Cardinality(Running') = Cardinality(Running) + 1
    BY <1>b, <2>1, FS_AddElement, Zenon
  <2>3. Count(bgsave) \in Int /\ Count(expiry) \in Int
    BY DEF Count
  <2>4. slots' = slots + 1 /\ wg' = wg + 1 /\ slots < maxclients /\ accept' = "accept"
        /\ UNCHANGED <<maxclients, bgsave, expiry>>
    BY <1>4 DEF Spawn
  <2>5. QED
    BY <2>2, <2>3, <2>4, ServerAssumption DEF CountInv, TypeInv
<1>5. CASE refuse
  <2>1. Running' = Running
    BY <1>5 DEF refuse, Goto, Running, Alive, Handling, CountInv, TypeInv
  <2>2. QED
    BY <1>5, <2>1, ServerAssumption, Zenon DEF refuse, CountInv, TypeInv
<1>6. CASE AcceptStops
  <2>1. Running' = Running
    BY <1>6 DEF AcceptStops, connVars, Running
  <2>2. QED
    BY <1>6, <2>1, ServerAssumption DEF AcceptStops, CountInv
<1>7. CASE Background
  <2>1. UNCHANGED <<pc, slots, maxclients, accept>>
    BY <1>7 DEF Background, BackgroundSaveEnds, activeExpireLoop, connVars
  <2>2. wg' - Count(bgsave') - Count(expiry') = wg - Count(bgsave) - Count(expiry)
    <3>1. CASE BackgroundSaveEnds
      BY <1>a, <3>1 DEF BackgroundSaveEnds, Count
    <3>2. CASE activeExpireLoop
      BY <1>a, <3>2 DEF activeExpireLoop, Count
    <3>3. QED
      BY <1>7, <3>1, <3>2 DEF Background
  <2>3. QED
    BY <1>a, <2>1, <2>2, WalkCount
<1>8. CASE Stop \/ Close \/ Stopped \/ UNCHANGED vars
  <2>1. UNCHANGED pc /\ Rest
    BY <1>8 DEF Stop, Close, CloseCancels, CloseCopies, CloseConnection, CloseReturns,
                EngineCloses, MainTo, Stopped, vars, connVars, serveVars
  <2>2. QED
    BY <1>a, <2>1, WalkCount, Zenon
<1>9. QED
  BY <1>1, <1>2, <1>3, <1>4, <1>5, <1>6, <1>7, <1>8 DEF Next, AcceptLoop

(* A wait group at zero means that no goroutine of the server runs. *)
LEMMA NothingCounted ==
    ASSUME TypeInv, CountInv, wg = 0
    PROVE  ~bgsave /\ ~expiry /\ \A c \in Conns : pc[c] \notin Alive
<1>1. IsFiniteSet(Running)
  BY ServerAssumption, FS_Subset DEF Running
<1>2. Cardinality(Running) \in Nat
  BY <1>1, FS_CardinalityType
<1>3. Count(bgsave) \in Nat /\ Count(expiry) \in Nat
  BY DEF Count
<1>4. Cardinality(Running) = 0 /\ Count(bgsave) = 0 /\ Count(expiry) = 0
  BY <1>2, <1>3 DEF CountInv
<1>5. Running = {}
  BY <1>1, <1>4, FS_EmptySet, Zenon
<1>6. QED
  BY <1>4, <1>5 DEF Count, Running

(* What a command does to its own goroutine does not touch the stop        *)
(* sequence: after the wait there is none.                                 *)
LEMMA StopWalk ==
    ASSUME TypeInv, StopInv, NEW c \in Conns, NEW w,
           pc[c] \in Handling \ {"loop"}, w # "read", pc' = [pc EXCEPT ![c] = w],
           UNCHANGED <<cancelled, main, toClose, graceOver, conns, engine>>,
           \A d \in Conns : open'[d] => open[d],
           \/ UNCHANGED <<bgsave, expiry>>
           \/ pc[c] = "dispatch" /\ UNCHANGED expiry
    PROVE  StopInv'
<1>1. pc \in [Conns -> PCs] /\ main \in {"engine", "exit"} => graceOver
  BY DEF TypeInv, StopInv
<1>2. \A d \in Conns : pc'[d] = "read" => pc[d] = "read"
  BY DEF TypeInv
<1>3. \A d \in Conns : pc'[d] \in Handling => d \in conns
  BY DEF TypeInv, StopInv
<1>4. QED
  BY <1>1, <1>2, <1>3, Zenon DEF StopInv

(* A step of the server keeps the stop sequence right. *)
LEMMA StopStep ==
    ASSUME TypeInv, CountInv, StopInv, [Next]_vars
    PROVE  StopInv'
<1>a. /\ pc \in [Conns -> PCs] /\ open \in [Conns -> BOOLEAN]
      /\ conns \subseteq Conns /\ toClose \subseteq Conns
  BY Zenon DEF TypeInv
<1> DEFINE Rest == UNCHANGED <<cancelled, main, toClose, graceOver, conns, engine>>
<1>1. ASSUME NEW c \in Conns, Accept(c)
      PROVE  StopInv'
  BY <1>a, <1>1 DEF StopInv, Handling, Accept, Goto, stopVars, logVars
<1>2. ASSUME NEW c \in Conns, Step(c)
      PROVE  StopInv'
  <2> DEFINE Walk == /\ pc[c] \in Handling \ {"loop"}
                     /\ \E w \in (Handling \ {"read"}) \cup {"exit"} :
                          pc' = [pc EXCEPT ![c] = w]
  <2>1. CASE Register(c)
    BY <1>a, <2>1, Zenon DEF StopInv, Handling, Register, Goto, stopVars, logVars
  <2>2. CASE LoopTop(c)
    BY <1>a, <2>2, Zenon DEF StopInv, Handling, LoopTop, Goto, serveVars, stopVars, logVars
  <2>3. CASE Exit(c)
    BY <1>a, <2>3, Zenon DEF StopInv, Handling, Exit, Goto, stopVars, logVars
  <2>4. CASE ReadCommand(c)
    <3>1. Walk /\ Rest /\ UNCHANGED <<open, bgsave, expiry>>
      BY <2>4, Zenon DEF Handling, ReadCommand, Goto, serveVars, stopVars
    <3>2. QED
      BY <3>1, StopWalk, Zenon
  <2>5. CASE BatchEnds(c) \/ DispatchKilled(c) \/ Panic(c) \/ cmdShutdown(c)
    <3>1. Walk /\ Rest /\ UNCHANGED <<open, bgsave, expiry>>
      BY <2>5, Zenon DEF Handling, BatchEnds, DispatchKilled, Panic, cmdShutdown, Dispatch, Goto,
                  serveVars, stopVars, logVars
    <3>2. QED
      BY <3>1, StopWalk, Zenon
  <2>6. CASE DispatchWrite(c) \/ DispatchRead(c) \/ cmdQuit(c)
    <3>1. Walk /\ Rest /\ UNCHANGED <<open, bgsave, expiry>>
      BY <2>6, Zenon DEF Handling, DispatchWrite, DispatchRead, cmdQuit, Dispatch, Goto,
                  serveVars, stopVars
    <3>2. QED
      BY <3>1, StopWalk, Zenon
  <2>7. CASE BackgroundSave(c)
    <3>1. Walk /\ Rest /\ pc[c] = "dispatch" /\ UNCHANGED <<open, expiry>>
      BY <2>7, Zenon DEF Handling, BackgroundSave, Dispatch, Goto, stopVars
    <3>2. QED
      BY <3>1, StopWalk, Zenon
  <2>8. CASE \E d \in Conns : KillClient(c, d)
    <3>1. Walk /\ Rest /\ UNCHANGED <<open, bgsave, expiry>>
      BY <2>8, Zenon DEF Handling, KillClient, Dispatch, Goto, serveVars, stopVars, logVars
    <3>2. QED
      BY <3>1, StopWalk, Zenon
  <2>9. CASE KillCloses(c)
    <3>1. Walk /\ Rest /\ UNCHANGED <<bgsave, expiry>>
      BY <2>9, Zenon DEF Handling, KillCloses, Goto, serveVars, stopVars
    <3>2. \A d \in Conns : open'[d] => open[d]
      BY <1>a, <2>9 DEF KillCloses
    <3>3. QED
      BY <3>1, <3>2, StopWalk, Zenon
  <2>10. CASE FlushWAL(c) \/ FlushReplies(c)
    <3>1. Walk /\ Rest /\ UNCHANGED <<open, bgsave, expiry>>
      BY <2>10, Zenon DEF Handling, FlushWAL, FlushReplies, Goto, serveVars, stopVars
    <3>2. QED
      BY <3>1, StopWalk, Zenon
  <2>11. QED
    BY <1>2, <2>1, <2>2, <2>3, <2>4, <2>5, <2>6, <2>7, <2>8, <2>9, <2>10, Zenon DEF Step
<1>3. ASSUME NEW c \in Conns, ReadFails(c) \/ ReadTimeout(c)
      PROVE  StopInv'
  <2>1. /\ pc[c] \in Handling \ {"loop"}
        /\ \E w \in {"loop", "exit"} : pc' = [pc EXCEPT ![c] = w]
        /\ Rest /\ UNCHANGED <<open, bgsave, expiry>>
    BY <1>3, Zenon DEF Handling, ReadFails, ReadTimeout, Goto, serveVars, stopVars, logVars
  <2>2. QED
    BY <2>1, StopWalk, Zenon
<1>4. CASE AcceptLoop
  <2>1. CASE Spawn
    BY <1>a, <2>1, Zenon DEF StopInv, Handling, Spawn, Goto, CountInv, stopVars, logVars
  <2>2. CASE refuse
    BY <1>a, <2>2, Zenon DEF StopInv, Handling, refuse, Goto, CountInv, stopVars, logVars
  <2>3. CASE AcceptStops
    BY <2>3, SMTT(60) DEF StopInv, AcceptStops, connVars, stopVars, logVars
  <2>4. QED
    BY <1>4, <2>1, <2>2, <2>3, Zenon DEF AcceptLoop
<1>5. CASE Background
  <2>1. Rest /\ UNCHANGED <<pc, open>> /\ (bgsave' => bgsave) /\ (expiry' => expiry)
    BY <1>5 DEF Background, BackgroundSaveEnds, activeExpireLoop, connVars, stopVars, logVars
  <2>2. QED
    BY <2>1 DEF StopInv
<1>6. CASE Stop \/ CloseCancels
  <2>1. main \in {"run", "cancel"} /\ main' \in {"cancel", "copy"}
        /\ UNCHANGED <<pc, open, conns, engine>> /\ (cancelled' <=> main' = "copy")
    BY <1>6 DEF StopInv, Stop, CloseCancels, MainTo, connVars, serveVars, logVars
  <2>2. QED
    BY <2>1 DEF StopInv
<1>7. CASE CloseCopies
  BY <1>a, <1>7 DEF StopInv, Handling, CloseCopies, MainTo, connVars, logVars
<1>8. CASE CloseConnection
  BY <1>a, <1>8, Zenon DEF StopInv, CloseConnection, serveVars, logVars
<1>9. CASE CloseReturns
  <2>1. wg = 0 => ~bgsave /\ ~expiry /\ \A c \in Conns : pc[c] \notin Alive
    BY NothingCounted
  <2>2. QED
    BY <1>9, <2>1 DEF StopInv, Alive, CloseReturns, MainTo, connVars, serveVars, logVars
<1>10. CASE EngineCloses
  BY <1>10, Zenon DEF StopInv, EngineCloses, MainTo, connVars, serveVars
<1>11. ASSUME \/ \E c \in Conns : Fill(c)
              \/ Stopped \/ UNCHANGED vars
       PROVE  StopInv'
  <2>1. Rest /\ UNCHANGED <<pc, open, bgsave, expiry>>
    BY <1>11 DEF Fill, Stopped, vars, connVars, serveVars, stopVars, logVars
  <2>2. QED
    BY <2>1, Zenon DEF StopInv
<1>12. QED
  BY <1>1, <1>2, <1>3, <1>4, <1>5, <1>6, <1>7, <1>8, <1>9, <1>10, <1>11, Zenon DEF Next, Close

(* One goroutine moves, to a place its buffer is in order for. *)
LEMMA OneOrdered ==
    ASSUME TypeInv, ReplyInv, NEW c \in Conns, NEW w, pc' = [pc EXCEPT ![c] = w],
           \A d \in Conns \ {c} : replies'[d] = replies[d] /\ batched'[d] = batched[d],
           Ordered(w, replies'[c], batched'[c])
    PROVE  ReplyInv'
BY Zenon DEF ReplyInv, TypeInv

(* Only that goroutine's place changes. *)
LEMMA OnlyMoves ==
    ASSUME TypeInv, ReplyInv, NoSpill, NEW c \in Conns, NEW w, pc' = [pc EXCEPT ![c] = w],
           UNCHANGED <<replies, batched, ackedEarly>>,
           Ordered(w, replies[c], batched[c])
    PROVE  ReplyInv' /\ NoSpill'
BY OneOrdered, Zenon DEF NoSpill

(* A step of the server keeps the reply buffers in order, and while a full *)
(* batch fits the writer's buffer, it acknowledges nothing early.          *)
LEMMA ReplyStep ==
    ASSUME TypeInv, CountInv, ReplyInv, NoSpill, [Next]_vars
    PROVE  ReplyInv' /\ NoSpill'
<1> DEFINE Goal == ReplyInv' /\ NoSpill'
<1> DEFINE Same == UNCHANGED <<replies, batched, ackedEarly>>
<1>a. /\ replies \in [Conns -> Replies] /\ batched \in [Conns -> Nat]
      /\ MaxBatch \in Nat \ {0} /\ ReplyCap \in Nat
  BY ServerAssumption DEF TypeInv
<1>b. \A c \in Conns : /\ Ordered(pc[c], replies[c], batched[c])
                       /\ replies[c].n \in Nat /\ batched[c] \in Nat
  BY <1>a DEF ReplyInv, Replies
<1>1. ASSUME NEW c \in Conns, Accept(c)
      PROVE  Goal
  <2>1. Ordered("held", replies[c], batched[c])
    BY <1>b, <1>1, Zenon DEF Accept, Ordered
  <2>2. Same /\ pc' = [pc EXCEPT ![c] = "held"]
    BY <1>1 DEF Accept, Goto, logVars
  <2>3. QED
    BY <2>1, <2>2, OnlyMoves, Zenon
<1>2. ASSUME NEW c \in Conns, Step(c)
      PROVE  Goal
  <2>a. \A w \in {"flush", "exit"} : Ordered(w, replies[c], batched[c])
    BY <1>b, Zenon DEF Ordered
  <2>b. replies[c].n \in Nat /\ batched[c] \in Nat /\ batched[c] <= MaxBatch
    BY <1>b, Zenon DEF Ordered
  <2>1. CASE Register(c)
    <3>1. Ordered("loop", replies[c], batched[c])
      BY <1>b, <2>1 DEF Register, Ordered
    <3>2. Same /\ pc' = [pc EXCEPT ![c] = "loop"]
      BY <2>1, Zenon DEF Register, Goto, logVars
    <3>3. QED
      BY <3>1, <3>2, OnlyMoves, Zenon
  <2>2. CASE LoopTop(c)
    <3>1. \A w \in {"exit", "read"} : Ordered(w, replies[c], 0)
      <4>1. replies[c].n = 0 /\ ~replies[c].owes
        BY <1>b, <2>2 DEF LoopTop, Ordered
      <4>2. QED
        BY <1>a, <4>1 DEF Ordered
    <3>2. /\ \E w \in {"exit", "read"} : pc' = [pc EXCEPT ![c] = w]
          /\ batched' = [batched EXCEPT ![c] = 0] /\ UNCHANGED <<replies, ackedEarly>>
      BY <2>2, Zenon DEF LoopTop, Goto, logVars
    <3>3. QED
      BY <1>a, <3>1, <3>2, OneOrdered, Zenon DEF NoSpill
  <2>3. CASE ReadCommand(c)
    <3>1. /\ replies[c].n <= batched[c] /\ batched[c] < MaxBatch
          /\ pc[c] = "read" => batched[c] = 0
      <4>1. CASE pc[c] = "read"
        BY <1>a, <1>b, <4>1 DEF Ordered
      <4>2. CASE pc[c] = "batch" /\ batched[c] < MaxBatch
        BY <1>b, <4>2, Zenon DEF Ordered
      <4>3. QED
        BY <2>3, <4>1, <4>2, Zenon DEF ReadCommand
    <3>2. CASE /\ NoReply /\ pc' = [pc EXCEPT ![c] = "batch"]
               /\ batched' = [batched EXCEPT ![c] = IF pc[c] = "read" THEN 1 ELSE @]
      <4>1. PICK n \in {batched[c], 1} :
              batched' = [batched EXCEPT ![c] = n] /\ replies[c].n <= n
        <5>1. CASE pc[c] = "read"
          BY <1>b, <3>1, <3>2, <5>1
        <5>2. CASE pc[c] # "read"
          BY <3>1, <3>2, <5>2
        <5>3. QED
          BY <5>1, <5>2
      <4>2. Ordered("batch", replies[c], n)
        BY <1>a, <2>b, <3>1, <4>1 DEF Ordered
      <4>3. QED
        BY <1>a, <3>2, <4>1, <4>2, OneOrdered, Zenon DEF NoReply, NoSpill
    <3>3. CASE /\ NoReply /\ pc' = [pc EXCEPT ![c] = "dispatch"]
               /\ batched' = [batched EXCEPT ![c] = @ + 1]
      <4>1. Ordered("dispatch", replies[c], batched[c] + 1)
        BY <1>a, <2>b, <3>1 DEF Ordered
      <4>2. QED
        BY <1>a, <3>3, <4>1, OneOrdered, Zenon DEF NoReply, NoSpill
    <3>4. CASE /\ Reply(c, FALSE) /\ pc' = [pc EXCEPT ![c] = "flush"]
               /\ UNCHANGED batched
      <4>1. /\ \A d \in Conns \ {c} : replies'[d] = replies[d]
            /\ replies[c].n < ReplyCap => ackedEarly' = ackedEarly
        BY <1>a, <3>4, ReplyFacts, Zenon
      <4>2. ReplyCap >= MaxBatch => replies[c].n < ReplyCap
        BY <1>a, <1>b, <3>1
      <4>3. Ordered("flush", replies'[c], batched[c])
        BY <1>b DEF Ordered
      <4>4. ReplyInv'
        BY <3>4, <4>1, <4>3, OneOrdered, Zenon
      <4>5. QED
        BY <4>1, <4>2, <4>4 DEF NoSpill
    <3>5. QED
      BY <2>3, <3>2, <3>3, <3>4, Zenon DEF ReadCommand, Goto
  <2>4. CASE BatchEnds(c)
    <3>1. Ordered("flush", replies[c], 0)
      BY <1>a DEF Ordered
    <3>2. /\ pc' = [pc EXCEPT ![c] = "flush"] /\ batched' = [batched EXCEPT ![c] = 0]
          /\ UNCHANGED <<replies, ackedEarly>>
      BY <2>4, Zenon DEF BatchEnds, Goto, logVars
    <3>3. QED
      BY <1>a, <3>1, <3>2, OneOrdered, Zenon DEF NoSpill
  <2>5. CASE DispatchKilled(c) \/ Panic(c) \/ cmdShutdown(c)
    <3>1. Same /\ \E w \in {"flush", "exit"} : pc' = [pc EXCEPT ![c] = w]
      BY <2>5 DEF DispatchKilled, Panic, cmdShutdown, Goto, logVars
    <3>2. QED
      BY <2>a, <3>1, OnlyMoves, Zenon
  <2>6. CASE \E d \in Conns : KillClient(c, d)
    <3>1. Ordered("kill", replies[c], batched[c])
      BY <1>b, <2>6 DEF KillClient, Dispatch, Ordered
    <3>2. Same /\ pc' = [pc EXCEPT ![c] = "kill"]
      BY <2>6, Zenon DEF KillClient, Goto, logVars
    <3>3. QED
      BY <3>1, <3>2, OnlyMoves, Zenon
  <2>7. CASE DispatchWrite(c) \/ DispatchRead(c) \/ cmdQuit(c) \/ BackgroundSave(c)
             \/ KillCloses(c)
    <3>1. \E owes \in BOOLEAN : Reply(c, owes)
      BY <2>7, Zenon DEF DispatchWrite, DispatchRead, cmdQuit, BackgroundSave, KillCloses
    <3>2. /\ pc[c] \in {"dispatch", "kill"} /\ UNCHANGED batched
          /\ \E w \in {"batch", "flush"} : pc' = [pc EXCEPT ![c] = w]
      BY <2>7, Zenon DEF DispatchWrite, DispatchRead, cmdQuit, BackgroundSave, KillCloses,
                  Dispatch, Goto
    <3>3. /\ replies' \in [Conns -> Replies]
          /\ \A d \in Conns \ {c} : replies'[d] = replies[d]
          /\ replies'[c].n <= replies[c].n + 1
          /\ replies[c].n < ReplyCap => ackedEarly' = ackedEarly
      BY <1>a, <3>1, ReplyFacts, Zenon
    <3>4. replies[c].n < batched[c] /\ batched[c] <= MaxBatch
      BY <1>b, <3>2 DEF Ordered
    <3>5. replies'[c].n \in Nat
      BY <3>3 DEF Replies
    <3>6. \A w \in {"batch", "flush"} : Ordered(w, replies'[c], batched[c])
      <4>1. replies'[c].n <= batched[c]
        <5>1. replies'[c].n <= replies[c].n + 1
          BY <3>3
        <5>2. QED
          BY <2>b, <3>4, <3>5, <5>1
      <4>2. QED
        BY <3>4, <4>1 DEF Ordered
    <3>7. ReplyCap >= MaxBatch => replies[c].n < ReplyCap
      BY <1>a, <1>b, <3>4, SMTT(60)
    <3>8. ReplyInv'
      BY <3>2, <3>3, <3>6, OneOrdered, Zenon
    <3>9. QED
      BY <3>3, <3>7, <3>8, SMTT(60) DEF NoSpill
  <2>8. CASE FlushWAL(c)
    <3>1. UNCHANGED <<batched, ackedEarly>>
      BY <2>8 DEF FlushWAL
    <3>2. CASE /\ pc' = [pc EXCEPT ![c] = "reply"]
               /\ replies' = [d \in Conns |-> [n |-> replies[d].n, owes |-> FALSE]]
      <4>1. \A d \in Conns : replies'[d].n = replies[d].n /\ ~replies'[d].owes
        BY <1>a, <3>2, FlushFacts
      <4>2. \A d \in Conns : Ordered(pc[d], replies'[d], batched[d])
        BY <1>b, <4>1, Zenon DEF Ordered
      <4>3. Ordered("reply", replies'[c], batched[c])
        BY <1>b, <4>1, Zenon DEF Ordered
      <4>4. QED
        BY <3>1, <3>2, <4>2, <4>3, Zenon DEF ReplyInv, NoSpill, TypeInv
    <3>3. CASE pc' = [pc EXCEPT ![c] = "exit"] /\ UNCHANGED replies
      BY <2>a, <3>1, <3>3, OnlyMoves, Zenon
    <3>4. QED
      BY <2>8, <3>2, <3>3 DEF FlushWAL, Goto
  <2>9. CASE FlushReplies(c)
    <3>1. UNCHANGED batched /\ ~replies[c].owes
      BY <1>b, <2>9 DEF FlushReplies, Ordered
    <3>2. CASE /\ ackedEarly' = (ackedEarly \/ replies[c].owes)
               /\ replies' = [replies EXCEPT ![c] = NoReplies]
               /\ \E w \in {"exit", "loop"} : pc' = [pc EXCEPT ![c] = w]
      <4>1. \A w \in {"exit", "loop"} : Ordered(w, NoReplies, batched[c])
        BY <1>b, NoRepliesFacts DEF Ordered
      <4>2. ackedEarly' => ackedEarly
        BY <3>1, <3>2, Zenon
      <4>3. ReplyInv'
        BY <1>a, <3>1, <3>2, <4>1, OneOrdered, Zenon
      <4>4. QED
        BY <4>2, <4>3, Zenon DEF NoSpill
    <3>3. CASE pc' = [pc EXCEPT ![c] = "exit"] /\ UNCHANGED <<replies, ackedEarly>>
      BY <2>a, <3>1, <3>3, OnlyMoves, Zenon
    <3>4. QED
      BY <2>9, <3>2, <3>3 DEF FlushReplies, Goto
  <2>10. CASE Exit(c)
    <3>1. Ordered("gone", NoReplies, 0)
      BY <1>a DEF Ordered
    <3>2. /\ pc' = [pc EXCEPT ![c] = "gone"] /\ UNCHANGED ackedEarly
          /\ replies' = [replies EXCEPT ![c] = NoReplies]
          /\ batched' = [batched EXCEPT ![c] = 0]
      BY <2>10 DEF Exit, Goto, logVars
    <3>3. QED
      BY <1>a, <3>1, <3>2, OneOrdered, Zenon DEF NoSpill
  <2>11. QED
    BY <1>2, <2>1, <2>2, <2>3, <2>4, <2>5, <2>6, <2>7, <2>8, <2>9, <2>10, Zenon DEF Step
<1>3. ASSUME NEW c \in Conns, ReadFails(c) \/ ReadTimeout(c)
      PROVE  Goal
  <2>1. \A w \in {"exit", "loop"} : Ordered(w, replies[c], batched[c])
    BY <1>b, <1>3, Zenon DEF ReadFails, ReadTimeout, Ordered
  <2>2. Same /\ \E w \in {"exit", "loop"} : pc' = [pc EXCEPT ![c] = w]
    BY <1>3, Zenon DEF ReadFails, ReadTimeout, Goto, logVars
  <2>3. QED
    BY <2>1, <2>2, OnlyMoves, Zenon
<1>4. CASE Spawn \/ refuse
  <2>1. /\ accept \in Conns /\ Same
        /\ \E w \in {"start", "refused"} : pc' = [pc EXCEPT ![accept] = w]
    BY <1>4, Zenon DEF Spawn, refuse, Goto, logVars
  <2>2. \A w \in {"start", "refused"} : Ordered(w, replies[accept], batched[accept])
    BY <1>b, <2>1, Zenon DEF CountInv, Ordered
  <2>3. QED
    BY <2>1, <2>2, OnlyMoves, Zenon
<1>5. ASSUME \/ \E c \in Conns : Fill(c)
             \/ AcceptStops \/ Background \/ Stop \/ Close \/ Stopped \/ UNCHANGED vars
      PROVE  Goal
  <2>1. UNCHANGED pc /\ Same
    BY <1>5, Zenon DEF Fill, AcceptStops, Background, BackgroundSaveEnds, activeExpireLoop, Stop,
                Close, CloseCancels, CloseCopies, CloseConnection, CloseReturns,
                EngineCloses, MainTo, Stopped, vars, connVars, logVars
  <2>2. QED
    BY <2>1, Zenon DEF ReplyInv, NoSpill
<1>6. QED
  BY <1>1, <1>2, <1>3, <1>4, <1>5 DEF Next, AcceptLoop

(* The listening process satisfies the invariant. *)
LEMMA InitInv ==
    ASSUME Init
    PROVE  IInv
<1> USE ServerAssumption DEF Init
<1>1. TypeInv
  BY NoRepliesFacts, SMTT(60) DEF TypeInv, PCs
<1>2. CountInv
  <2>1. Running = {}
    BY DEF Running, Alive, Handling
  <2>2. QED
    BY <2>1, FS_EmptySet, SMTT(60) DEF CountInv, Count
<1>3. StopInv
  BY Zenon DEF StopInv, Handling
<1>4. ReplyInv /\ NoSpill
  BY NoRepliesFacts DEF ReplyInv, Ordered, NoSpill
<1>5. QED
  BY <1>1, <1>2, <1>3, <1>4, Zenon DEF IInv

(* The invariant holds in every reachable state. *)
LEMMA Invariant ==
    Spec => []IInv
<1>1. IInv /\ [Next]_vars => IInv'
  BY TypeStep, CountStep, StopStep, ReplyStep DEF IInv
<1>2. QED
  BY <1>1, InitInv, PTL DEF Spec

(* The slots taken are the goroutines running, and never more than         *)
(* maxclients, however each of them ended (Serve, refuse and handle).      *)
THEOREM SlotsCorrect ==
    Spec => [](SlotsAccounted /\ slots <= maxclients)
<1>1. IInv => SlotsAccounted /\ slots <= maxclients
  BY DEF IInv, CountInv, Running, SlotsAccounted
<1>2. QED
  BY <1>1, Invariant, PTL

(* When Close has closed the connections it copied, no goroutine sits in a *)
(* read that nothing will end, whenever it was accepted and registered.    *)
THEOREM ReadersCorrect ==
    Spec => []NoReaderLeftBehind
<1>1. IInv => NoReaderLeftBehind
  BY DEF IInv, StopInv, NoReaderLeftBehind
<1>2. QED
  BY <1>1, Invariant, PTL

(* Unless the grace period ran out, closeEngine runs after the last        *)
(* command, background save and expire cycle (Close waits for s.wg).       *)
THEOREM EngineCorrect ==
    Spec => []EngineClosedLast
<1>1. IInv => EngineClosedLast
  BY Zenon DEF IInv, StopInv, EngineClosedLast
<1>2. QED
  BY <1>1, Invariant, PTL

(* serveConn blocks for bytes only with an empty reply buffer. *)
THEOREM BatchCorrect ==
    Spec => []NoReplyHeldWhileBlocked
<1>1. IInv => NoReplyHeldWhileBlocked
  BY DEF IInv, ReplyInv, Ordered, NoReplyHeldWhileBlocked
<1>2. QED
  BY <1>1, Invariant, PTL

(* Where the replies of a whole batch fit the writer's buffer, finish lets *)
(* no client have the reply to a record the kernel does not have.          *)
THEOREM AckCorrect ==
    ASSUME ReplyCap >= MaxBatch
    PROVE  Spec => []AckedIsWritten
<1>1. IInv => AckedIsWritten
  BY DEF IInv, NoSpill, AckedIsWritten
<1>2. QED
  BY <1>1, Invariant, PTL

(* What TypeOK says beyond the types above.  A client's pieces are sent    *)
(* once: what the reader has buffered and what is still to come never      *)
(* exceed what the client sends.                                           *)
PieceInv ==
  /\ buf \in [Conns -> Nat] /\ quota \in [Conns -> Nat]
  /\ \A c \in Conns : buf[c] + quota[c] <= Sends[c]

CapInv == \A c \in Conns : replies[c].n <= ReplyCap

FlagInv ==
  /\ victim \in [Conns -> Conns]
  /\ killed \in [Conns -> BOOLEAN] /\ closing \in [Conns -> BOOLEAN]
  /\ maxclients \in 1 .. MaxClients
  /\ ln \in BOOLEAN /\ cancelled \in BOOLEAN /\ shutdownReq \in BOOLEAN
  /\ graceOver \in BOOLEAN /\ bgsave \in BOOLEAN /\ expiry \in BOOLEAN
  /\ walFailed \in BOOLEAN /\ unwritten \in BOOLEAN /\ ackedEarly \in BOOLEAN

(* One connection's pieces change, within what its client sends. *)
LEMMA OnePiece ==
    ASSUME PieceInv, NEW c \in Conns, NEW b \in Nat, NEW q \in Nat, b + q <= Sends[c],
           buf' = [buf EXCEPT ![c] = b], quota' = [quota EXCEPT ![c] = q]
    PROVE  PieceInv'
BY DEF PieceInv

(* A step of the server neither loses count of the pieces nor invents one. *)
LEMMA PieceStep ==
    ASSUME PieceInv, [Next]_vars
    PROVE  PieceInv'
<1>a. /\ buf \in [Conns -> Nat] /\ quota \in [Conns -> Nat]
      /\ \A c \in Conns : buf[c] + quota[c] <= Sends[c]
      /\ \A c \in Conns : Sends[c] \in Nat
  BY ServerAssumption DEF PieceInv
<1>b. ASSUME UNCHANGED <<buf, quota>>
      PROVE  PieceInv'
  BY <1>b DEF PieceInv
<1>1. ASSUME NEW c \in Conns, ReadCommand(c)
      PROVE  PieceInv'
  <2>1. buf[c] >= 2 /\ buf' = [buf EXCEPT ![c] = buf[c] - 2] /\ quota' = quota
    BY <1>1, Zenon DEF ReadCommand, HasCompleteCommand, Take
  <2>2. buf[c] - 2 \in Nat /\ quota[c] \in Nat /\ (buf[c] - 2) + quota[c] <= Sends[c]
    BY <1>a, <2>1
  <2>3. quota' = [quota EXCEPT ![c] = quota[c]]
    BY <1>a, <2>1
  <2>4. QED
    BY <2>1, <2>2, <2>3, OnePiece
<1>2. ASSUME NEW c \in Conns, Fill(c)
      PROVE  PieceInv'
  <2>1. PICK n \in 1 .. quota[c] :
          /\ buf' = [buf EXCEPT ![c] = buf[c] + n]
          /\ quota' = [quota EXCEPT ![c] = quota[c] - n]
    BY <1>2, Zenon DEF Fill
  <2>2. /\ buf[c] + n \in Nat /\ quota[c] - n \in Nat
        /\ (buf[c] + n) + (quota[c] - n) <= Sends[c]
    BY <1>a, <2>1
  <2>3. QED
    BY <2>1, <2>2, OnePiece
<1>3. ASSUME NEW c \in Conns, Exit(c)
      PROVE  PieceInv'
  <2>1. buf' = [buf EXCEPT ![c] = 0] /\ quota' = [quota EXCEPT ![c] = 0]
    BY <1>3, Zenon DEF Exit
  <2>2. 0 + 0 <= Sends[c]
    BY <1>a
  <2>3. QED
    BY <2>1, <2>2, OnePiece
<1>4. ASSUME NEW c \in Conns, Accept(c) \/ ReadFails(c) \/ ReadTimeout(c)
      PROVE  PieceInv'
  BY <1>b, <1>4, Zenon DEF Accept, ReadFails, ReadTimeout
<1>5. ASSUME NEW c \in Conns, Step(c)
      PROVE  PieceInv'
  <2>1. CASE \/ Register(c) \/ LoopTop(c) \/ BatchEnds(c) \/ DispatchKilled(c)
             \/ DispatchWrite(c) \/ DispatchRead(c) \/ cmdQuit(c) \/ cmdShutdown(c)
    BY <1>b, <2>1, Zenon DEF Register, LoopTop, BatchEnds, DispatchKilled, DispatchWrite,
                             DispatchRead, cmdQuit, cmdShutdown
  <2>2. CASE \/ BackgroundSave(c) \/ (\E d \in Conns : KillClient(c, d)) \/ KillCloses(c)
             \/ Panic(c) \/ FlushWAL(c) \/ FlushReplies(c)
    BY <1>b, <2>2, Zenon DEF BackgroundSave, KillClient, KillCloses, Panic, FlushWAL,
                             FlushReplies
  <2>3. QED
    BY <1>1, <1>3, <1>5, <2>1, <2>2, Zenon DEF Step
<1>6. CASE AcceptLoop \/ Background \/ Stop \/ Close \/ Stopped \/ UNCHANGED vars
  BY <1>b, <1>6, Zenon DEF AcceptLoop, Spawn, refuse, AcceptStops, Background,
       BackgroundSaveEnds, activeExpireLoop, Stop, Close, CloseCancels, CloseCopies,
       CloseConnection, CloseReturns, EngineCloses, MainTo, Stopped, vars, connVars
<1>7. QED
  BY <1>2, <1>4, <1>5, <1>6, Zenon DEF Next

(* A full writer's buffer spills before it takes the next reply. *)
LEMMA ReplyCapped ==
    ASSUME replies \in [Conns -> Replies], CapInv, NEW c \in Conns, NEW owes \in BOOLEAN,
           Reply(c, owes)
    PROVE  CapInv'
<1> DEFINE e == IF replies[c].n < ReplyCap
                  THEN [n |-> replies[c].n + 1, owes |-> replies[c].owes \/ owes]
                  ELSE [n |-> 1, owes |-> owes]
<1>1. replies[c].n \in Nat /\ ReplyCap \in Nat \ {0}
  BY ServerAssumption DEF Replies
<1>2. e.n <= ReplyCap
  BY <1>1
<1>3. replies' = [replies EXCEPT ![c] = e]
  BY DEF Reply
<1> HIDE DEF e
<1>4. QED
  BY <1>2, <1>3 DEF CapInv

(* No step puts more replies into a writer's buffer than it holds. *)
LEMMA CapStep ==
    ASSUME TypeInv, CapInv, [Next]_vars
    PROVE  CapInv'
<1>a. replies \in [Conns -> Replies] /\ ReplyCap \in Nat /\ 0 <= ReplyCap
  BY ServerAssumption DEF TypeInv
<1>b. ASSUME UNCHANGED replies
      PROVE  CapInv'
  BY <1>b DEF CapInv
<1>c. ASSUME NEW c \in Conns, replies' = [replies EXCEPT ![c] = NoReplies]
      PROVE  CapInv'
  BY <1>a, <1>c, NoRepliesFacts DEF CapInv
<1>d. ASSUME NEW c \in Conns, NEW owes \in BOOLEAN, Reply(c, owes)
      PROVE  CapInv'
  BY <1>a, <1>d, ReplyCapped, Zenon
<1>1. ASSUME NEW c \in Conns, Step(c)
      PROVE  CapInv'
  <2>1. CASE \/ DispatchWrite(c) \/ DispatchRead(c) \/ cmdQuit(c)
             \/ BackgroundSave(c) \/ KillCloses(c)
    <3>1. \E owes \in BOOLEAN : Reply(c, owes)
      BY <2>1, Zenon DEF DispatchWrite, DispatchRead, cmdQuit, BackgroundSave, KillCloses
    <3>2. QED
      BY <1>d, <3>1, Zenon
  <2>2. CASE ReadCommand(c)
    <3>1. UNCHANGED replies \/ Reply(c, FALSE)
      BY <2>2, Zenon DEF ReadCommand, NoReply
    <3>2. QED
      BY <1>b, <1>d, <3>1, Zenon
  <2>3. CASE FlushWAL(c)
    <3>1. \/ UNCHANGED replies
          \/ replies' = [d \in Conns |-> [n |-> replies[d].n, owes |-> FALSE]]
      BY <2>3, Zenon DEF FlushWAL
    <3>2. ASSUME replies' = [d \in Conns |-> [n |-> replies[d].n, owes |-> FALSE]]
          PROVE  CapInv'
      BY <1>a, <3>2, FlushFacts DEF CapInv
    <3>3. QED
      BY <1>b, <3>1, <3>2, Zenon
  <2>4. CASE FlushReplies(c) \/ Exit(c)
    BY <1>b, <1>c, <2>4, Zenon DEF FlushReplies, Exit
  <2>5. CASE \/ Register(c) \/ LoopTop(c) \/ BatchEnds(c) \/ DispatchKilled(c)
             \/ cmdShutdown(c) \/ (\E d \in Conns : KillClient(c, d)) \/ Panic(c)
    BY <1>b, <2>5, Zenon DEF Register, LoopTop, BatchEnds, DispatchKilled, cmdShutdown,
                             KillClient, Panic
  <2>6. QED
    BY <1>1, <2>1, <2>2, <2>3, <2>4, <2>5, Zenon DEF Step
<1>2. ASSUME NEW c \in Conns, Accept(c) \/ Fill(c) \/ ReadFails(c) \/ ReadTimeout(c)
      PROVE  CapInv'
  BY <1>b, <1>2, Zenon DEF Accept, Fill, ReadFails, ReadTimeout
<1>3. CASE AcceptLoop \/ Background \/ Stop \/ Close \/ Stopped \/ UNCHANGED vars
  BY <1>b, <1>3, Zenon DEF AcceptLoop, Spawn, refuse, AcceptStops, Background,
       BackgroundSaveEnds, activeExpireLoop, Stop, Close, CloseCancels, CloseCopies,
       CloseConnection, CloseReturns, EngineCloses, MainTo, Stopped, vars, connVars
<1>4. QED
  BY <1>1, <1>2, <1>3, Zenon DEF Next

(* No step takes a flag, a victim or the limit out of its type. *)
LEMMA FlagStep ==
    ASSUME TypeInv, FlagInv, [Next]_vars
    PROVE  FlagInv'
<1>a. /\ victim \in [Conns -> Conns]
      /\ killed \in [Conns -> BOOLEAN] /\ closing \in [Conns -> BOOLEAN]
      /\ maxclients \in 1 .. MaxClients
      /\ ln \in BOOLEAN /\ cancelled \in BOOLEAN /\ shutdownReq \in BOOLEAN
      /\ graceOver \in BOOLEAN /\ bgsave \in BOOLEAN /\ expiry \in BOOLEAN
      /\ walFailed \in BOOLEAN /\ unwritten \in BOOLEAN /\ ackedEarly \in BOOLEAN
      /\ conns \subseteq Conns
  BY Zenon DEF FlagInv, TypeInv
<1>b. TRUE \in BOOLEAN /\ FALSE \in BOOLEAN
  OBVIOUS
<1>c. ASSUME NEW c \in Conns, NEW owes \in BOOLEAN, Reply(c, owes)
      PROVE  ackedEarly' \in BOOLEAN
  BY <1>a, <1>c, Zenon DEF Reply
<1>d. \A f \in [Conns -> BOOLEAN] : \A c \in Conns : \A b \in BOOLEAN :
        [f EXCEPT ![c] = b] \in [Conns -> BOOLEAN]
  BY Zenon
<1>e. \A f \in [Conns -> Conns] : \A c, d \in Conns :
        [f EXCEPT ![c] = d] \in [Conns -> Conns]
  BY Zenon
<1>1. ASSUME NEW c \in Conns, Step(c)
      PROVE  FlagInv'
  <2>1. CASE Register(c) \/ LoopTop(c) \/ BatchEnds(c) \/ DispatchKilled(c) \/ Panic(c)
    <3>1. UNCHANGED <<victim, killed, closing, maxclients, ln, cancelled, shutdownReq,
                      graceOver, bgsave, expiry, walFailed, unwritten, ackedEarly>>
      BY <2>1, Zenon DEF Register, LoopTop, BatchEnds, DispatchKilled, Panic,
                         serveVars, stopVars, logVars
    <3>2. QED
      BY <1>a, <3>1, Zenon DEF FlagInv
  <2>2. CASE ReadCommand(c)
    <3>1. ackedEarly' \in BOOLEAN
      BY <1>a, <1>c, <2>2, Zenon DEF ReadCommand, NoReply
    <3>2. closing' = closing \/ closing' = [closing EXCEPT ![c] = TRUE]
      BY <2>2, Zenon DEF ReadCommand
    <3>3. closing' \in [Conns -> BOOLEAN]
      BY <1>a, <1>b, <1>d, <3>2, Zenon
    <3>4. UNCHANGED <<victim, killed, maxclients, ln, cancelled, shutdownReq, graceOver,
                      bgsave, expiry, walFailed, unwritten>>
      BY <2>2, Zenon DEF ReadCommand, serveVars, stopVars
    <3>5. QED
      BY <1>a, <3>1, <3>3, <3>4, Zenon DEF FlagInv
  <2>3. CASE DispatchWrite(c)
    <3>1. ackedEarly' \in BOOLEAN
      BY <1>c, <2>3, Zenon DEF DispatchWrite
    <3>2. unwritten' \in BOOLEAN
      BY <1>a, <1>b, <2>3, Zenon DEF DispatchWrite
    <3>3. UNCHANGED <<victim, killed, closing, maxclients, ln, cancelled, shutdownReq,
                      graceOver, bgsave, expiry, walFailed>>
      BY <2>3, Zenon DEF DispatchWrite, serveVars, stopVars
    <3>4. QED
      BY <1>a, <3>1, <3>2, <3>3, Zenon DEF FlagInv
  <2>4. CASE DispatchRead(c) \/ cmdQuit(c)
    <3>1. ackedEarly' \in BOOLEAN
      BY <1>c, <2>4, Zenon DEF DispatchRead, cmdQuit
    <3>2. closing' = closing \/ closing' = [closing EXCEPT ![c] = TRUE]
      BY <2>4, Zenon DEF DispatchRead, cmdQuit
    <3>3. closing' \in [Conns -> BOOLEAN]
      BY <1>a, <1>b, <1>d, <3>2, Zenon
    <3>4. UNCHANGED <<victim, killed, maxclients, ln, cancelled, shutdownReq, graceOver,
                      bgsave, expiry, walFailed, unwritten>>
      BY <2>4, Zenon DEF DispatchRead, cmdQuit, serveVars, stopVars
    <3>5. QED
      BY <1>a, <3>1, <3>3, <3>4, Zenon DEF FlagInv
  <2>5. CASE cmdShutdown(c)
    <3>1. /\ shutdownReq' = (main = "run") /\ closing' = [closing EXCEPT ![c] = TRUE]
          /\ UNCHANGED <<victim, killed, maxclients, ln, cancelled, graceOver,
                         bgsave, expiry, walFailed, unwritten, ackedEarly>>
      BY <2>5, Zenon DEF cmdShutdown, serveVars, logVars
    <3>2. closing' \in [Conns -> BOOLEAN] /\ shutdownReq' \in BOOLEAN
      BY <1>a, <1>b, <1>d, <3>1, Zenon
    <3>3. QED
      BY <1>a, <3>1, <3>2, Zenon DEF FlagInv
  <2>6. CASE BackgroundSave(c)
    <3>1. ackedEarly' \in BOOLEAN
      BY <1>c, <2>6, Zenon DEF BackgroundSave
    <3>2. /\ bgsave' = TRUE
          /\ UNCHANGED <<victim, killed, closing, maxclients, ln, cancelled, shutdownReq,
                         graceOver, expiry, walFailed, unwritten>>
      BY <2>6, Zenon DEF BackgroundSave, stopVars
    <3>3. QED
      BY <1>a, <1>b, <3>1, <3>2, Zenon DEF FlagInv
  <2>7. ASSUME NEW d \in Conns, KillClient(c, d)
        PROVE  FlagInv'
    <3>1. /\ killed' = [killed EXCEPT ![d] = TRUE] /\ victim' = [victim EXCEPT ![c] = d]
          /\ UNCHANGED <<closing, maxclients, ln, cancelled, shutdownReq, graceOver,
                         bgsave, expiry, walFailed, unwritten, ackedEarly>>
      BY <2>7, Zenon DEF KillClient, serveVars, stopVars, logVars
    <3>2. killed' \in [Conns -> BOOLEAN] /\ victim' \in [Conns -> Conns]
      BY <1>a, <1>b, <1>d, <1>e, <3>1, Zenon
    <3>3. QED
      BY <1>a, <3>1, <3>2, Zenon DEF FlagInv
  <2>8. CASE KillCloses(c)
    <3>1. ackedEarly' \in BOOLEAN
      BY <1>c, <2>8, Zenon DEF KillCloses
    <3>2. /\ victim' = [victim EXCEPT ![c] = c]
          /\ UNCHANGED <<killed, closing, maxclients, ln, cancelled, shutdownReq, graceOver,
                         bgsave, expiry, walFailed, unwritten>>
      BY <2>8, Zenon DEF KillCloses, serveVars, stopVars
    <3>3. victim' \in [Conns -> Conns]
      BY <1>a, <1>e, <3>2, Zenon
    <3>4. QED
      BY <1>a, <3>1, <3>2, <3>3, Zenon DEF FlagInv
  <2>9. CASE FlushWAL(c)
    <3>1. unwritten' \in BOOLEAN /\ walFailed' \in BOOLEAN
      BY <1>a, <1>b, <2>9, Zenon DEF FlushWAL
    <3>2. UNCHANGED <<victim, killed, closing, maxclients, ln, cancelled, shutdownReq,
                      graceOver, bgsave, expiry, ackedEarly>>
      BY <2>9, Zenon DEF FlushWAL, serveVars, stopVars
    <3>3. QED
      BY <1>a, <3>1, <3>2, Zenon DEF FlagInv
  <2>10. CASE FlushReplies(c)
    <3>1. ackedEarly' \in BOOLEAN
      BY <1>a, <2>10, Zenon DEF FlushReplies
    <3>2. UNCHANGED <<victim, killed, closing, maxclients, ln, cancelled, shutdownReq,
                      graceOver, bgsave, expiry, walFailed, unwritten>>
      BY <2>10, Zenon DEF FlushReplies, serveVars, stopVars
    <3>3. QED
      BY <1>a, <3>1, <3>2, Zenon DEF FlagInv
  <2>11. CASE Exit(c)
    <3>1. /\ killed' = [killed EXCEPT ![c] = FALSE] /\ closing' = [closing EXCEPT ![c] = FALSE]
          /\ UNCHANGED <<victim, maxclients, ln, cancelled, shutdownReq, graceOver,
                         bgsave, expiry, walFailed, unwritten, ackedEarly>>
      BY <2>11, Zenon DEF Exit, stopVars, logVars
    <3>2. killed' \in [Conns -> BOOLEAN] /\ closing' \in [Conns -> BOOLEAN]
      BY <1>a, <1>b, <1>d, <3>1, Zenon
    <3>3. QED
      BY <1>a, <3>1, <3>2, Zenon DEF FlagInv
  <2>12. QED
    BY <1>1, <2>1, <2>2, <2>3, <2>4, <2>5, <2>6, <2>7, <2>8, <2>9, <2>10, <2>11, Zenon
       DEF Step
<1>2. ASSUME NEW c \in Conns, Accept(c) \/ Fill(c) \/ ReadFails(c) \/ ReadTimeout(c)
      PROVE  FlagInv'
  <2>1. UNCHANGED <<victim, killed, closing, maxclients, ln, cancelled, shutdownReq,
                    graceOver, bgsave, expiry, walFailed, unwritten, ackedEarly>>
    BY <1>2, Zenon DEF Accept, Fill, ReadFails, ReadTimeout, serveVars, stopVars, logVars
  <2>2. QED
    BY <1>a, <2>1, Zenon DEF FlagInv
<1>3. CASE AcceptLoop
  <2>1. UNCHANGED <<victim, killed, closing, maxclients, ln, cancelled, shutdownReq,
                    graceOver, bgsave, expiry, walFailed, unwritten, ackedEarly>>
    BY <1>3, Zenon DEF AcceptLoop, Spawn, refuse, AcceptStops, connVars, stopVars, logVars
  <2>2. QED
    BY <1>a, <2>1, Zenon DEF FlagInv
<1>4. CASE Background \/ Stop \/ CloseCancels \/ CloseCopies \/ CloseReturns \/ EngineCloses
  <2>1. /\ bgsave' \in BOOLEAN /\ expiry' \in BOOLEAN /\ shutdownReq' \in BOOLEAN
        /\ cancelled' \in BOOLEAN /\ ln' \in BOOLEAN /\ graceOver' \in BOOLEAN
        /\ unwritten' \in BOOLEAN
    BY <1>a, <1>b, <1>4, Zenon DEF Background, BackgroundSaveEnds, activeExpireLoop, Stop,
         CloseCancels, CloseCopies, CloseReturns, EngineCloses, MainTo, serveVars,
         stopVars, logVars
  <2>2. UNCHANGED <<victim, killed, closing, maxclients, walFailed, ackedEarly>>
    BY <1>4, Zenon DEF Background, BackgroundSaveEnds, activeExpireLoop, Stop,
         CloseCancels, CloseCopies, CloseReturns, EngineCloses, MainTo, connVars,
         serveVars, logVars
  <2>3. QED
    BY <1>a, <2>1, <2>2, Zenon DEF FlagInv
<1>5. CASE CloseConnection \/ Stopped \/ UNCHANGED vars
  <2>1. UNCHANGED <<victim, killed, closing, maxclients, ln, cancelled, shutdownReq,
                    graceOver, bgsave, expiry, walFailed, unwritten, ackedEarly>>
    BY <1>5, Zenon DEF CloseConnection, Stopped, vars, connVars, serveVars, stopVars, logVars
  <2>2. QED
    BY <1>a, <2>1, Zenon DEF FlagInv
<1>6. QED
  BY <1>1, <1>2, <1>3, <1>4, <1>5, Zenon DEF Next, Close

(* Every count stays within its bound (maxclients, maxBatch, the writer's  *)
(* buffer, what the client sends), and the wait group counts no more than  *)
(* the connections, a background save and the expire loop.                 *)
THEOREM TypesCorrect ==
    Spec => []TypeOK
<1> DEFINE J == IInv /\ PieceInv /\ CapInv /\ FlagInv
<1>1. Init => J
  <2> SUFFICES ASSUME Init PROVE J
    OBVIOUS
  <2>1. PieceInv
    BY ServerAssumption DEF Init, PieceInv
  <2>2. CapInv
    BY ServerAssumption, NoRepliesFacts DEF Init, CapInv
  <2>3. FlagInv
    BY DEF Init, FlagInv
  <2>4. QED
    BY InitInv, <2>1, <2>2, <2>3
<1>2. J /\ [Next]_vars => J'
  BY TypeStep, CountStep, StopStep, ReplyStep, PieceStep, CapStep, FlagStep DEF IInv
<1>3. J => TypeOK
  <2> SUFFICES ASSUME J PROVE TypeOK
    OBVIOUS
  <2>1. \A c \in Conns : buf[c] \in 0 .. Sends[c] /\ quota[c] \in 0 .. Sends[c]
    BY ServerAssumption DEF PieceInv
  <2>2. replies \in [Conns -> [n : 0 .. ReplyCap, owes : BOOLEAN]]
    <3>1. ASSUME NEW c \in Conns
          PROVE  replies[c] \in [n : 0 .. ReplyCap, owes : BOOLEAN]
      <4>1. replies[c] \in [n : Nat, owes : BOOLEAN] /\ replies[c].n <= ReplyCap
        BY <3>1, Zenon DEF IInv, TypeInv, CapInv, Replies
      <4>2. QED
        BY <4>1, ServerAssumption
    <3>2. replies \in [Conns -> Replies]
      BY DEF IInv, TypeInv
    <3>3. QED
      BY <3>1, <3>2
  <2>3. batched \in [Conns -> 0 .. MaxBatch]
    BY ServerAssumption DEF IInv, TypeInv, ReplyInv, Ordered
  <2>4. slots \in 0 .. maxclients /\ wg \in 0 .. Cardinality(Conns) + 2
    <3>1. IsFiniteSet(Conns) /\ Running \subseteq Conns
      BY ServerAssumption DEF Running
    <3>2. /\ Cardinality(Running) \in Nat /\ Cardinality(Conns) \in Nat
          /\ Cardinality(Running) <= Cardinality(Conns)
      BY <3>1, FS_Subset, FS_CardinalityType
    <3>3. Count(bgsave) \in 0 .. 1 /\ Count(expiry) \in 0 .. 1
      BY DEF Count
    <3>4. /\ slots = Cardinality(Running) /\ slots <= maxclients /\ maxclients \in Nat
          /\ wg = slots + Count(bgsave) + Count(expiry)
      BY Zenon DEF IInv, TypeInv, CountInv
    <3>5. QED
      BY <3>2, <3>3, <3>4
  <2>5. /\ pc \in [Conns -> PCs] /\ victim \in [Conns -> Conns]
        /\ {open, killed, closing} \subseteq [Conns -> BOOLEAN]
        /\ conns \subseteq Conns /\ toClose \subseteq Conns
        /\ maxclients \in 1 .. MaxClients
    BY Zenon DEF IInv, TypeInv, FlagInv
  <2>6. /\ accept \in Conns \cup {"accept", "stopped"}
        /\ main \in {"run", "cancel", "copy", "close", "engine", "exit"}
        /\ engine \in {"open", "closed"}
    BY Zenon DEF IInv, TypeInv
  <2>7. {ln, cancelled, shutdownReq, graceOver, bgsave, expiry, walFailed, unwritten,
         ackedEarly} \subseteq BOOLEAN
    BY Zenon DEF FlagInv
  <2>8. QED
    BY <2>1, <2>2, <2>3, <2>4, <2>5, <2>6, <2>7, Zenon DEF TypeOK, PCs
<1> HIDE DEF J
<1>4. QED
  BY <1>1, <1>2, <1>3, PTL DEF Spec
=============================================================================
