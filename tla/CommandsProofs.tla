--------------------------- MODULE CommandsProofs ---------------------------
(***************************************************************************)
(* What the commands promise whatever runs beside them, proved for any     *)
(* number of clients, keys and stripes.  CommandsEffects has the invariant *)
(* and what each action does to the client that takes it.                  *)
(***************************************************************************)
EXTENDS CommandsEffects, FiniteSetTheorems

(* What a step does to the clients that do not take it.                    *)

\* What is remembered of a key others changed: only its own read forgets it,
\* and a change made beside a client that stands still is remembered.
LEMMA WatchTouched ==
  ASSUME Watch, NEW c \in Clients, cmd'[c] # Idle, NEW k \in Keys, Undisturbed(c, k)'
  PROVE  /\ \/ Undisturbed(c, k)
            \/ call[c].at = "read" /\ k \in Range(call[c].keys)
         /\ call'[c] = call[c] => Undisturbed(c, k) /\ db'[k] = db[k]
<1>1. touched'[c] = {t \in touched[c] : t[1] \notin ReadBy(c)} \cup IF Acts(c) THEN {} ELSE Changed \X {How}
  BY Zenon DEF Watch
<1>2. \A t \in touched'[c] : t[1] # k
  BY Zenon DEF Undisturbed
<1>3. k \notin ReadBy(c) => Undisturbed(c, k)
  BY <1>1, <1>2 DEF Undisturbed
<1>4. k \in ReadBy(c) => Acts(c) /\ call[c].at = "read" /\ k \in Range(call[c].keys)
  BY DEF ReadBy
<1>5. ASSUME ~Acts(c), db'[k] # db[k] PROVE FALSE
  <2>1. k \in Changed
    BY <1>5 DEF Changed
  <2>2. <<k, How>> \in touched'[c]
    BY <1>1, <1>5, <2>1
  <2>3. <<k, How>>[1] = k
    OBVIOUS
  <2> QED BY <1>2, <2>2, <2>3, Zenon
<1> QED BY <1>3, <1>4, <1>5 DEF Acts

\* The history variable notes every change of the store while a command waits.
LEMMA WatchStill ==
  ASSUME Watch, NEW c \in Clients, cmd'[c] # Idle, call'[c] = call[c], NEW k \in Keys
  PROVE  /\ touched[c] \subseteq touched'[c]
         /\ db'[k] # db[k] => <<k, How>> \in touched'[c]
<1>1. touched'[c] = {t \in touched[c] : t[1] \notin ReadBy(c)} \cup IF Acts(c) THEN {} ELSE Changed \X {How}
  BY Zenon DEF Watch
<1>2. ~Acts(c) /\ ReadBy(c) = {}
  BY DEF Acts, ReadBy
<1>3. db'[k] # db[k] => k \in Changed
  BY DEF Changed
<1> QED BY <1>1, <1>2, <1>3

\* A client that does not act: it stands still, and nobody but FLUSHALL and a
\* late request writes a key whose stripe it holds.
Aside(c) ==
  /\ call'[c] = call[c] /\ cmd'[c] = cmd[c] /\ walk'[c] = walk[c]
  /\ \A k \in Keys : holder[Stripe[k]] = c /\ db'[k] # db[k] => How = "no stripe"

\* A writer with a stripe holds the stripe of every key it writes.
LEMMA WritesUnderStripe ==
  ASSUME Base, NEW a \in Clients, Writes(a), call[a].op # "flush", NEW k \in Keys, db'[k] # db[k]
  PROVE  holder[Stripe[k]] = a
<1>1. call[a].at = "write" /\ db' = Applied(call[a].muts)
  BY WritesEffect, Zenon
<1>2. CallOK(call[a]) /\ HoldsStripes(a)
  BY <1>1, InCall
<1>3. call[a].op \in Striped /\ DOMAIN call[a].muts \subseteq Range(call[a].keys)
  BY <1>1, <1>2 DEF CallOK, Striped
<1>4. k \in DOMAIN call[a].muts
  BY <1>1 DEF Applied
<1>5. Stripe[k] \in StripesOf(call[a].keys)
  BY <1>3, <1>4 DEF StripesOf
<1> QED BY <1>1, <1>2, <1>3, <1>5 DEF HoldsStripes

\* A client's step moves no other client, and only Writes changes the store.
LEMMA StepEffect ==
  ASSUME Base, NEW a \in Clients, Dispatch(a) \/ Step(a)
  PROVE  /\ OthersStay(a) /\ now' = now
         /\ db' = db \/ Writes(a)
<1>1. Dispatch(a) => OthersStay(a) /\ now' = now /\ db' = db
  BY DispatchEffect, Zenon
<1>2. Locks(a) => OthersStay(a) /\ now' = now /\ db' = db
  BY LockEffect, Zenon
<1>3. Reads(a) => OthersStay(a) /\ now' = now /\ db' = db
  BY ReadsEffect, Zenon
<1>4. UpdateFn(a) => OthersStay(a) /\ now' = now /\ db' = db
  BY UpdateFnEffect, Zenon
<1>5. Writes(a) => OthersStay(a) /\ now' = now
  BY WritesEffect, Zenon
<1>6. Errs(a) => OthersStay(a) /\ now' = now /\ db' = db
  BY ErrsEffect, Zenon
<1>7. CursorFound(a) => OthersStay(a) /\ now' = now /\ db' = db
  BY CursorFoundEffect, Zenon
<1>8. CursorRefused(a) => OthersStay(a) /\ now' = now /\ db' = db
  BY CursorRefusedEffect, Zenon
<1>9. Scanned(a) => OthersStay(a) /\ now' = now /\ db' = db
  BY ScannedEffect, Zenon
<1> QED BY <1>1, <1>2, <1>3, <1>4, <1>5, <1>6, <1>7, <1>8, <1>9, Zenon DEF Step

\* Seen from another client, a step changes the store under stripes it does not hold.
LEMMA StepAside ==
  ASSUME Base, NEW a \in Clients, Dispatch(a) \/ Step(a), NEW c \in Clients, c # a
  PROVE  Aside(c)
<1>1. OthersStay(a) /\ (db' = db \/ Writes(a))
  BY StepEffect, Zenon
<1>2. call'[c] = call[c] /\ cmd'[c] = cmd[c] /\ walk'[c] = walk[c]
  BY <1>1, Zenon DEF OthersStay
<1>3. ASSUME NEW k \in Keys, holder[Stripe[k]] = c, db'[k] # db[k]
      PROVE  How = "no stripe"
  <2>1. Writes(a) /\ call[a].op = "flush"
    BY <1>1, <1>3, WritesUnderStripe
  <2>2. \A b \in Clients : Acts(b) => b = a
    BY <1>1, Zenon DEF OthersStay, Acts
  <2> QED BY <2>1, <2>2, Zenon DEF How
<1> QED BY <1>2, <1>3, Zenon DEF Aside

\* So do the expiry of a cursor, a late write and the clock.
LEMMA EngineAside ==
  ASSUME Engine, NEW c \in Clients
  PROVE  Aside(c)
<1>1. call' = call /\ cmd' = cmd /\ walk' = walk
  BY Zenon DEF Engine, LateWrite, Tick
<1>2. How = "no stripe"
  BY <1>1, Zenon DEF How, Acts
<1> QED BY <1>1, <1>2, Zenon DEF Aside

\* Every step is one client's, or the engine's and nobody's.
LEMMA Roles ==
  ASSUME Base, Next
  PROVE  /\ Watch
         /\ \A c \in Clients : Aside(c) \/ Dispatch(c) \/ Step(c)
         /\ now' = now \/ (now' = now + 1 /\ db' = db)
         /\ \A c, d \in Clients : Aside(c) \/ Aside(d) \/ c = d
<1>1. CASE Engine /\ Watch
  <2>1. now' = now \/ (now' = now + 1 /\ db' = db)
    BY <1>1, Zenon DEF Engine, LateWrite, Tick
  <2> QED BY <1>1, <2>1, EngineAside, Zenon
<1>2. ASSUME NEW a \in Clients, Dispatch(a) \/ Step(a), Watch
      PROVE  /\ \A c \in Clients : Aside(c) \/ Dispatch(c) \/ Step(c)
             /\ now' = now
             /\ \A c, d \in Clients : Aside(c) \/ Aside(d) \/ c = d
  BY <1>2, StepAside, StepEffect, Zenon
<1> QED BY <1>1, <1>2, Zenon DEF Next

\* An expired record stays expired.
LEMMA VisibleLater ==
  ASSUME Deadlines, now' = now \/ now' = now + 1, NEW k \in Keys, db'[k] = db[k]
  PROVE  /\ Visible(k)' \in {Visible(k), Absent}
         /\ ~Visible(k).found => ~Visible(k)'.found
         /\ now' = now => Visible(k)' = Visible(k)
         /\ Visible(k) = db[k] \/ Visible(k)' = Visible(k)
  BY DEF Deadlines, Visible, Absent

-----------------------------------------------------------------------------
(* Update. *)

\* Nothing but Update's read brings a call to Update's write.
LEMMA ToUpdateWrite ==
  ASSUME Base, NEW a \in Clients, Dispatch(a) \/ Step(a),
         call'[a].op = "update", call'[a].at = "write"
  PROVE  LET k == call[a].keys[1]
             f == Callback(cmd[a], Visible(k))
         IN  /\ UpdateFn(a) /\ call[a].op = "update" /\ call[a].at = "read"
             /\ call'[a].keys = call[a].keys /\ k \in Keys /\ cmd'[a] = cmd[a] /\ UNCHANGED <<db, now>>
             /\ call'[a].cur = Visible(k) /\ f.act \in {"put", "delete"}
<1>1. ASSUME NEW m, NEW r, Resumes(a, m, r) PROVE FALSE
  <2>1. PICK g : Outcome(m, r, g) /\ call'[a] = g.call
    BY <1>1, Zenon DEF Resumes
  <2>2. g = Replied => g.call = NoCall
    BY DEF Replied, Goes
  <2>3. Fresh(g.call) => g.call.op # "update" \/ g.call.at = "lock"
    BY Zenon DEF Fresh, Striped
  <2> QED BY <2>1, <2>2, <2>3, NoCallFacts DEF Outcome, GoesOn
<1>2. ~Dispatch(a)
  BY <1>1, DispatchEffect, Zenon
<1>3. ~Locks(a)
  <2>1. ASSUME Locks(a) PROVE FALSE
    <3>1. /\ call'[a].op = call[a].op
          /\ call'[a].at = IF call'[a].locks # {} THEN "lock" ELSE IF call[a].op = "update" THEN "read" ELSE "write"
      BY <2>1, LockEffect, Zenon
    <3> QED BY <3>1
  <2> QED BY <2>1
<1>4. ~Reads(a) /\ ~Writes(a) /\ ~Scanned(a)
  BY <1>1, ReadsEffect, WritesEffect, ScannedEffect, Zenon
<1>5. ~Errs(a) /\ ~CursorRefused(a)
  <2>1. call'[a] # NoCall
    BY NoCallFacts
  <2> QED BY <2>1, ErrsEffect, CursorRefusedEffect, Zenon
<1>6. ~CursorFound(a)
  BY CursorFoundEffect, Zenon
<1>7. UpdateFn(a)
  BY <1>2, <1>3, <1>4, <1>5, <1>6, Zenon DEF Step
<1>8. call[a].op = "update" /\ call[a].at = "read" /\ UNCHANGED <<db, now>>
  BY <1>7, UpdateFnEffect, Zenon
<1>9. call[a].keys[1] \in Keys
  BY <1>8, InCall
<1> QED BY <1>1, <1>7, <1>8, <1>9, UpdateFnEffect, Zenon

\* A client whose update is out is the only one to hold its key's stripe.
LEMMA UpdateHolds ==
  ASSUME Base, NEW c \in Clients, call[c].op = "update", call[c].at = "write"
  PROVE  call[c].keys[1] \in Keys /\ holder[Stripe[call[c].keys[1]]] = c /\ cmd[c] # Idle
<1>1. CallOK(call[c]) /\ HoldsStripes(c) /\ call[c].keys[1] \in Keys /\ cmd[c] # Idle
  BY InCall
<1>2. call[c].keys[1] \in Range(call[c].keys)
  BY <1>1 DEF CallOK, Range
<1>3. Stripe[call[c].keys[1]] \in StripesOf(call[c].keys)
  BY <1>2 DEF StripesOf
<1> QED BY <1>1, <1>3 DEF HoldsStripes, Striped

\* Every step keeps UpdateIsAtomic.
LEMMA UpdateIsAtomicStep ==
  ASSUME Base, UpdateIsAtomic, Next
  PROVE  UpdateIsAtomic'
<1> SUFFICES ASSUME NEW c \in Clients, NEW k,
                    call'[c].op = "update", call'[c].at = "write", k = call'[c].keys[1]
             PROVE  call'[c].cur \in {Visible(k)', db'[k]} \/ <<k, "no stripe">> \in touched'[c]
  BY Zenon DEF UpdateIsAtomic
<1>1. Watch /\ (Aside(c) \/ Dispatch(c) \/ Step(c)) /\ (now' = now \/ (now' = now + 1 /\ db' = db))
  BY Roles, Zenon
<1>2. Deadlines
  BY DEF Base
<1>3. CASE Dispatch(c) \/ Step(c)
  <2>1. /\ call'[c].keys = call[c].keys /\ call[c].keys[1] \in Keys /\ UNCHANGED <<db, now>>
        /\ call'[c].cur = Visible(call[c].keys[1])
    BY <1>3, ToUpdateWrite, Zenon
  <2>2. k \in Keys /\ call'[c].cur = Visible(k)
    BY <2>1
  <2>3. Visible(k)' = Visible(k)
    BY <1>2, <2>1, <2>2, VisibleLater, Zenon
  <2> QED BY <2>2, <2>3
<1>4. CASE Aside(c)
  <2>1. call'[c] = call[c] /\ cmd'[c] = cmd[c] /\ k = call[c].keys[1]
    BY <1>4, Zenon DEF Aside
  <2>2. k \in Keys /\ holder[Stripe[k]] = c /\ cmd[c] # Idle
    BY <2>1, UpdateHolds, Zenon
  <2>3. call[c].cur \in {Visible(k), db[k]} \/ <<k, "no stripe">> \in touched[c]
    BY <2>1, Zenon DEF UpdateIsAtomic
  <2>4. touched[c] \subseteq touched'[c] /\ (db'[k] # db[k] => <<k, How>> \in touched'[c])
    BY <1>1, <2>1, <2>2, WatchStill
  <2>5. CASE db'[k] # db[k]
    BY <1>4, <2>2, <2>4, <2>5, Zenon DEF Aside
  <2>6. CASE db'[k] = db[k]
    <3>1. Visible(k) = db[k] \/ Visible(k)' = Visible(k)
      BY <1>1, <1>2, <2>2, <2>6, VisibleLater, Zenon
    <3> QED BY <2>1, <2>3, <2>4, <2>6, <3>1, Zenon
  <2> QED BY <2>5, <2>6, Zenon
<1> QED BY <1>1, <1>3, <1>4, Zenon

-----------------------------------------------------------------------------
(* RENAME, RENAMENX and MSETNX. *)

\* What the call in progress has brought the handler, when it goes on from m.
Brought(a, m, r) ==
  \/ cmd[a] = Idle /\ m.i = 0 /\ db' = db
  \/ m = cmd[a] /\ call[a].op = "get" /\ r = Visible(call[a].keys[1]) /\ db' = db
  \/ /\ m = cmd[a] /\ call[a].op = "update" /\ call[a].at = "read"
     /\ r = Visible(call[a].keys[1]) /\ db' = db
     /\ Callback(m, r).act \notin {"put", "delete"}
  \/ m = cmd[a] /\ call[a].at = "write" /\ db' = Applied(call[a].muts)
  \/ m = cmd[a] /\ call[a].op = "scan"

\* A step ends its command, leaves the handler where it is, or takes it on.
LEMMA HandlerMoves ==
  ASSUME Base, NEW a \in Clients, Dispatch(a) \/ Step(a)
  PROVE  \/ cmd'[a] = Idle
         \/ cmd'[a] = cmd[a] /\ db' = db /\ call[a].op # "get"
         \/ \E m, r, g : GoesOn(m, r, g) /\ cmd'[a] = g.cmd /\ call'[a] = g.call /\ Brought(a, m, r)
<1> DEFINE Goal == \/ cmd'[a] = Idle
                   \/ cmd'[a] = cmd[a] /\ db' = db /\ call[a].op # "get"
                   \/ \E m, r, g : /\ GoesOn(m, r, g) /\ cmd'[a] = g.cmd /\ call'[a] = g.call
                                   /\ Brought(a, m, r)
<1>1. ASSUME NEW m, NEW r, Resumes(a, m, r), Brought(a, m, r) PROVE Goal
  <2>1. PICK g : Outcome(m, r, g) /\ call'[a] = g.call /\ cmd'[a] = g.cmd
    BY <1>1, Zenon DEF Resumes
  <2>2. g = Replied => cmd'[a] = Idle
    BY <2>1 DEF Replied, Goes
  <2> QED BY <1>1, <2>1, <2>2, Zenon DEF Outcome
<1> SUFFICES Goal
  OBVIOUS
<1> HIDE DEF Goal
<1>2. CASE Dispatch(a)
  <2>1. PICK m : m.i = 0 /\ Resumes(a, m, Absent)
    BY <1>2, DispatchEffect, Zenon
  <2>2. cmd[a] = Idle /\ db' = db
    BY <1>2, DispatchEffect, Zenon
  <2>3. Brought(a, m, Absent)
    BY <2>1, <2>2, Zenon DEF Brought
  <2> QED BY <1>1, <2>1, <2>3, Zenon
<1>3. CASE Locks(a)
  <2>1. cmd' = cmd /\ db' = db /\ call[a].at = "lock"
    BY <1>3, LockEffect, Zenon
  <2>2. call[a].op # "get"
    BY <2>1, InCall DEF CallOK
  <2> QED BY <2>1, <2>2, Zenon DEF Goal
<1>4. CASE Reads(a)
  <2> DEFINE r == Visible(call[a].keys[1])
  <2>1. Resumes(a, cmd[a], r) /\ call[a].op = "get" /\ db' = db
    BY <1>4, ReadsEffect, Zenon
  <2>2. Brought(a, cmd[a], r)
    BY <2>1, Zenon DEF Brought
  <2> QED BY <1>1, <2>1, <2>2, Zenon
<1>5. CASE UpdateFn(a)
  <2> DEFINE r == Visible(call[a].keys[1])
  <2>1. /\ db' = db /\ call[a].op = "update" /\ call[a].at = "read"
        /\ \/ cmd' = cmd
           \/ Callback(cmd[a], r).act \notin {"put", "delete"} /\ Resumes(a, cmd[a], r)
    BY <1>5, UpdateFnEffect, Zenon
  <2>2. CASE cmd' = cmd
    BY <2>1, <2>2, Zenon DEF Goal
  <2>3. CASE Callback(cmd[a], r).act \notin {"put", "delete"} /\ Resumes(a, cmd[a], r)
    <3>1. Brought(a, cmd[a], r)
      BY <2>1, <2>3, Zenon DEF Brought
    <3> QED BY <1>1, <2>3, <3>1, Zenon
  <2> QED BY <2>1, <2>2, <2>3, Zenon
<1>6. CASE Writes(a)
  <2>1. Resumes(a, cmd[a], Absent) /\ call[a].at = "write" /\ db' = Applied(call[a].muts)
    BY <1>6, WritesEffect, Zenon
  <2>2. Brought(a, cmd[a], Absent)
    BY <2>1, Zenon DEF Brought
  <2> QED BY <1>1, <2>1, <2>2, Zenon
<1>7. CASE Errs(a)
  BY <1>7, ErrsEffect, Zenon DEF Goal
<1>8. CASE CursorFound(a)
  <2>1. cmd' = cmd /\ db' = db /\ call[a].at = "resume"
    BY <1>8, CursorFoundEffect, Zenon
  <2>2. call[a].op # "get"
    BY <2>1, InCall DEF CallOK
  <2> QED BY <2>1, <2>2, Zenon DEF Goal
<1>9. CASE CursorRefused(a)
  BY <1>9, CursorRefusedEffect, Zenon DEF Goal
<1>10. CASE Scanned(a)
  <2>1. Resumes(a, cmd[a], Absent) /\ call[a].op = "scan"
    BY <1>10, ScannedEffect, Zenon
  <2>2. Brought(a, cmd[a], Absent)
    BY <2>1, Zenon DEF Brought
  <2> QED BY <1>1, <2>1, <2>2, Zenon
<1> QED BY <1>2, <1>3, <1>4, <1>5, <1>6, <1>7, <1>8, <1>9, <1>10, Zenon DEF Step

\* The name of the idle client is none of those that matter.
LEMMA IdleName ==
  Idle.name = "idle" /\ Idle.name \notin Renaming /\ Idle.name # "msetnx" /\ Idle.name \notin WalkNames
  BY DEF Idle, Renaming, WalkNames

\* RENAME's record is under src until dst has been written, then under dst.
LEMMA MovedRecordStep ==
  ASSUME Base, Next, NEW c \in Clients, MovedRecord(c)
  PROVE  MovedRecord(c)'
<1> SUFFICES ASSUME NEW k, cmd'[c].name \in Renaming, Undisturbed(c, k)',
                    \/ cmd'[c].i = 2 /\ k = cmd'[c].keys[1]
                    \/ cmd'[c].i = 3 /\ k = cmd'[c].keys[2]
             PROVE  cmd'[c].rec = db'[k]
  BY Zenon DEF MovedRecord
<1>1. cmd'[c] # Idle
  BY IdleName
<1>2. Running(cmd'[c]) /\ k \in Keys
  <2>1. Base'
    BY BaseStep, Zenon
  <2>2. Running(cmd'[c])
    BY <1>1, <2>1, Zenon DEF Base, ClientOK
  <2> QED BY <2>2 DEF Running, Renaming, TwoKeys
<1>3. Watch /\ (Aside(c) \/ Dispatch(c) \/ Step(c))
  BY Roles, Zenon
<1>4. /\ Undisturbed(c, k) \/ (call[c].at = "read" /\ k \in Range(call[c].keys))
      /\ call'[c] = call[c] => Undisturbed(c, k) /\ db'[k] = db[k]
  BY <1>1, <1>2, <1>3, WatchTouched
<1>5. cmd[c] # Idle => Running(cmd[c]) /\ Phase(cmd[c], call[c]) /\ CallOK(call[c])
  BY Zenon DEF Base, ClientOK
<1>6. ASSUME cmd'[c] = cmd[c], Undisturbed(c, k), db'[k] = db[k] PROVE cmd'[c].rec = db'[k]
  BY <1>6 DEF MovedRecord
<1>7. CASE Aside(c)
  BY <1>4, <1>6, <1>7, Zenon DEF Aside
<1>8. CASE cmd'[c] = cmd[c] /\ db' = db
  <2>1. ~(call[c].at = "read" /\ k \in Range(call[c].keys))
    <3>1. CASE cmd[c].i = 2 /\ k = cmd[c].keys[1]
      <4>1. call[c].keys = <<cmd[c].keys[2]>> /\ cmd[c].keys[2] \in Keys /\ k # cmd[c].keys[2]
        <5>1. Running(cmd[c]) /\ Phase(cmd[c], call[c]) /\ cmd[c].name \in Renaming
          BY <1>1, <1>5, <1>8, Zenon
        <5>2. call[c].keys = <<cmd[c].keys[2]>>
          BY <3>1, <5>1, Zenon DEF Phase
        <5>3. cmd[c].keys \in Seq(Keys) /\ Len(cmd[c].keys) = 2
          BY <5>1, Zenon DEF Running, Renaming, TwoKeys
        <5>4. cmd[c].keys[2] \in Keys
          BY <5>3
        <5>5. 2 >= 2
          OBVIOUS
        <5>6. cmd[c].keys[1] # cmd[c].keys[2]
          BY <3>1, <5>1, <5>5, Zenon DEF Running
        <5> QED BY <3>1, <5>2, <5>4, <5>6, Zenon
      <4>2. Range(<<cmd[c].keys[2]>>) = {cmd[c].keys[2]}
        BY <4>1, Singles, Zenon
      <4> QED BY <4>1, <4>2, Zenon
    <3>2. CASE cmd[c].i = 3
      BY <1>1, <1>5, <1>8, <3>2, PhaseFacts, ZenonT(60)
    <3> QED BY <1>8, <3>1, <3>2
  <2> QED BY <1>4, <1>6, <1>8, <2>1, SMTT(60)
<1>9. ASSUME NEW m, NEW r, NEW g, GoesOn(m, r, g), cmd'[c] = g.cmd, Brought(c, m, r)
      PROVE  cmd'[c].rec = db'[k]
  <2>1. /\ m.name = g.cmd.name /\ m.keys = g.cmd.keys /\ m.name \in Renaming
        /\ \/ m.i = 1 /\ g.cmd.i = 2 /\ r.found /\ g.cmd.rec = r
           \/ m.i = 2 /\ g.cmd.i = 3 /\ g.cmd.rec = m.rec /\ (m.name = "renamenx" => ~r.found)
    BY <1>9 DEF GoesOn
  <2>2. m = cmd[c] /\ cmd[c] # Idle
    BY <1>9, <2>1, IdleName DEF Brought
  <2>3. Running(m) /\ Phase(m, call[c]) /\ CallOK(call[c])
    BY <1>5, <2>2, Zenon
  <2>4. CASE m.i = 1
    <3>1. call[c].op = "get" /\ call[c].keys = <<k>>
      BY <1>9, <2>1, <2>3, <2>4, SMTT(60) DEF Phase
    <3>2. r = Visible(call[c].keys[1]) /\ db' = db
      BY <1>9, <2>2, <2>3, <2>4, <3>1, Zenon DEF Brought, CallOK
    <3>3. r = Visible(k)
      BY <3>1, <3>2
    <3>4. r.found => r = db[k]
      BY <3>3, Zenon DEF Visible, Absent
    <3> QED BY <1>9, <2>1, <2>4, <3>2, <3>4, SMTT(60)
  <2>5. CASE m.i = 2
    <3>1. /\ call[c].op \in {"put", "update"} /\ call[c].keys = <<k>>
          /\ call[c].op = "put" \/ call[c].at = "write" => call[c].muts = Only(k, m.rec)
      BY <1>9, <2>1, <2>3, <2>5, Zenon DEF Phase
    <3>2. call[c].op = "update" => m.name = "renamenx"
      BY <2>1, <2>3 DEF Phase, Renaming, OneUpdate
    <3>3. CASE call[c].at = "write" /\ db' = Applied(call[c].muts)
      <4>1. db' = Applied(Only(k, m.rec))
        BY <3>1, <3>3, Zenon
      <4>2. DOMAIN Only(k, m.rec) = {k} /\ Only(k, m.rec)[k] = m.rec
        BY OnlyFacts, Zenon
      <4>3. db'[k] = m.rec
        BY <1>2, <4>1, <4>2, Zenon DEF Applied
      <4> QED BY <1>9, <2>1, <2>5, <4>3
    <3>4. CASE call[c].op = "update" /\ r = Visible(call[c].keys[1]) /\ Callback(m, r).act \notin {"put", "delete"}
      <4>1. r = Visible(k)
        BY <3>1, <3>4
      <4>2. r.exp \in Int
        BY <1>2, <4>1, VisibleDeadline, SMTT(60) DEF Base
      <4>3. ~r.found
        BY <2>1, <2>5, <3>2, <3>4
      <4>4. Callback(m, r) = ActionPut(m.rec)
        BY <2>3, <3>2, <3>4, <4>2, <4>3, CallbackAnswers, Zenon
      <4> QED BY <3>4, <4>4 DEF ActionPut, Answer
    <3> QED BY <1>9, <2>2, <3>1, <3>3, <3>4 DEF Brought
  <2> QED BY <2>1, <2>4, <2>5, Zenon
<1> QED BY <1>1, <1>3, <1>7, <1>8, <1>9, HandlerMoves, Zenon

\* MSETNX has seen every key behind it missing, and only others' writes,
\* which it is told of, make it wrong.
LEMMA SeenMissingStep ==
  ASSUME Base, Next, NEW c \in Clients, SeenMissing(c)
  PROVE  SeenMissing(c)'
<1> SUFFICES ASSUME NEW j, NEW k, cmd'[c].name = "msetnx", j \in 1..Len(cmd'[c].keys), j < cmd'[c].i,
                    k = cmd'[c].keys[j], Undisturbed(c, k)'
             PROVE  ~Visible(k)'.found
  BY Zenon DEF SeenMissing
<1>1. cmd'[c] # Idle
  BY IdleName
<1>2. Running(cmd'[c]) /\ k \in Keys /\ Deadlines
  <2>1. Base'
    BY BaseStep, Zenon
  <2>2. Running(cmd'[c])
    BY <1>1, <2>1, Zenon DEF Base, ClientOK
  <2> QED BY <2>2 DEF Running, Base
<1>3. /\ Watch /\ (Aside(c) \/ Dispatch(c) \/ Step(c))
      /\ now' = now \/ now' = now + 1
      /\ Dispatch(c) \/ Step(c) => now' = now
  BY Roles, StepEffect, ZenonT(60)
<1>4. /\ Undisturbed(c, k) \/ (call[c].at = "read" /\ k \in Range(call[c].keys))
      /\ call'[c] = call[c] => Undisturbed(c, k) /\ db'[k] = db[k]
  BY <1>1, <1>2, <1>3, WatchTouched
<1>5. cmd[c] # Idle => Running(cmd[c]) /\ Phase(cmd[c], call[c]) /\ CallOK(call[c])
  BY Zenon DEF Base, ClientOK
<1>6. ASSUME db'[k] = db[k], ~Visible(k).found PROVE ~Visible(k)'.found
  BY <1>2, <1>3, <1>6, VisibleLater, Zenon
<1>7. ASSUME cmd[c].name = "msetnx", cmd[c].keys = cmd'[c].keys, j < cmd[c].i, Undisturbed(c, k)
      PROVE  ~Visible(k).found
  BY <1>7, Zenon DEF SeenMissing
<1>8. CASE Aside(c)
  BY <1>4, <1>6, <1>7, <1>8, ZenonT(60) DEF Aside
<1>9. CASE cmd'[c] = cmd[c] /\ db' = db /\ call[c].op # "get"
  <2>1. Running(cmd[c]) /\ Phase(cmd[c], call[c]) /\ CallOK(call[c]) /\ cmd[c].name = "msetnx"
    BY <1>1, <1>5, <1>9, Zenon
  <2>2. call[c].at # "read"
    BY <1>9, <2>1, PhaseFacts, ZenonT(60)
  <2> QED BY <1>4, <1>6, <1>7, <1>9, <2>1, <2>2
<1>10. ASSUME NEW m, NEW r, NEW g, GoesOn(m, r, g), cmd'[c] = g.cmd, Brought(c, m, r), now' = now
       PROVE  ~Visible(k)'.found
  <2>1. /\ m.name = "msetnx" /\ m.keys = g.cmd.keys /\ g.cmd.i = m.i + 1
        /\ m.i >= 1 => ~r.found
    BY <1>10 DEF GoesOn
  <2>2. m.i = 0 => FALSE
    BY <1>10, <2>1, SMTT(60)
  <2>3. m = cmd[c] /\ cmd[c] # Idle
    BY <1>10, <2>1, <2>2, IdleName DEF Brought
  <2>4. Running(m) /\ Phase(m, call[c]) /\ CallOK(call[c])
    BY <1>5, <2>3, ZenonT(60)
  <2>5. m.i <= Len(m.keys) /\ m.i \in Nat
    <3> DEFINE i == m.i
               n == Len(m.keys)
    <3>1. cmd'[c].keys = m.keys /\ cmd'[c].i = i + 1
      BY <1>10, <2>1, Zenon
    <3>2. cmd'[c].i <= n + 1 /\ n \in Nat /\ i \in Nat
      BY <1>2, <2>1, <2>4, <3>1, MSetNXPhase, Zenon
    <3> HIDE DEF i, n
    <3>3. i <= n /\ i \in Nat
      BY <3>1, <3>2
    <3> QED BY <3>3, Zenon DEF i, n
  <2>6. call[c].op = "get" /\ call[c].keys = <<m.keys[m.i]>> /\ m.keys[m.i] \in Keys /\ ~r.found
    <3> DEFINE i == m.i
               s == m.keys
    <3>1. call[c].op = "get" /\ call[c].keys = <<m.keys[m.i]>> /\ s \in Seq(Keys)
      BY <2>1, <2>4, <2>5, MSetNXPhase, Zenon
    <3>2. i \in Nat /\ i <= Len(s) /\ i # 0
      BY <2>2, <2>5, Zenon
    <3> HIDE DEF i, s
    <3>3. s[i] \in Keys /\ i >= 1
      BY <3>1, <3>2
    <3> QED BY <2>1, <3>1, <3>3, Zenon DEF i, s
  <2>7. r = Visible(call[c].keys[1]) /\ db' = db
    BY <1>10, <2>2, <2>4, <2>6, Zenon DEF Brought, CallOK
  <2>8. call[c].keys[1] = m.keys[m.i] /\ Range(call[c].keys) = {m.keys[m.i]}
    BY <2>6, Singles, SMTT(60)
  <2>9. k = m.keys[m.i] => ~Visible(k).found
    BY <2>6, <2>7, <2>8, Zenon
  <2>10. k # m.keys[m.i] => Undisturbed(c, k) /\ j < m.i
    BY <1>4, <1>10, <2>1, <2>5, <2>8
  <2>11. ~Visible(k).found
    BY <1>7, <1>10, <2>1, <2>3, <2>9, <2>10
  <2> QED BY <1>6, <2>7, <2>11, Zenon
<1> QED BY <1>1, <1>3, <1>8, <1>9, <1>10, HandlerMoves, Zenon

-----------------------------------------------------------------------------
(* SETNX, SET NX, RENAMENX and COPY. *)

\* One step tells at most one client that it created k: one that was about to.
LEMMA ToldFew ==
  ASSUME Base, Next, NEW k \in Keys
  PROVE  \/ Told(k) = {}
         \/ \E a \in Clients : Told(k) = {a} /\ Creating(a, k) /\ ~Aside(a)
<1>1. \A c \in Told(k) : c \in Clients /\ Acts(c) /\ Creating(c, k)
  BY DEF Told, Creating
<1>2. \A c \in Told(k) : c \in Clients /\ Creating(c, k) /\ ~Aside(c)
  BY <1>1, Zenon DEF Acts, Aside
<1>3. \A c, d \in Told(k) : c = d
  BY <1>2, Roles, Zenon
<1>4. ASSUME NEW a \in Told(k) PROVE Told(k) = {a}
  BY <1>3, <1>4
<1> QED BY <1>2, <1>4

\* Every step keeps CreatedOnce: the write that makes a key visible is told by one reply.
LEMMA CreatedOnceStep ==
  ASSUME Base, Next, NEW k \in Keys, CreatedOnce(k)
  PROVE  CreatedOnce(k)'
<1>1. created'[k] = IF Visible(k)'.found THEN created[k] + Cardinality(Told(k)) ELSE 0
  <2>1. Watch
    BY Roles, Zenon
  <2>2. k \in Live' <=> Visible(k)'.found
    BY Zenon DEF Live
  <2> QED BY <2>1, <2>2, Zenon DEF Watch
<1>2. /\ created[k] \in {0, 1} /\ (~Visible(k).found => created[k] = 0)
      /\ \A c \in Clients : Creating(c, k) => created[k] = 0
  BY Zenon DEF CreatedOnce
<1>3. \/ Cardinality(Told(k)) = 0 /\ Told(k) = {}
      \/ Cardinality(Told(k)) = 1 /\ \E a \in Clients : Told(k) = {a} /\ Creating(a, k) /\ ~Aside(a)
  <2>1. Cardinality({}) = 0 /\ \A a : Cardinality({a}) = 1
    BY FS_EmptySet, FS_Singleton, Zenon
  <2> QED BY <2>1, ToldFew, Zenon
<1>4. created'[k] \in {0, 1}
  BY <1>1, <1>2, <1>3
<1>5. ~Visible(k)'.found => created'[k] = 0
  BY <1>1
<1>6. ASSUME NEW c \in Clients, Creating(c, k)' PROVE created'[k] = 0
  <2>1. /\ call'[c].op = "update" /\ call'[c].at = "write" /\ Creates(cmd'[c])
        /\ call'[c].keys[1] = k
    BY <1>6, Zenon DEF Creating, Creates
  <2>2. CASE Aside(c)
    <3>1. call'[c] = call[c] /\ cmd'[c] = cmd[c]
      BY <2>2, Zenon DEF Aside
    <3>2. Creating(c, k)
      BY <2>1, <3>1, Zenon DEF Creating
    <3>3. holder[Stripe[k]] = c
      BY <3>2, UpdateHolds, Zenon DEF Creating
    <3>4. ASSUME NEW a \in Clients, Creating(a, k), ~Aside(a) PROVE FALSE
      <4>1. holder[Stripe[k]] = a
        BY <3>4, UpdateHolds, Zenon DEF Creating
      <4> QED BY <2>2, <3>3, <3>4, <4>1
    <3>5. Cardinality(Told(k)) = 0
      BY <1>3, <3>4, Zenon
    <3> QED BY <1>1, <1>2, <3>2, <3>5
  <2>3. CASE Dispatch(c) \/ Step(c)
    <3> DEFINE cur == Visible(call[c].keys[1])
    <3>1. /\ call[c].op = "update" /\ call[c].at = "read" /\ call'[c].keys = call[c].keys
          /\ cmd'[c] = cmd[c] /\ UNCHANGED <<db, now>>
          /\ Callback(cmd[c], cur).act \in {"put", "delete"}
      BY <2>1, <2>3, ToUpdateWrite, Zenon
    <3>2. Running(cmd[c]) /\ Phase(cmd[c], call[c])
      BY <3>1, InCall, Zenon
    <3>3. cur = Visible(k) /\ cur.exp \in Int
      BY <2>1, <3>1, VisibleDeadline DEF Base
    <3> HIDE DEF cur
    <3>4. cmd[c].name \in OneUpdate \cup {"renamenx", "copy"}
      BY <3>1, <3>2, Zenon DEF Phase
    <3>5. ~cur.found
      BY <2>1, <3>1, <3>2, <3>3, <3>4, CallbackAnswers, Zenon
    <3>6. Visible(k)' = Visible(k)
      BY <3>1 DEF Visible
    <3> QED BY <1>1, <3>3, <3>5, <3>6
  <2> QED BY <2>2, <2>3, Roles, Zenon
<1>7. \A c \in Clients : Creating(c, k)' => created'[k] = 0
  BY <1>6
<1> QED BY <1>4, <1>5, <1>7, Zenon DEF CreatedOnce

-----------------------------------------------------------------------------
(* SCAN and KEYS. *)

\* A page leaves no live key out between where it starts and where the next
\* one does.
LEMMA PageCovers ==
  ASSUME NEW start, NEW count, NEW k \in Live, k >= start
  PROVE  LET page == Page(start, count) IN
         \/ k \in page.keys
         \/ page.next \in Nat \ {0} /\ k >= page.next
<1> DEFINE ks == {j \in Live : j >= start}
<1> DEFINE first == {j \in ks : Cardinality({i \in ks : i < j}) < count}
<1>1. ks \subseteq Keys /\ Keys \subseteq Nat \ {0} /\ k \in ks
  BY LsmClientAssumption DEF Live
<1>2. Page(start, count).keys = first /\ Page(start, count).next = IF first = ks THEN 0 ELSE Min(ks \ first)
  BY DEF Page
<1> HIDE DEF first
<1>3. CASE k \in first
  BY <1>2, <1>3
<1>4. CASE k \notin first
  <2>1. ks \ first # {} /\ ks \ first \subseteq Nat /\ first # ks
    BY <1>1, <1>4, Zenon
  <2>2. Min(ks \ first) \in ks \ first /\ \A j \in ks \ first : Min(ks \ first) <= j
    BY <2>1, LeastOf, Zenon
  <2>3. Page(start, count).next = Min(ks \ first)
    BY <1>2, <2>1
  <2> HIDE DEF ks
  <2>4. Page(start, count).next \in Nat \ {0} /\ Page(start, count).next <= k
    BY <1>1, <1>4, <2>2, <2>3, Zenon
  <2> QED BY <1>1, <2>4
<1> QED BY <1>3, <1>4

\* A page with more to come is given an id nobody holds.
LEMMA NewCursor ==
  ASSUME NEW page, nextCursor(page), cursorN \in Nat, DOMAIN cursors \subseteq 1..cursorN
  PROVE  /\ cursorN' \in Nat /\ cursorN' >= cursorN /\ DOMAIN cursors' \subseteq 1..cursorN'
         /\ \A i \in DOMAIN cursors' : i <= cursorN => i \in DOMAIN cursors /\ cursors'[i] = cursors[i]
         /\ page.next # 0 => /\ cursorN' = cursorN + 1 /\ cursorN' \in DOMAIN cursors'
                             /\ cursors'[cursorN'].start = page.next
  BY DEF nextCursor

\* Cursors are removed and added, never changed, and new ids are fresh.
Grown ==
  /\ cursorN' \in Nat /\ cursorN' >= cursorN /\ DOMAIN cursors' \subseteq 1..cursorN'
  /\ \A i \in DOMAIN cursors' : i <= cursorN => i \in DOMAIN cursors /\ cursors'[i] = cursors[i]

\* No step adds a cursor but under the next number.
LEMMA CursorsGrow ==
  ASSUME Base, Next, cursorN \in Nat, DOMAIN cursors \subseteq 1..cursorN
  PROVE  Grown
<1>1. ASSUME UNCHANGED <<cursors, cursorN>> PROVE Grown
  BY <1>1 DEF Grown
<1>2. ASSUME Fewer, cursorN' = cursorN PROVE Grown
  BY <1>2 DEF Grown, Fewer
<1>3. ASSUME NEW a \in Clients, Dispatch(a) PROVE Grown
  BY <1>1, <1>3, DispatchEffect, Zenon
<1>4. ASSUME NEW a \in Clients, Locks(a) \/ Reads(a) \/ UpdateFn(a) PROVE Grown
  BY <1>1, <1>4, LockEffect, ReadsEffect, UpdateFnEffect, Zenon
<1>5. ASSUME NEW a \in Clients, Writes(a) \/ Errs(a) PROVE Grown
  BY <1>1, <1>5, WritesEffect, ErrsEffect, Zenon
<1>6. ASSUME NEW a \in Clients, CursorFound(a) \/ CursorRefused(a) PROVE Grown
  BY <1>2, <1>6, CursorFoundEffect, CursorRefusedEffect, Zenon
<1>7. ASSUME NEW a \in Clients, Scanned(a) PROVE Grown
  <2>1. nextCursor(Page(call[a].start, call[a].count))
    BY <1>7, ScannedEffect, Zenon
  <2> QED BY <2>1, NewCursor, Zenon DEF Grown
<1>8. Engine => Grown
  <2>1. Engine => UNCHANGED <<cursors, cursorN>>
    BY Zenon DEF Engine, LateWrite, Tick
  <2> QED BY <1>1, <2>1, Zenon
<1> QED BY <1>3, <1>4, <1>5, <1>6, <1>7, <1>8, Zenon DEF Next, Step

\* Between its first page and its last, what a walk must return only shrinks.
LEMMA KeptShrinks ==
  ASSUME Watch, NEW c \in Clients, NEW w \in WalkNames
  PROVE  /\ kept'[c][w] \subseteq Live'
         /\ ~Begins(c, w) => kept'[c][w] \subseteq kept[c][w]
<1>1. kept'[c][w] = CASE Begins(c, w) -> Live'
                      [] ~Begins(c, w) /\ Walks(c, w)' -> kept[c][w] \cap Live'
                      [] OTHER -> {}
  BY Zenon DEF Watch
<1>2. kept'[c][w] = Live' \/ kept'[c][w] = kept[c][w] \cap Live' \/ kept'[c][w] = {}
  BY <1>1
<1>3. ~Begins(c, w) => kept'[c][w] = kept[c][w] \cap Live' \/ kept'[c][w] = {}
  BY <1>1
<1> QED BY <1>2, <1>3

\* What a cursor still has ahead is ahead of it after a step of somebody else.
LEMMA WalkStays ==
  ASSUME Walking, Grown, Watch, NEW c \in Clients,
         walk'[c] = walk[c] \/ walk'[c].id = 0, ~Begins(c, "scan") \/ walk[c].id = 0
  PROVE  /\ \A w \in WalkNames : kept'[c][w] \subseteq Live'
         /\ walk'[c].id \in 0..cursorN'
         /\ walk'[c].id \in DOMAIN cursors' =>
              kept'[c]["scan"] \subseteq walk'[c].got \cup Ahead(cursors'[walk'[c].id].start)
<1>1. WalkOK(c) /\ cursorN \in Nat /\ DOMAIN cursors \subseteq 1..cursorN
  BY DEF Walking
<1>2. \A w \in WalkNames : kept'[c][w] \subseteq Live'
  BY KeptShrinks, SMTT(60)
<1>3. walk[c].id \in 0..cursorN
  BY <1>1 DEF WalkOK
<1>4. walk'[c].id \in 0..cursorN'
  BY <1>1, <1>3 DEF Grown
<1>5. ASSUME walk'[c].id \in DOMAIN cursors'
      PROVE  kept'[c]["scan"] \subseteq walk'[c].got \cup Ahead(cursors'[walk'[c].id].start)
  <2>1. walk'[c].id # 0
    BY <1>5 DEF Grown
  <2>2. walk'[c] = walk[c] /\ ~Begins(c, "scan")
    BY <2>1
  <2>3. walk[c].id \in DOMAIN cursors /\ cursors'[walk[c].id] = cursors[walk[c].id]
    BY <1>1, <1>3, <1>5, <2>2 DEF Grown
  <2>4. kept[c]["scan"] \subseteq walk[c].got \cup Ahead(cursors[walk[c].id].start)
    BY <1>1, <2>3, Zenon DEF WalkOK
  <2>5. kept'[c]["scan"] \subseteq kept[c]["scan"]
    BY <2>2, KeptShrinks DEF WalkNames
  <2> QED BY <2>2, <2>3, <2>4, <2>5, Zenon
<1> QED BY <1>2, <1>4, <1>5

\* Steps of others leave a walk as it was.
LEMMA WalkAside ==
  ASSUME Walking, Grown, Watch, NEW c \in Clients, Aside(c)
  PROVE  WalkOK(c)'
<1>1. call'[c] = call[c] /\ cmd'[c] = cmd[c] /\ walk'[c] = walk[c]
  BY Zenon DEF Aside
<1>2. \A w \in WalkNames : ~Begins(c, w)
  BY <1>1, IdleName DEF Begins
<1>3. kept'[c]["scan"] \subseteq kept[c]["scan"] /\ kept'[c]["keys"] \subseteq kept[c]["keys"]
  BY <1>2, KeptShrinks DEF WalkNames
<1>4. /\ \A w \in WalkNames : kept'[c][w] \subseteq Live'
      /\ walk'[c].id \in 0..cursorN'
      /\ walk'[c].id \in DOMAIN cursors' =>
           kept'[c]["scan"] \subseteq walk'[c].got \cup Ahead(cursors'[walk'[c].id].start)
  BY <1>1, <1>2, WalkStays DEF WalkNames
<1>5. WalkOK(c) /\ cursorN \in Nat
  BY DEF Walking
<1>6. cmd[c].name = "scan" /\ call[c].at = "read" =>
        kept'[c]["scan"] \subseteq walk[c].got \cup Ahead(call[c].start)
  BY <1>3, <1>5, Zenon DEF WalkOK
<1>7. cmd[c].name = "keys" /\ call[c].at = "read" =>
        kept'[c]["keys"] \subseteq cmd[c].got \cup Ahead(call[c].start)
  BY <1>3, <1>5, Zenon DEF WalkOK
<1>8. ASSUME cmd[c].name = "keys", call[c].at = "resume"
      PROVE  /\ call[c].id \in 1..cursorN'
             /\ call[c].id \in DOMAIN cursors' =>
                  kept'[c]["keys"] \subseteq cmd[c].got \cup Ahead(cursors'[call[c].id].start)
  <2>1. call[c].id \in 1..cursorN
    BY <1>5, <1>8, Zenon DEF WalkOK
  <2>2. call[c].id \in DOMAIN cursors =>
          kept[c]["keys"] \subseteq cmd[c].got \cup Ahead(cursors[call[c].id].start)
    BY <1>5, <1>8, Zenon DEF WalkOK
  <2>3. call[c].id \in 1..cursorN' /\ call[c].id <= cursorN
    BY <1>5, <2>1 DEF Grown
  <2>4. call[c].id \in DOMAIN cursors' =>
          call[c].id \in DOMAIN cursors /\ cursors'[call[c].id] = cursors[call[c].id]
    BY <2>3, Zenon DEF Grown
  <2> QED BY <1>3, <2>2, <2>3, <2>4
<1>9. cmd[c].name = "scan" /\ call[c].at = "resume" => call[c].id = walk[c].id
  BY <1>5, Zenon DEF WalkOK
<1> QED BY <1>1, <1>4, <1>6, <1>7, <1>8, <1>9, Zenon DEF WalkOK

\* A client that walks no longer, or not yet.
LEMMA WalkOff ==
  ASSUME Walking, Grown, Watch, NEW c \in Clients, cmd'[c].name \notin WalkNames,
         walk'[c] = walk[c] \/ walk'[c].id = 0
  PROVE  WalkOK(c)'
<1>1. ~Begins(c, "scan")
  BY DEF Begins, WalkNames
<1>2. cmd'[c].name # "scan" /\ cmd'[c].name # "keys"
  BY DEF WalkNames
<1> QED BY <1>1, <1>2, WalkStays, Zenon DEF WalkOK

\* A client that steps is inside a call, and a scan has its own steps.
LEMMA StepInCall ==
  ASSUME Base, NEW a \in Clients, Step(a)
  PROVE  /\ call[a].at # "idle" /\ cmd[a] # Idle /\ Running(cmd[a]) /\ Phase(cmd[a], call[a])
         /\ CallOK(call[a])
         /\ call[a].op = "scan" => Errs(a) \/ CursorFound(a) \/ CursorRefused(a) \/ Scanned(a)
<1>1. /\ Locks(a) => call[a].at = "lock"
      /\ Reads(a) => call[a].at = "read" /\ call[a].op = "get"
      /\ UpdateFn(a) => call[a].at = "read" /\ call[a].op = "update"
      /\ Writes(a) => call[a].at = "write"
  BY LockEffect, ReadsEffect, UpdateFnEffect, WritesEffect, Zenon
<1>2. /\ Errs(a) => call[a].at \in {"read", "write"}
      /\ CursorFound(a) => call[a].at = "resume"
      /\ CursorRefused(a) => call[a].at = "resume"
      /\ Scanned(a) => call[a].at = "read"
  BY ErrsEffect, CursorFoundEffect, CursorRefusedEffect, ScannedEffect, Zenon
<1>3. call[a].at # "idle"
  BY <1>1, <1>2 DEF Step
<1>4. cmd[a] # Idle /\ Running(cmd[a]) /\ Phase(cmd[a], call[a]) /\ CallOK(call[a])
  BY <1>3, InCall, SMTT(60)
<1>5. call[a].op = "scan" => call[a].at \in {"read", "resume"}
  BY <1>4 DEF CallOK
<1>6. call[a].op = "scan" => ~Locks(a) /\ ~Reads(a) /\ ~UpdateFn(a) /\ ~Writes(a)
  BY <1>1, <1>5
<1> QED BY <1>3, <1>4, <1>6, Zenon DEF Step

\* Outside a scan no step begins or continues a walk.
LEMMA NotWalking ==
  ASSUME Base, NEW a \in Clients, Step(a), call[a].op # "scan"
  PROVE  cmd'[a].name \notin WalkNames
<1>1. cmd[a] # Idle /\ cmd[a].name \notin WalkNames
  BY StepInCall, Zenon DEF Phase
<1>2. ASSUME NEW m, NEW r, NEW g, GoesOn(m, r, g), cmd'[a] = g.cmd, Brought(a, m, r)
      PROVE  cmd'[a].name \notin WalkNames
  <2>1. m = cmd[a] /\ g.cmd.name = m.name
    BY <1>1, <1>2, Zenon DEF Brought, GoesOn
  <2> QED BY <1>1, <1>2, <2>1, Zenon
<1> QED BY <1>1, <1>2, IdleName, HandlerMoves, Zenon

\* A walk begins at the first key, or goes on from the cursor it was given.
LEMMA WalkDispatch ==
  ASSUME Base, Walking, Grown, Watch, NEW a \in Clients, Dispatch(a)
  PROVE  WalkOK(a)'
<1>1. walk' = walk /\ cmd[a] = Idle
  BY DispatchEffect, Zenon
<1>2. PICK m : /\ Running(m) /\ m.i = 0 /\ (m.name = "scan" => m.n = walk[a].id)
               /\ Resumes(a, m, Absent)
               /\ call'[a] = Handler(m, Absent, NoPage, 0).call
               /\ cmd'[a] = Handler(m, Absent, NoPage, 0).cmd
  BY DispatchEffect, Zenon
<1>3. CASE cmd'[a].name \notin WalkNames
  BY <1>1, <1>3, WalkOff, Zenon
<1>4. ASSUME cmd'[a].name \in WalkNames
      PROVE  /\ cmd'[a].name = m.name /\ cmd'[a].n = m.n
  <2>1. PICK g : Outcome(m, Absent, g) /\ cmd'[a] = g.cmd
    BY <1>2, Zenon DEF Resumes
  <2>2. g # Replied
    BY <1>4, <2>1, IdleName, RepliedParts, ZenonT(60)
  <2> QED BY <2>1, <2>2 DEF Outcome, GoesOn
<1>5. \A k \in Keys : k >= 0
  BY LsmClientAssumption
<1>6. ASSUME NEW w \in WalkNames PROVE kept'[a][w] \subseteq Ahead(0)
  <2>1. kept'[a][w] \subseteq Live'
    BY <1>6, KeptShrinks
  <2> QED BY <1>5, <2>1 DEF Live, Ahead
<1>7. CASE cmd'[a].name = "scan"
  <2>1. m.name = "scan" /\ m.n = walk[a].id /\ cmd'[a].n = walk[a].id
    BY <1>2, <1>4, <1>7, Zenon DEF WalkNames
  <2>2. Handler(m, Absent, NoPage, 0) = Goes(At(m, 1), Scan(m.n, 1))
    <3>1. m.name = "scan" /\ m.i = 0
      BY <1>2, <2>1, Zenon
    <3> QED BY <3>1, WalkArms, Zenon
  <2>3. call'[a] = Scan(walk[a].id, 1)
    <3>1. call'[a] = Handler(m, Absent, NoPage, 0).call /\ m.n = walk[a].id
      BY <1>2, <2>1, Zenon
    <3>2. Goes(At(m, 1), Scan(m.n, 1)).call = Scan(m.n, 1)
      BY GoesParts, Zenon
    <3> QED BY <2>2, <3>1, <3>2, Zenon
  <2>4. /\ call'[a].at = (IF walk[a].id = 0 THEN "read" ELSE "resume")
        /\ call'[a].id = walk[a].id /\ call'[a].start = 0
    BY <2>3, ScanFacts
  <2>5. ~Begins(a, "scan") \/ walk[a].id = 0
    BY <2>1 DEF Begins
  <2>6. /\ \A w \in WalkNames : kept'[a][w] \subseteq Live'
        /\ walk'[a].id \in 0..cursorN'
        /\ walk'[a].id \in DOMAIN cursors' =>
             kept'[a]["scan"] \subseteq walk'[a].got \cup Ahead(cursors'[walk'[a].id].start)
    BY <1>1, <2>5, WalkStays, Zenon
  <2>7. kept'[a]["scan"] \subseteq walk'[a].got \cup Ahead(call'[a].start)
    BY <1>6, <2>4 DEF WalkNames
  <2> QED BY <1>1, <1>7, <2>4, <2>6, <2>7, Zenon DEF WalkOK
<1>8. CASE cmd'[a].name = "keys"
  <2>1. m.name = "keys"
    BY <1>4, <1>8 DEF WalkNames
  <2>2. Handler(m, Absent, NoPage, 0) = Goes(At(m, 1), Scan(0, PageSize))
    <3>1. Handler(m, Absent, NoPage, 0) = cmdKeys(m, NoPage, 0)
      BY <2>1, WalkArms, ZenonT(60)
    <3> QED BY <1>2, <3>1 DEF cmdKeys
  <2>3. call'[a] = Scan(0, PageSize)
    <3>1. call'[a] = Handler(m, Absent, NoPage, 0).call
      BY <1>2, Zenon
    <3>2. Goes(At(m, 1), Scan(0, PageSize)).call = Scan(0, PageSize)
      BY GoesParts, Zenon
    <3> QED BY <2>2, <3>1, <3>2, Zenon
  <2>4. call'[a].at = "read" /\ call'[a].start = 0
    BY <2>3, ScanFacts
  <2>5. ~Begins(a, "scan")
    BY <1>8 DEF Begins
  <2>6. /\ \A w \in WalkNames : kept'[a][w] \subseteq Live'
        /\ walk'[a].id \in 0..cursorN'
        /\ walk'[a].id \in DOMAIN cursors' =>
             kept'[a]["scan"] \subseteq walk'[a].got \cup Ahead(cursors'[walk'[a].id].start)
    BY <1>1, <2>5, WalkStays, Zenon
  <2>7. kept'[a]["keys"] \subseteq cmd'[a].got \cup Ahead(call'[a].start)
    BY <1>6, <2>4 DEF WalkNames
  <2> QED BY <1>8, <2>4, <2>6, <2>7, Zenon DEF WalkOK
<1> QED BY <1>3, <1>7, <1>8 DEF WalkNames

\* The cursor is found: the walk goes on from where its last page ended.
LEMMA WalkFound ==
  ASSUME Base, Walking, Grown, Watch, NEW a \in Clients, CursorFound(a)
  PROVE  WalkOK(a)'
<1>1. /\ walk' = walk /\ cmd' = cmd /\ call[a].at = "resume" /\ call[a].id \in DOMAIN cursors
      /\ call'[a].at = "read" /\ call'[a].start = cursors[call[a].id].start
  BY CursorFoundEffect, Zenon
<1>2. \A w \in WalkNames : ~Begins(a, w)
  BY <1>1, IdleName DEF Begins
<1>3. kept'[a]["scan"] \subseteq kept[a]["scan"] /\ kept'[a]["keys"] \subseteq kept[a]["keys"]
  BY <1>2, KeptShrinks, SMTT(60) DEF WalkNames
<1>4. /\ \A w \in WalkNames : kept'[a][w] \subseteq Live'
      /\ walk'[a].id \in 0..cursorN'
      /\ walk'[a].id \in DOMAIN cursors' =>
           kept'[a]["scan"] \subseteq walk'[a].got \cup Ahead(cursors'[walk'[a].id].start)
  BY <1>1, <1>2, WalkStays DEF WalkNames
<1>5. WalkOK(a)
  BY Zenon DEF Walking
<1>6. cmd[a].name = "scan" => kept'[a]["scan"] \subseteq walk[a].got \cup Ahead(call'[a].start)
  <2>1. cmd[a].name = "scan" =>
          kept[a]["scan"] \subseteq walk[a].got \cup Ahead(cursors[call[a].id].start)
    BY <1>1, <1>5, Zenon DEF WalkOK
  <2> QED BY <1>1, <1>3, <2>1
<1>7. cmd[a].name = "keys" => kept'[a]["keys"] \subseteq cmd[a].got \cup Ahead(call'[a].start)
  <2>1. cmd[a].name = "keys" =>
          kept[a]["keys"] \subseteq cmd[a].got \cup Ahead(cursors[call[a].id].start)
    BY <1>1, <1>5, Zenon DEF WalkOK
  <2> QED BY <1>1, <1>3, <2>1
<1> QED BY <1>1, <1>4, <1>6, <1>7, Zenon DEF WalkOK

\* A page arrives: what the walk has still to return is in it or behind the
\* next cursor, and nothing is left when there is no next cursor.
LEMMA WalkScanned ==
  ASSUME Base, Walking, Grown, Watch, NEW a \in Clients, Scanned(a), ~short
  PROVE  WalkOK(a)' /\ ~short'
<1> DEFINE m == cmd[a]
<1> DEFINE x == call[a]
<1> DEFINE page == Page(x.start, x.count)
<1> DEFINE id == IF page.next = 0 THEN 0 ELSE cursorN'
<1> DEFINE had == IF m.name = "scan" THEN walk[a].got ELSE m.got
<1> DEFINE got == page.keys \cup had
<1>1. /\ x.op = "scan" /\ x.at = "read" /\ Resumes(a, m, Absent) /\ nextCursor(page)
      /\ call'[a] = Handler(m, Absent, page, id).call
      /\ cmd'[a] = Handler(m, Absent, page, id).cmd
      /\ walk'[a] = IF m.name = "scan" THEN [id |-> id, got |-> IF id = 0 THEN {} ELSE got]
                    ELSE walk[a]
      /\ short' => short \/ (m.name \in WalkNames /\ page.next = 0 /\ ~(kept[a][m.name] \subseteq got))
  BY ScannedEffect, ZenonT(60)
<1>2. Running(m) /\ Phase(m, x) /\ m # Idle
  BY <1>1, InCall, Zenon
<1>3. WalkOK(a) /\ cursorN \in Nat /\ DOMAIN cursors \subseteq 1..cursorN
  BY DEF Walking
<1>4. page.next # 0 => /\ cursorN' = cursorN + 1 /\ cursorN' \in DOMAIN cursors'
                       /\ cursors'[cursorN'].start = page.next
  BY <1>1, <1>3, NewCursor, ZenonT(60)
<1>5. ASSUME m.name \in WalkNames, NEW k \in kept[a][m.name]
      PROVE  k \in got \/ (page.next # 0 /\ k \in Ahead(page.next))
  <2>1. k \in Live /\ k \in Keys
    BY <1>3, <1>5, ZenonT(60) DEF WalkOK, Live
  <2>2. k \in had \cup Ahead(x.start)
    BY <1>1, <1>3, <1>5, Zenon DEF WalkOK, WalkNames
  <2>3. k \in Ahead(x.start) => k >= x.start
    BY DEF Ahead
  <2>4. k \in Ahead(x.start) => k \in page.keys \/ (page.next \in Nat \ {0} /\ k >= page.next)
    BY <2>1, <2>3, PageCovers, Zenon
  <2> QED BY <2>1, <2>2, <2>4, Zenon DEF Ahead
<1> HIDE DEF page
<1>6. ~short'
  <2>1. ASSUME m.name \in WalkNames, page.next = 0 PROVE kept[a][m.name] \subseteq got
    BY <1>5, <2>1
  <2> QED BY <1>1, <2>1, Zenon
<1>7. \A w \in WalkNames : ~Begins(a, w)
  BY <1>2, Zenon DEF Begins
<1>8. \A w \in WalkNames : kept'[a][w] \subseteq kept[a][w] /\ kept'[a][w] \subseteq Live'
  BY <1>7, KeptShrinks
<1>9. page.next # 0 => id = cursorN' /\ id # 0 /\ id \in 1..cursorN'
  BY <1>3, <1>4, SMTT(60)
<1>10. m.name \in WalkNames /\ page.next # 0 =>
         kept'[a][m.name] \subseteq got \cup Ahead(cursors'[id].start)
  BY <1>4, <1>5, <1>8, <1>9, Zenon
<1> HIDE DEF id, had, got
<1>11. CASE m.name = "scan"
  <2>1. m.i = 1
    BY <1>2, <1>11, Zenon DEF Phase, WalkNames
  <2>2. Handler(m, Absent, page, id) = Replied
    BY <1>11, <2>1, WalkArms, ZenonT(60)
  <2>3. cmd'[a] = Idle
    BY <1>1, <2>2, RepliedParts, ZenonT(60)
  <2>4. cmd'[a].name # "scan" /\ cmd'[a].name # "keys"
    <3>1. cmd'[a].name = "idle"
      BY <2>3, IdleName, Zenon
    <3> QED BY <3>1
  <2>5. walk'[a].id = id /\ (id # 0 => walk'[a].got = got)
    <3> DEFINE some == IF id = 0 THEN {} ELSE got
    <3>1. walk'[a] = [id |-> id, got |-> some]
      BY <1>1, <1>11, ZenonT(60)
    <3>2. id # 0 => some = got
      BY Zenon
    <3> HIDE DEF some
    <3>3. [id |-> id, got |-> some].id = id /\ [id |-> id, got |-> some].got = some
      OBVIOUS
    <3> QED BY <3>1, <3>2, <3>3, ZenonT(60)
  <2>6. id = 0 \/ page.next # 0
    BY DEF id
  <2>7. 0 \notin DOMAIN cursors'
    BY DEF Grown
  <2>8. walk'[a].id \in 0..cursorN'
    BY <1>9, <2>5, <2>6, SMTT(60) DEF Grown
  <2>9. walk'[a].id \in DOMAIN cursors' =>
          kept'[a]["scan"] \subseteq walk'[a].got \cup Ahead(cursors'[walk'[a].id].start)
    BY <1>9, <1>10, <1>11, <2>5, <2>6, <2>7, Zenon DEF WalkNames
  <2>10. WalkOK(a)'
    BY <1>8, <2>4, <2>8, <2>9, Zenon DEF WalkOK
  <2> QED BY <1>6, <2>10, Zenon
<1>12. CASE m.name = "keys"
  <2>1. m.i = 1 /\ walk'[a] = walk[a]
    BY <1>1, <1>2, <1>12, Zenon DEF Phase, WalkNames
  <2>2. Handler(m, Absent, page, id) = cmdKeys(m, page, id)
    BY <1>12, WalkArms, ZenonT(60)
  <2>3. \/ Handler(m, Absent, page, id) = Replied
        \/ page.next # 0 /\ Handler(m, Absent, page, id) = Goes(Gathering(m, page.keys), Scan(id, PageSize))
    BY <2>1, <2>2 DEF cmdKeys
  <2>4. CASE Handler(m, Absent, page, id) = Replied
    <3>1. cmd'[a] = Idle
      BY <1>1, <2>4, RepliedParts, ZenonT(60)
    <3>2. WalkOK(a)'
      BY <2>1, <3>1, IdleName, WalkOff
    <3> QED BY <1>6, <3>2
  <2>5. CASE /\ page.next # 0
             /\ Handler(m, Absent, page, id) = Goes(Gathering(m, page.keys), Scan(id, PageSize))
    <3>1. cmd'[a] = Gathering(m, page.keys) /\ call'[a] = Scan(id, PageSize)
      <4> DEFINE h == Handler(m, Absent, page, id)
                 u == Gathering(m, page.keys)
                 v == Scan(id, PageSize)
      <4>1. cmd'[a] = h.cmd /\ call'[a] = h.call
        BY <1>1, Zenon
      <4>2. h = Goes(u, v)
        BY <2>5, Zenon
      <4> HIDE DEF h, u, v
      <4>3. Goes(u, v).cmd = u /\ Goes(u, v).call = v
        BY GoesParts, Zenon
      <4>4. cmd'[a] = u /\ call'[a] = v
        BY <4>1, <4>2, <4>3, Zenon
      <4> QED BY <4>4, Zenon DEF u, v
    <3>2. cmd'[a].name = "keys" /\ cmd'[a].got = m.got \cup page.keys
      <4>1. /\ Gathering(m, page.keys).name = m.name
            /\ Gathering(m, page.keys).got = m.got \cup page.keys
        BY <1>2, Gathered, Zenon
      <4> QED BY <1>12, <3>1, <4>1, ZenonT(60)
    <3>3. call'[a].id = id /\ call'[a].at = "resume"
      <4>1. id # 0
        BY <1>9, <2>5, Zenon
      <4>2. Scan(id, PageSize).id = id /\ Scan(id, PageSize).at = "resume"
        BY <4>1, ResumeFacts, Zenon
      <4> QED BY <3>1, <4>2, Zenon
    <3>4. got = m.got \cup page.keys
      BY <1>12, Zenon DEF got, had
    <3>5. /\ \A w \in WalkNames : kept'[a][w] \subseteq Live'
          /\ walk'[a].id \in 0..cursorN'
          /\ walk'[a].id \in DOMAIN cursors' =>
               kept'[a]["scan"] \subseteq walk'[a].got \cup Ahead(cursors'[walk'[a].id].start)
      BY <1>7, <2>1, WalkStays, Zenon DEF WalkNames
    <3>6. kept'[a]["keys"] \subseteq cmd'[a].got \cup Ahead(cursors'[call'[a].id].start)
      BY <1>10, <1>12, <2>5, <3>2, <3>3, <3>4, Zenon DEF WalkNames
    <3>7. call'[a].id \in 1..cursorN'
      BY <1>9, <2>5, <3>3
    <3>8. WalkOK(a)'
      BY <3>2, <3>3, <3>5, <3>6, <3>7, Zenon DEF WalkOK
    <3> QED BY <1>6, <3>8
  <2> QED BY <2>3, <2>4, <2>5, ZenonT(60)
<1>13. CASE m.name \notin WalkNames
  <2>1. walk'[a] = walk[a]
    BY <1>1, <1>13 DEF WalkNames
  <2>2. cmd'[a].name \notin WalkNames
    <3>1. PICK g : Outcome(m, Absent, g) /\ cmd'[a] = g.cmd
      BY <1>1, Zenon DEF Resumes
    <3>2. g = Replied => cmd'[a] = Idle
      BY <3>1 DEF Replied, Goes
    <3> QED BY <1>13, <3>1, <3>2, IdleName, Zenon DEF Outcome, GoesOn
  <2>3. WalkOK(a)'
    BY <2>1, <2>2, WalkOff, Zenon
  <2> QED BY <1>6, <2>3
<1> QED BY <1>11, <1>12, <1>13 DEF WalkNames

\* Every step keeps the walks whole, and none ends short.
LEMMA WalkingStep ==
  ASSUME Base, Walking, ~short, Next
  PROVE  Walking' /\ ~short'
<1>1. Grown /\ Watch
  BY CursorsGrow, Roles, Zenon DEF Walking
<1>2. ASSUME NEW a \in Clients, Step(a), ~Scanned(a) PROVE WalkOK(a)' /\ short' = short
  <2>1. short' = short /\ (walk' = walk \/ CursorRefused(a))
    <3>1. Locks(a) \/ Reads(a) \/ UpdateFn(a) => short' = short /\ walk' = walk
      BY LockEffect, ReadsEffect, UpdateFnEffect, Zenon
    <3>2. Writes(a) \/ Errs(a) \/ CursorFound(a) => short' = short /\ walk' = walk
      BY WritesEffect, ErrsEffect, CursorFoundEffect, Zenon
    <3>3. CursorRefused(a) => short' = short
      BY CursorRefusedEffect, Zenon
    <3> QED BY <1>2, <3>1, <3>2, <3>3, Zenon DEF Step
  <2>2. CASE CursorFound(a)
    BY <1>1, <2>1, <2>2, WalkFound, Zenon
  <2>3. CASE CursorRefused(a) \/ Errs(a)
    <3>1. cmd'[a] = Idle /\ (walk'[a] = walk[a] \/ walk'[a].id = 0)
      BY <2>1, <2>3, CursorRefusedEffect, ErrsEffect, Zenon
    <3> QED BY <1>1, <2>1, <3>1, IdleName, WalkOff, Zenon
  <2>4. CASE ~CursorFound(a) /\ ~CursorRefused(a) /\ ~Errs(a)
    <3>1. call[a].op # "scan"
      BY <1>2, <2>4, StepInCall, Zenon
    <3>2. cmd'[a].name \notin WalkNames
      BY <1>2, <3>1, NotWalking, Zenon
    <3> QED BY <1>1, <2>1, <2>4, <3>2, WalkOff, Zenon
  <2> QED BY <2>2, <2>3, <2>4, Zenon
<1>3. ASSUME NEW a \in Clients, Dispatch(a) PROVE WalkOK(a)' /\ short' = short
  BY <1>1, <1>3, WalkDispatch, DispatchEffect, Zenon
<1>4. ASSUME NEW c \in Clients PROVE WalkOK(c)'
  BY <1>1, <1>2, <1>3, Roles, WalkAside, WalkScanned, Zenon
<1>5. ~short'
  <2>1. Engine => short' = short
    BY Zenon DEF Engine
  <2> QED BY <1>1, <1>2, <1>3, <2>1, WalkScanned, Zenon DEF Next
<1> QED BY <1>1, <1>4, <1>5, Zenon DEF Walking, Grown

-----------------------------------------------------------------------------
(* The invariant and what it gives. *)

\* The invariant holds at the start.
LEMMA InvInit ==
  Init => CommandsInv
<1> SUFFICES ASSUME Init PROVE CommandsInv
  OBVIOUS
<1>1. /\ Base /\ now = 1 /\ cursors = <<>> /\ cursorN = 0 /\ ~short
      /\ \A c \in Clients : call[c] = NoCall /\ cmd[c] = Idle /\ walk[c] = [id |-> 0, got |-> {}]
      /\ \A c \in Clients : kept[c] = [w \in WalkNames |-> {}]
      /\ \A k \in Keys : created[k] = 0
  BY BaseInit, Zenon DEF Init, ClientInit
<1>2. \A c \in Clients : call[c].op # "update" /\ call[c].at # "write"
  BY <1>1, NoCallFacts, Zenon
<1>3. UpdateIsAtomic /\ \A k \in Keys : CreatedOnce(k)
  BY <1>1, <1>2, Zenon DEF UpdateIsAtomic, CreatedOnce, Creating
<1>4. ASSUME NEW c \in Clients PROVE MovedRecord(c) /\ SeenMissing(c) /\ WalkOK(c)
  <2>1. cmd[c].name \notin Renaming /\ cmd[c].name # "msetnx" /\ cmd[c].name \notin WalkNames
    BY <1>1, IdleName, Zenon
  <2>2. walk[c].id = 0 /\ 0 \notin DOMAIN cursors /\ \A w \in WalkNames : kept[c][w] = {}
    BY <1>1, SMTT(60)
  <2>3. WalkOK(c)
    BY <1>1, <2>1, <2>2, SMTT(60) DEF WalkOK, WalkNames
  <2> QED BY <2>1, <2>3, Zenon DEF MovedRecord, SeenMissing
<1>5. Walking
  BY <1>1, <1>4 DEF Walking
<1> QED BY <1>1, <1>3, <1>4, <1>5, Zenon DEF CommandsInv

\* Every step keeps the invariant.
LEMMA InvStep ==
  CommandsInv /\ [Next]_vars => CommandsInv'
<1> SUFFICES ASSUME CommandsInv, [Next]_vars PROVE CommandsInv'
  OBVIOUS
<1> USE DEF CommandsInv
<1>1. CASE Next
  <2>1. Base'
    BY BaseStep
  <2>2. UpdateIsAtomic'
    BY <1>1, UpdateIsAtomicStep, Zenon
  <2>3. \A c \in Clients : MovedRecord(c)' /\ SeenMissing(c)'
    BY <1>1, MovedRecordStep, SeenMissingStep
  <2>4. \A k \in Keys : CreatedOnce(k)'
    BY <1>1, CreatedOnceStep, Zenon
  <2>5. Walking' /\ ~short'
    BY <1>1, WalkingStep, Zenon
  <2> QED BY <2>1, <2>2, <2>3, <2>4, <2>5, Zenon
<1>2. CASE UNCHANGED vars
  <2>1. Base'
    BY BaseStep
  <2>2. UNCHANGED <<db, now, call, cmd, walk, touched, kept, created, cursors, cursorN, short>>
    BY <1>2, Zenon DEF vars, clientVars
  <2>3. \A k : Visible(k)' = Visible(k)
    BY <2>2, Zenon DEF Visible
  <2>4. Live' = Live
    BY <2>3, Zenon DEF Live
  <2>5. UpdateIsAtomic'
    BY <2>2, Zenon DEF UpdateIsAtomic, Visible
  <2>6. \A c \in Clients : MovedRecord(c)' /\ SeenMissing(c)'
    BY <2>2, ZenonT(60) DEF MovedRecord, SeenMissing, Undisturbed, Visible
  <2>7. \A k \in Keys : CreatedOnce(k)'
    BY <2>2, Zenon DEF CreatedOnce, Creating, Creates, Visible
  <2>8. Walking' /\ ~short'
    BY <2>2, <2>4, Zenon DEF Walking, WalkOK
  <2> QED BY <2>1, <2>5, <2>6, <2>7, <2>8, Zenon
<1> QED BY <1>1, <1>2

\* CommandsInv is an invariant of the commands, for any clients, keys and
\* stripes: the calls in progress match their handlers, and each holds its
\* stripes.
THEOREM CommandsInvHolds ==
  Spec => []CommandsInv
BY InvInit, InvStep, PTL DEF Spec

\* Store.Update is an atomic read-modify-write for any number of clients, keys
\* and stripes: when its write goes out the key holds what the function was
\* given, unless FLUSHALL or a request that outlived its deadline came between.
THEOREM UpdateIsAtomicHolds ==
  Spec => []UpdateIsAtomic
<1>1. CommandsInv => UpdateIsAtomic
  BY Zenon DEF CommandsInv
<1> QED BY <1>1, CommandsInvHolds, PTL

\* RENAME and RENAMENX never drop the record they move, whatever else runs.
THEOREM RenameKeepsValueHolds ==
  Spec => []RenameKeepsValue
<1>1. CommandsInv => RenameKeepsValue
  <2> SUFFICES ASSUME CommandsInv, NEW c \in Clients, cmd[c].name \in Renaming, cmd[c].i >= 2,
                      Undisturbed(c, cmd[c].keys[1]), Undisturbed(c, cmd[c].keys[2])
               PROVE  cmd[c].rec \in {db[cmd[c].keys[1]], db[cmd[c].keys[2]]}
    BY DEF RenameKeepsValue, Renaming
  <2>1. Running(cmd[c]) /\ MovedRecord(c)
    BY IdleName, ZenonT(60) DEF CommandsInv, Base, ClientOK
  <2>2. cmd[c].i = 2 \/ cmd[c].i = 3
    BY <2>1 DEF Running, Renaming, TwoKeys
  <2> QED BY <2>1, <2>2, SMTT(60) DEF MovedRecord
<1> QED BY <1>1, CommandsInvHolds, PTL

\* At most one client is told it created a key until the key is gone again,
\* and MSETNX writes only over keys it has seen missing.
THEOREM CreatesOnlyMissingHolds ==
  Spec => []CreatesOnlyMissing
<1>1. CommandsInv => OneCreator
  BY SMTT(60) DEF CommandsInv, CreatedOnce, OneCreator
<1>2. CommandsInv => MSetNXSawNone
  <2> SUFFICES ASSUME CommandsInv, NEW c \in Clients, cmd[c].name = "msetnx", call[c].op = "multi",
                      NEW k \in Range(cmd[c].keys), Undisturbed(c, k)
               PROVE  ~Visible(k).found
    BY DEF MSetNXSawNone
  <2>1. Running(cmd[c]) /\ Phase(cmd[c], call[c]) /\ CallOK(call[c]) /\ SeenMissing(c)
    BY IdleName, ZenonT(60) DEF CommandsInv, Base, ClientOK
  <2>2. cmd[c].i > Len(cmd[c].keys) /\ cmd[c].keys \in Seq(Keys) /\ cmd[c].i \in Nat
    BY <2>1, PhaseFacts, ZenonT(60)
  <2>3. PICK j \in 1..Len(cmd[c].keys) : k = cmd[c].keys[j]
    BY <2>2 DEF Range
  <2>4. j < cmd[c].i
    BY <2>2, <2>3
  <2> QED BY <2>1, <2>3, <2>4, SMTT(60) DEF SeenMissing
<1> QED BY <1>1, <1>2, CommandsInvHolds, PTL DEF CreatesOnlyMissing

\* A SCAN walk or a KEYS that runs to its end has returned every key that was
\* live all along, whatever writers, other walks and RANDOMKEY did meanwhile.
THEOREM WalkMissesNothingHolds ==
  Spec => []WalkMissesNothing
<1>1. CommandsInv => WalkMissesNothing
  BY DEF CommandsInv, WalkMissesNothing
<1> QED BY <1>1, CommandsInvHolds, PTL
=============================================================================
