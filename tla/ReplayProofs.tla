----------------------------- MODULE ReplayProofs -----------------------------
(***************************************************************************)
(* Proofs about Replay, and about the executions it is built on: what an   *)
(* execution is said to have come to is what happened, a candidate store   *)
(* that reads cleanly has every appended trajectory once, and what         *)
(* compares as an improvement is one.                                      *)
(***************************************************************************)
EXTENDS Replay, SequenceTheorems, FiniteSetTheorems, WellFoundedInduction, TLAPS

-----------------------------------------------------------------------------
\* The inductive invariant.

Executions ==
  [pc: {"idle", "polling", "result", "terminate", "collect", "returned", "raised"},
   real: {"absent", Running} \cup Ended, asked: BOOLEAN, expired: BOOLEAN,
   answer: {NoAnswer, "absent", "running", "succeeded", "failed", "cancelled", "timed_out",
            "unavailable"}]

\* What holds of the execution of `d` while it is waited for: it was started,
\* only a remote one is stopped and only a local one cannot be run, it is
\* cancelled after its deadline alone, and a local one has ended when its result
\* is collected.
WaitOf(d, e) ==
  /\ d \in Remote => e.real # "unavailable"
  /\ d \notin Remote => e.real # "stopped"
  /\ e.pc \in {"polling", "result", "terminate", "collect"} => e.real # "absent"
  /\ e.pc \in {"polling", "result"} => e.asked = FALSE
  /\ e.pc = "result" => e.real # Running
  /\ e.pc = "terminate" => e.expired = TRUE /\ d \notin Remote
  /\ e.pc = "collect" => e.expired = TRUE /\ (d \in Remote \/ e.real # Running)
  /\ e.pc = "returned" =>
       \/ e.answer = "succeeded" /\ e.real = "succeeded"
       \/ e.answer = "failed" /\ e.real \in {"failed", "unavailable"}
       \/ e.answer = "cancelled" /\ d \in Remote /\ e.real = "stopped"
       \/ e.answer = "timed_out" /\ e.expired = TRUE /\ (d \in Remote \/ e.real # Running)

Good(d, e) == e \in Executions /\ WaitOf(d, e)

ExecutionInv ==
  /\ execution \in [Drivers -> Executions]
  /\ \A d \in Drivers : WaitOf(d, execution[d])

Lines == [id: Nat, of: Baselines \cup {NoBaseline, "spoilt"},
          metrics: Metrics \cup {NoTrajectory.metrics}]
Replays == [pc: {"idle", "execute", "holding", "append", "kept"},
            of: Baselines \cup {NoBaseline}, held: Lines]

Holds(d) == replay[d].pc \in {"holding", "append", "kept"}

\* Trajectories are numbered as they are captured: those that are held are
\* distinct, and so are the lines of the store from what is yet to come.
NumbersInv ==
  /\ \A d \in Drivers : Holds(d) => replay[d].held.id \in 1..captured
  /\ \A d, e \in Drivers : Holds(d) /\ Holds(e) /\ d # e => replay[d].held.id # replay[e].held.id
  /\ \A i \in DOMAIN store : store[i].id \in 0..captured

\* A store that reads cleanly has what was kept, has not what is about to be
\* appended, and nothing twice.
StoreInv ==
  Readable =>
    /\ \A d \in Drivers : replay[d].pc = "kept" => \E i \in DOMAIN store : store[i] = replay[d].held
    /\ \A d \in Drivers : replay[d].pc = "append" =>
         \A i \in DOMAIN store : store[i].id # replay[d].held.id
    /\ \A i, j \in DOMAIN store : i # j => store[i].id # store[j].id

ReplayInv ==
  /\ replay \in [Drivers -> Replays] /\ store \in Seq(Lines) /\ captured \in Nat
  /\ open => store # <<>>
  /\ NumbersInv /\ StoreInv

Inv == ExecutionInv /\ ReplayInv

-----------------------------------------------------------------------------
\* The executions.

\* What a step makes of one execution holds of it, so all is well.
LEMMA UpdateKeeps ==
  ASSUME ExecutionInv, NEW d \in Drivers, NEW e, Good(d, e), Update(d, e)
  PROVE  ExecutionInv'
BY DEF ExecutionInv, Good, Update

\* A driver that has not started has nothing to report.
LEMMA NotStartedIsGood ==
  ASSUME NEW d PROVE Good(d, NotStarted)
BY DEF Good, WaitOf, NotStarted, Executions, NoAnswer, Ended, Running

\* start() leaves a running execution, a command that cannot be run, or nothing.
LEMMA LaunchKeeps ==
  ASSUME ExecutionInv, NEW d \in Drivers, Launch(d)
  PROVE  ExecutionInv'
<1>1. PICK e : Good(d, e) /\ Update(d, e)
  <2>1. CASE Update(d, [NotStarted EXCEPT !.pc = "polling", !.real = Running])
    BY <2>1 DEF Good, WaitOf, NotStarted, Executions, NoAnswer, Ended, Running
  <2>2. CASE d \notin Remote /\ Update(d, [NotStarted EXCEPT !.pc = "polling", !.real = "unavailable"])
    BY <2>2 DEF Good, WaitOf, NotStarted, Executions, NoAnswer, Ended, Running
  <2>3. ASSUME NEW real \in {Running, "absent"}, Raise(d, real)
        PROVE  \E e : Good(d, e) /\ Update(d, e)
    <3> DEFINE e == [execution[d] EXCEPT !.pc = "raised", !.real = real]
    <3>1. execution[d] \in Executions /\ real \in {Running, "absent"}
      BY <2>3 DEF ExecutionInv
    <3>2. e \in Executions /\ e.pc = "raised" /\ e.real = real
      BY <3>1 DEF Executions, Running
    <3>3. Good(d, e)
      BY <3>1, <3>2 DEF Good, WaitOf, Running
    <3> QED BY <2>3, <3>3 DEF Raise
  <2> QED BY <2>1, <2>2, <2>3 DEF Launch
<1> QED BY <1>1, UpdateKeeps

\* The loop, its end, and what happens outside of it.
LEMMA WaitKeeps ==
  ASSUME ExecutionInv, NEW d \in Drivers, WaitStep(d) \/ CallRaises(d) \/ Ends(d)
  PROVE  ExecutionInv'
<1> DEFINE c == execution[d]
<1>0. c \in Executions /\ WaitOf(d, c)
  BY DEF ExecutionInv
<1>1. ASSUME PollSeesEnd(d) PROVE \E e : Good(d, e) /\ Update(d, e)
  <2> DEFINE e == [c EXCEPT !.pc = "result"]
  <2>1. e \in Executions /\ e.pc = "result" /\ e.real = c.real /\ e.asked = c.asked
    BY <1>0 DEF Executions
  <2>2. c.pc = "polling" /\ c.real # Running
    BY <1>1 DEF PollSeesEnd, At, Reported
  <2>3. Good(d, e)
    BY <1>0, <2>1, <2>2 DEF Good, WaitOf
  <2> QED BY <1>1, <2>3 DEF PollSeesEnd
<1>2. ASSUME DeadlinePasses(d) PROVE \E e : Good(d, e) /\ Update(d, e)
  <2> DEFINE e == [c EXCEPT !.expired = TRUE]
  <2>1. e \in Executions /\ e.pc = c.pc /\ e.real = c.real /\ e.asked = c.asked
    BY <1>0 DEF Executions
  <2>2. Good(d, e)
    BY <1>0, <1>2, <2>1 DEF Good, WaitOf, DeadlinePasses, At
  <2> QED BY <1>2, <2>2 DEF DeadlinePasses
<1>3. ASSUME Result(d) PROVE \E e : Good(d, e) /\ Update(d, e)
  <2> DEFINE e == [c EXCEPT !.pc = "returned", !.answer = Reported(d)]
  <2>1. /\ c.pc = "result" /\ c.asked = FALSE
        /\ c.real \in {"succeeded", "failed", "stopped", "unavailable"}
        /\ (c.real = "stopped" => d \in Remote) /\ (c.real = "unavailable" => d \notin Remote)
    BY <1>0, <1>3 DEF Result, At, WaitOf, Executions, Ended
  <2>2. Reported(d) = IF c.real = "stopped" THEN "cancelled"
                      ELSE IF c.real = "unavailable" THEN "failed" ELSE c.real
    BY <2>1 DEF Reported, Running
  <2>3. /\ e \in Executions /\ e.pc = "returned" /\ e.real = c.real
        /\ e.answer = Reported(d)
    BY <1>0, <2>1, <2>2 DEF Executions
  <2>4. WaitOf(d, e)
    <3> HIDE DEF e, c
    <3> QED BY <2>1, <2>2, <2>3 DEF WaitOf
  <2> QED BY <1>3, <2>3, <2>4 DEF Result, Good
<1>4. ASSUME CancelLocal(d) PROVE \E e : Good(d, e) /\ Update(d, e)
  <2>0. c.pc = "polling" /\ c.expired = TRUE /\ d \notin Remote
    BY <1>0, <1>4 DEF CancelLocal, At, Executions
  <2>1. CASE c.real = Running
    <3> DEFINE e == [c EXCEPT !.pc = "terminate", !.asked = TRUE]
    <3>1. /\ e \in Executions /\ e.pc = "terminate" /\ e.real = c.real
          /\ e.expired = c.expired
      BY <1>0 DEF Executions
    <3>2. Good(d, e)
      BY <1>0, <2>0, <3>1 DEF Good, WaitOf
    <3> QED BY <1>4, <2>1, <3>2 DEF CancelLocal
  <2>2. CASE c.real # Running
    <3> DEFINE e == [c EXCEPT !.pc = "collect"]
    <3>1. /\ e \in Executions /\ e.pc = "collect" /\ e.real = c.real
          /\ e.expired = c.expired
      BY <1>0 DEF Executions
    <3>2. Good(d, e)
      BY <1>0, <2>0, <2>2, <3>1 DEF Good, WaitOf
    <3> QED BY <1>4, <2>2, <3>2 DEF CancelLocal
  <2> QED BY <2>1, <2>2
<1>5. ASSUME Terminate(d) PROVE \E e : Good(d, e) /\ Update(d, e)
  <2>0. c.pc = "terminate" /\ c.expired = TRUE /\ d \notin Remote
    BY <1>0, <1>5 DEF Terminate, At, WaitOf
  <2>1. ASSUME NEW real,
               real \in IF c.real = Running THEN {"succeeded", "failed"} ELSE {c.real},
               Update(d, [c EXCEPT !.pc = "collect", !.real = real])
        PROVE  \E e : Good(d, e) /\ Update(d, e)
    <3> DEFINE e == [c EXCEPT !.pc = "collect", !.real = real]
    <3>1. /\ real # Running /\ real # "absent" /\ real # "stopped"
          /\ real \in {"succeeded", "failed", "stopped", "unavailable"}
      BY <1>0, <2>0, <2>1 DEF WaitOf, Executions, Running, Ended
    <3>2. /\ e \in Executions /\ e.pc = "collect" /\ e.real = real /\ e.expired = c.expired
      BY <1>0, <3>1 DEF Executions, Ended
    <3>3. Good(d, e)
      BY <2>0, <3>1, <3>2 DEF Good, WaitOf
    <3> QED BY <2>1, <3>3
  <2>2. ASSUME Raise(d, Running) PROVE \E e : Good(d, e) /\ Update(d, e)
    <3> DEFINE e == [c EXCEPT !.pc = "raised", !.real = Running]
    <3>1. e \in Executions /\ e.pc = "raised" /\ e.real = Running
      BY <1>0 DEF Executions, Running
    <3>2. Good(d, e)
      BY <3>1 DEF Good, WaitOf, Running
    <3> QED BY <2>2, <3>2 DEF Raise
  <2> QED BY <1>5, <2>1, <2>2 DEF Terminate
<1>6. ASSUME CancelRemote(d) PROVE \E e : Good(d, e) /\ Update(d, e)
  <2> DEFINE e == [c EXCEPT !.pc = "collect", !.asked = TRUE]
  <2>1. c.pc = "polling" /\ c.expired = TRUE /\ d \in Remote
    BY <1>0, <1>6 DEF CancelRemote, At, Executions
  <2>2. e \in Executions /\ e.pc = "collect" /\ e.real = c.real /\ e.expired = c.expired
    BY <1>0 DEF Executions
  <2>3. Good(d, e)
    BY <1>0, <2>1, <2>2 DEF Good, WaitOf
  <2> QED BY <1>6, <2>3 DEF CancelRemote
<1>7. ASSUME Collect(d) PROVE \E e : Good(d, e) /\ Update(d, e)
  <2> DEFINE e == [c EXCEPT !.pc = "returned", !.answer = "timed_out"]
  <2>1. /\ e \in Executions /\ e.pc = "returned" /\ e.real = c.real /\ e.expired = c.expired
        /\ e.answer = "timed_out" /\ c.pc = "collect"
    BY <1>0, <1>7 DEF Executions, Collect, At
  <2>2. Good(d, e)
    BY <1>0, <2>1 DEF Good, WaitOf
  <2> QED BY <1>7, <2>2 DEF Collect
<1>8. ASSUME CallRaises(d) PROVE \E e : Good(d, e) /\ Update(d, e)
  <2> DEFINE e == [c EXCEPT !.pc = "raised", !.real = c.real]
  <2>1. e \in Executions /\ e.pc = "raised" /\ e.real = c.real
    BY <1>0 DEF Executions
  <2>2. Good(d, e)
    BY <1>0, <2>1 DEF Good, WaitOf
  <2> QED BY <1>8, <2>2 DEF CallRaises, Raise
<1>9. ASSUME Ends(d) PROVE \E e : Good(d, e) /\ Update(d, e)
  <2>1. PICK real : /\ real \in {"succeeded", "failed"} \cup (IF d \in Remote THEN {"stopped"} ELSE {})
                    /\ Update(d, [c EXCEPT !.real = real])
    BY <1>9 DEF Ends
  <2> DEFINE e == [c EXCEPT !.real = real]
  <2>2. c.real = Running /\ real \in Ended /\ real # "unavailable"
        /\ (real = "stopped" => d \in Remote)
    BY <1>9, <2>1 DEF Ends, Ended
  <2>3. /\ e \in Executions /\ e.pc = c.pc /\ e.real = real /\ e.expired = c.expired
        /\ e.asked = c.asked /\ e.answer = c.answer
    BY <1>0, <2>2 DEF Executions
  <2>4. WaitOf(d, e)
    <3> HIDE DEF e, c
    <3> QED BY <1>0, <2>2, <2>3 DEF WaitOf, Running, Ended
  <2> QED BY <2>1, <2>3, <2>4 DEF Good
<1> QED
  BY <1>1, <1>2, <1>3, <1>4, <1>5, <1>6, <1>7, <1>8, <1>9, UpdateKeeps DEF WaitStep

-----------------------------------------------------------------------------
\* The candidate store.

\* A line that does not parse has no number yet.
LEMMA SpoiltLine ==
  Spoilt \in Lines /\ Spoilt.id = 0 /\ NoTrajectory \in Lines
BY DEF Spoilt, NoTrajectory, Lines, NoBaseline

\* The store reads cleanly when each line of it does.
LEMMA ReadableLines == Readable <=> \A i \in DOMAIN store : store[i] # Spoilt
BY DEF Readable, ToSet

\* The same after a step.
LEMMA ReadableLinesNext == Readable' <=> \A i \in DOMAIN store' : store'[i] # Spoilt
BY DEF Readable, ToSet

\* All but the last of a sequence is a prefix of it.
LEMMA FrontIsPrefix ==
  ASSUME NEW S, NEW s \in Seq(S), s # <<>>
  PROVE  /\ Front(s) \in Seq(S)
         /\ DOMAIN Front(s) \subseteq DOMAIN s
         /\ \A i \in DOMAIN Front(s) : Front(s)[i] = s[i]
<1>1. Len(s) \in Nat /\ Len(s) # 0
  BY EmptySeq, LenProperties
<1>2. Len(s) - 1 \in 0..Len(s)
  BY <1>1
<1> QED BY <1>1, <1>2 DEF Front

\* A line is written, and the store reads cleanly only if it did and the line is
\* a whole one: what is written after an open line never makes it readable again.
LEMMA WrittenLine ==
  ASSUME store \in Seq(Lines), open => store # <<>>,
         NEW line \in Lines, NEW cut, Write(line, cut),
         captured \in Nat, line.id \in 0..captured,
         \A i \in DOMAIN store : store[i].id \in 0..captured
  PROVE  /\ store' \in Seq(Lines) /\ store' # <<>>
         /\ \A i \in DOMAIN store' : store'[i].id \in 0..captured
         /\ Readable' => Readable /\ line # Spoilt /\ store' = Append(store, line)
<1>1. CASE store' = Append(store, line)
  <2>1. /\ store' \in Seq(Lines) /\ Len(store') = Len(store) + 1 /\ store'[Len(store) + 1] = line
        /\ \A i \in DOMAIN store : i \in DOMAIN store' /\ store'[i] = store[i]
        /\ \A i \in DOMAIN store' : i \in DOMAIN store \/ i = Len(store) + 1
        /\ Len(store) + 1 \in DOMAIN store' /\ store' # <<>>
    BY <1>1, AppendProperties
  <2>2. Readable' => Readable /\ line # Spoilt
    BY <2>1, ReadableLines, ReadableLinesNext
  <2> QED BY <1>1, <2>1, <2>2
<1>2. CASE store' # Append(store, line)
  <2> DEFINE front == Front(store)
  <2>1. store # <<>> /\ store' = Append(front, Spoilt)
    BY <1>2 DEF Write
  <2>2. front \in Seq(Lines) /\ \A i \in DOMAIN front : i \in DOMAIN store /\ front[i] = store[i]
    BY <2>1, FrontIsPrefix
  <2> HIDE DEF front
  <2>3. /\ store' \in Seq(Lines) /\ store'[Len(front) + 1] = Spoilt
        /\ Len(front) + 1 \in DOMAIN store' /\ store' # <<>>
        /\ \A i \in DOMAIN store' :
             (i \in DOMAIN front /\ store'[i] = front[i]) \/ (i = Len(front) + 1)
    BY <2>1, <2>2, SpoiltLine, AppendProperties
  <2>4. ~Readable'
    BY <2>3, ReadableLinesNext
  <2>5. \A i \in DOMAIN store' : store'[i].id \in 0..captured
    BY <2>2, <2>3, SpoiltLine
  <2> QED BY <2>3, <2>4, <2>5
<1> QED BY <1>1, <1>2

-----------------------------------------------------------------------------
\* The drivers.

Writes(d, r) ==
  /\ r \in Replays /\ replay' \in [Drivers -> Replays] /\ replay'[d] = r
  /\ \A e \in Drivers \ {d} : replay'[e] = replay[e]

\* A step that sets the replay of one driver leaves that of the others.
LEMMA Replaced ==
  ASSUME replay \in [Drivers -> Replays], NEW d \in Drivers, NEW r \in Replays,
         replay' = [replay EXCEPT ![d] = r]
  PROVE  Writes(d, r)
BY DEF Writes

\* A step that leaves the store alone: what the driver holds then it held before,
\* or it has just been given a number of its own; and it appends only what the
\* store has not.
LEMMA QuietStep ==
  ASSUME ReplayInv, NEW d \in Drivers, NEW r, Writes(d, r),
         store' = store, open' = open, captured' \in Nat, captured <= captured',
         r.pc # "kept",
         r.pc \in {"holding", "append"} =>
           /\ r.held.id \in 1..captured'
           /\ (Holds(d) /\ r.held = replay[d].held) \/ captured < r.held.id,
         r.pc = "append" => \A i \in DOMAIN store : store[i].id # r.held.id
  PROVE  ReplayInv'
<1>0. /\ replay \in [Drivers -> Replays] /\ store \in Seq(Lines) /\ captured \in Nat
      /\ open => store # <<>>
      /\ NumbersInv /\ StoreInv
  BY DEF ReplayInv
<1>1. /\ replay'[d] = r /\ r \in Replays /\ \A e \in Drivers \ {d} : replay'[e] = replay[e]
  BY DEF Writes
<1>2. \A e \in Drivers : Holds(e)' => replay'[e].held.id \in 1..captured'
  <2>1. \A e \in Drivers : Holds(e) => replay[e].held.id \in 1..captured
    BY <1>0 DEF NumbersInv
  <2>2. ASSUME NEW e \in Drivers, Holds(e)' PROVE replay'[e].held.id \in 1..captured'
    <3>1. CASE e = d
      BY <1>1, <2>2, <3>1 DEF Holds
    <3>2. CASE e # d
      BY <1>0, <1>1, <2>1, <2>2, <3>2 DEF Holds
    <3> QED BY <3>1, <3>2
  <2> QED BY <2>2
<1>3. \A e, f \in Drivers : (Holds(e)' /\ Holds(f)' /\ e # f) => replay'[e].held.id # replay'[f].held.id
  <2>1. /\ \A e, f \in Drivers : (Holds(e) /\ Holds(f) /\ e # f) => replay[e].held.id # replay[f].held.id
        /\ \A e \in Drivers : Holds(e) => replay[e].held.id \in 1..captured
    BY <1>0 DEF NumbersInv
  <2>2. ASSUME NEW f \in Drivers, f # d, Holds(d)', Holds(f)'
        PROVE  replay'[d].held.id # replay'[f].held.id
    <3>1. Holds(f) /\ replay'[f].held.id = replay[f].held.id /\ replay[f].held.id \in 1..captured
      BY <1>1, <2>1, <2>2 DEF Holds
    <3>2. r.pc \in {"holding", "append"}
      BY <1>1, <2>2 DEF Holds
    <3>3. CASE Holds(d) /\ r.held = replay[d].held
      BY <1>1, <2>1, <2>2, <3>1, <3>3
    <3>4. CASE captured < r.held.id
      BY <1>0, <1>1, <3>1, <3>4
    <3> QED BY <3>2, <3>3, <3>4
  <2>3. ASSUME NEW e \in Drivers, NEW f \in Drivers, e # d, f # d, e # f, Holds(e)', Holds(f)'
        PROVE  replay'[e].held.id # replay'[f].held.id
    BY <1>1, <2>1, <2>3 DEF Holds
  <2> QED BY <2>2, <2>3
<1>4. \A i \in DOMAIN store' : store'[i].id \in 0..captured'
  BY <1>0 DEF NumbersInv
<1>5. Readable' = Readable
  BY DEF Readable
<1>6. StoreInv'
  <2> SUFFICES ASSUME Readable
      PROVE  /\ \A e \in Drivers : replay'[e].pc = "kept" =>
                  \E i \in DOMAIN store : store[i] = replay'[e].held
             /\ \A e \in Drivers : replay'[e].pc = "append" =>
                  \A i \in DOMAIN store : store[i].id # replay'[e].held.id
             /\ \A i, j \in DOMAIN store : i # j => store[i].id # store[j].id
    BY <1>5 DEF StoreInv
  <2>1. /\ \A e \in Drivers : replay[e].pc = "kept" =>
             \E i \in DOMAIN store : store[i] = replay[e].held
        /\ \A e \in Drivers : replay[e].pc = "append" =>
             \A i \in DOMAIN store : store[i].id # replay[e].held.id
        /\ \A i, j \in DOMAIN store : i # j => store[i].id # store[j].id
    BY <1>0 DEF StoreInv
  <2>2. ASSUME NEW e \in Drivers
        PROVE  /\ replay'[e].pc = "kept" => \E i \in DOMAIN store : store[i] = replay'[e].held
               /\ replay'[e].pc = "append" => \A i \in DOMAIN store : store[i].id # replay'[e].held.id
    <3>1. CASE e = d
      BY <1>1, <3>1
    <3>2. CASE e # d
      BY <1>1, <2>1, <3>2
    <3> QED BY <3>1, <3>2
  <2> QED BY <2>1, <2>2
<1>7. replay' \in [Drivers -> Replays] /\ store' \in Seq(Lines) /\ (open' => store' # <<>>)
  BY <1>0 DEF Writes
<1> QED BY <1>2, <1>3, <1>4, <1>6, <1>7 DEF ReplayInv, NumbersInv

\* A step that writes a line: all of what the driver holds, or the beginning of it.
LEMMA WritingStep ==
  ASSUME ReplayInv, NEW d \in Drivers, NEW r, Writes(d, r),
         replay[d].pc = "append", r.held = replay[d].held, captured' = captured,
         NEW line \in {Spoilt, replay[d].held}, NEW cut, Write(line, cut),
         r.pc = "holding" \/ (r.pc = "kept" /\ line = replay[d].held)
  PROVE  ReplayInv'
<1>0. /\ replay \in [Drivers -> Replays] /\ store \in Seq(Lines) /\ captured \in Nat
      /\ open => store # <<>>
      /\ NumbersInv /\ StoreInv
  BY DEF ReplayInv
<1>1. /\ replay'[d] = r /\ \A e \in Drivers \ {d} : replay'[e] = replay[e]
  BY DEF Writes
<1>2. /\ \A e \in Drivers : Holds(e) => replay[e].held.id \in 1..captured
      /\ \A e, f \in Drivers : (Holds(e) /\ Holds(f) /\ e # f) => replay[e].held.id # replay[f].held.id
      /\ \A i \in DOMAIN store : store[i].id \in 0..captured
  BY <1>0 DEF NumbersInv
<1>3. Holds(d) /\ \A e \in Drivers : Holds(e)' => Holds(e) /\ replay'[e].held = replay[e].held
  BY <1>1 DEF Holds
<1>4. line \in Lines /\ line.id \in 0..captured
  <2>1. replay[d].held \in Lines
    BY <1>0 DEF Replays
  <2>2. replay[d].held.id \in 0..captured
    BY <1>2, <1>3
  <2>3. Spoilt.id \in 0..captured
    BY <1>0, SpoiltLine
  <2> QED BY <2>1, <2>2, <2>3, SpoiltLine
<1>5. /\ store' \in Seq(Lines) /\ store' # <<>>
      /\ \A i \in DOMAIN store' : store'[i].id \in 0..captured
      /\ Readable' => Readable /\ line # Spoilt /\ store' = Append(store, line)
  BY <1>0, <1>2, <1>4, WrittenLine
<1>6. NumbersInv'
  <2>1. \A e \in Drivers : Holds(e)' => replay'[e].held.id \in 1..captured'
    BY <1>2, <1>3
  <2>2. \A e, f \in Drivers : (Holds(e)' /\ Holds(f)' /\ e # f) => replay'[e].held.id # replay'[f].held.id
    BY <1>2, <1>3
  <2> QED BY <1>5, <2>1, <2>2 DEF NumbersInv
<1>7. StoreInv'
  <2> SUFFICES ASSUME Readable'
      PROVE  /\ \A e \in Drivers : replay'[e].pc = "kept" =>
                  \E i \in DOMAIN store' : store'[i] = replay'[e].held
             /\ \A e \in Drivers : replay'[e].pc = "append" =>
                  \A i \in DOMAIN store' : store'[i].id # replay'[e].held.id
             /\ \A i, j \in DOMAIN store' : i # j => store'[i].id # store'[j].id
    BY DEF StoreInv
  <2>1. Readable /\ line = replay[d].held /\ store' = Append(store, line)
    BY <1>5
  <2>2. /\ \A e \in Drivers : replay[e].pc = "kept" =>
             \E i \in DOMAIN store : store[i] = replay[e].held
        /\ \A e \in Drivers : replay[e].pc = "append" =>
             \A i \in DOMAIN store : store[i].id # replay[e].held.id
        /\ \A i, j \in DOMAIN store : i # j => store[i].id # store[j].id
    BY <1>0, <2>1 DEF StoreInv
  <2>3. /\ store'[Len(store) + 1] = line /\ Len(store) + 1 \in DOMAIN store'
        /\ \A i \in DOMAIN store : i \in DOMAIN store' /\ store'[i] = store[i]
        /\ \A i \in DOMAIN store' : i \in DOMAIN store \/ i = Len(store) + 1
    BY <1>0, <1>4, <2>1, AppendProperties
  <2>4. \A e \in Drivers : replay'[e].pc = "kept" => \E i \in DOMAIN store' : store'[i] = replay'[e].held
    <3> SUFFICES ASSUME NEW e \in Drivers, replay'[e].pc = "kept"
        PROVE  \E i \in DOMAIN store' : store'[i] = replay'[e].held
      OBVIOUS
    <3>1. CASE e = d
      BY <1>1, <2>1, <2>3, <3>1
    <3>2. CASE e # d
      <4>1. replay[e].pc = "kept" /\ replay'[e] = replay[e]
        BY <1>1, <3>2
      <4>2. PICK i \in DOMAIN store : store[i] = replay[e].held
        BY <2>2, <4>1
      <4> QED BY <2>3, <4>1, <4>2
    <3> QED BY <3>1, <3>2
  <2>5. ASSUME NEW e \in Drivers, replay'[e].pc = "append", NEW i \in DOMAIN store'
        PROVE  store'[i].id # replay'[e].held.id
    <3>1. e # d /\ replay'[e] = replay[e] /\ replay[e].pc = "append" /\ Holds(e)
      BY <1>1, <2>5 DEF Holds
    <3>2. CASE i \in DOMAIN store
      BY <2>2, <2>3, <3>1, <3>2
    <3>3. CASE i = Len(store) + 1
      BY <1>2, <1>3, <2>1, <2>3, <3>1, <3>3
    <3> QED BY <2>3, <3>2, <3>3
  <2>6. ASSUME NEW i \in DOMAIN store', NEW j \in DOMAIN store', i # j
        PROVE  store'[i].id # store'[j].id
    <3>1. \A k \in DOMAIN store : store[k].id # line.id
      BY <2>1, <2>2
    <3> QED BY <2>2, <2>3, <2>6, <3>1
  <2> QED BY <2>4, <2>5, <2>6
<1> QED BY <1>0, <1>5, <1>6, <1>7 DEF ReplayInv, Writes

-----------------------------------------------------------------------------
\* Every step of Replay.

\* A replay begins with a baseline and nothing in hand.
LEMMA BeginKeeps ==
  ASSUME Inv, NEW d \in Drivers, ReplayBegin(d)
  PROVE  Inv'
<1>0. ExecutionInv /\ ReplayInv /\ replay \in [Drivers -> Replays] /\ captured \in Nat
  BY DEF Inv, ReplayInv
<1>1. PICK b \in Baselines : replay' = [replay EXCEPT ![d].pc = "execute", ![d].of = b]
  BY DEF ReplayBegin
<1> DEFINE r == [replay[d] EXCEPT !.pc = "execute", !.of = b]
<1>2. r \in Replays /\ r.pc = "execute"
  BY <1>0 DEF Replays
<1>3. Writes(d, r)
  BY <1>0, <1>1, <1>2, Replaced
<1>4. store' = store /\ open' = open /\ captured' = captured
  BY DEF ReplayBegin
<1>5. ReplayInv'
  <2> HIDE DEF r
  <2> QED BY <1>0, <1>2, <1>3, <1>4, QuietStep
<1>6. ExecutionInv'
  BY <1>0, LaunchKeeps DEF ReplayBegin
<1> QED BY <1>5, <1>6 DEF Inv

\* What nobody holds is where it was.
LEMMA ReplayKept ==
  ASSUME ReplayInv, UNCHANGED replayVars
  PROVE  ReplayInv'
<1>1. replay' = replay /\ store' = store /\ open' = open /\ captured' = captured
  BY DEF replayVars
<1>2. NumbersInv'
  BY <1>1 DEF ReplayInv, NumbersInv, Holds
<1>3. StoreInv'
  BY <1>1 DEF ReplayInv, StoreInv, Readable
<1> QED BY <1>1, <1>2, <1>3 DEF ReplayInv

\* Capturing a finished replay keeps the invariant.
LEMMA CaptureKeeps ==
  ASSUME Inv, NEW d \in Drivers, Capture(d)
  PROVE  Inv'
<1>0. ExecutionInv /\ ReplayInv /\ replay \in [Drivers -> Replays] /\ captured \in Nat
  BY DEF Inv, ReplayInv
<1>1. PICK m \in Metrics :
        replay' = [replay EXCEPT ![d].pc = "holding",
                     ![d].held = [id |-> captured + 1, of |-> replay[d].of, metrics |-> m]]
  BY DEF Capture
<1> DEFINE held == [id |-> captured + 1, of |-> replay[d].of, metrics |-> m]
           r == [replay[d] EXCEPT !.pc = "holding", !.held = held]
<1>2. held \in Lines /\ held.id = captured + 1
  BY <1>0 DEF Replays, Lines
<1>3. r \in Replays /\ r.pc = "holding" /\ r.held = held
  <2> HIDE DEF held
  <2> QED BY <1>0, <1>2 DEF Replays
<1>4. Writes(d, r)
  <2>1. replay' = [replay EXCEPT ![d] = r]
    BY <1>1
  <2> QED BY <1>0, <1>3, <2>1, Replaced
<1>5. store' = store /\ open' = open /\ captured' = captured + 1 /\ captured' \in Nat
  BY <1>0 DEF Capture
<1>6. ReplayInv'
  <2> HIDE DEF r, held
  <2>1. r.held.id \in 1..captured' /\ captured < r.held.id /\ captured <= captured'
    BY <1>0, <1>2, <1>3, <1>5
  <2> QED BY <1>0, <1>3, <1>4, <1>5, <2>1, QuietStep
<1>7. ExecutionInv'
  BY <1>0, UpdateKeeps, NotStartedIsGood DEF Capture
<1> QED BY <1>6, <1>7 DEF Inv

\* Reading the store before an append keeps the invariant.
LEMMA AppendCheckKeeps ==
  ASSUME Inv, NEW d \in Drivers, AppendCheck(d)
  PROVE  Inv'
<1>0. ExecutionInv /\ ReplayInv /\ replay \in [Drivers -> Replays] /\ captured \in Nat
  BY DEF Inv, ReplayInv
<1> DEFINE r == [replay[d] EXCEPT !.pc = "append"]
<1>1. r \in Replays /\ r.pc = "append" /\ r.held = replay[d].held
  BY <1>0 DEF Replays
<1>2. Writes(d, r)
  BY <1>0, <1>1, Replaced DEF AppendCheck
<1>3. /\ Holds(d) /\ r.held.id \in 1..captured
      /\ \A i \in DOMAIN store : store[i].id # r.held.id
      /\ store' = store /\ open' = open /\ captured' = captured
  BY <1>0, <1>1 DEF AppendCheck, Holds, ReplayInv, NumbersInv
<1>4. ReplayInv'
  <2> HIDE DEF r
  <2> QED BY <1>0, <1>1, <1>2, <1>3, QuietStep
<1>5. ExecutionInv'
  BY <1>0 DEF AppendCheck, ExecutionInv
<1> QED BY <1>4, <1>5 DEF Inv

\* Writing a line, whole or cut short, keeps the invariant.
LEMMA AppendKeeps ==
  ASSUME Inv, NEW d \in Drivers, AppendWrite(d) \/ AppendFails(d)
  PROVE  Inv'
<1>0. ExecutionInv /\ ReplayInv /\ replay \in [Drivers -> Replays]
  BY DEF Inv, ReplayInv
<1>1. PICK pc \in {"kept", "holding"} :
        /\ replay[d].pc = "append" /\ UNCHANGED <<execution, captured>>
        /\ replay' = [replay EXCEPT ![d].pc = pc]
        /\ \/ pc = "holding" /\ UNCHANGED <<store, open>>
           \/ \E line \in {Spoilt, replay[d].held}, cut \in BOOLEAN :
                Write(line, cut) /\ (pc = "kept" => line = replay[d].held)
  BY DEF AppendWrite, AppendFails
<1> DEFINE r == [replay[d] EXCEPT !.pc = pc]
<1>2. r \in Replays /\ r.pc = pc /\ r.held = replay[d].held
  BY <1>0 DEF Replays
<1>3. Writes(d, r)
  BY <1>0, <1>1, <1>2, Replaced
<1>4. ReplayInv'
  <2> HIDE DEF r
  <2>1. CASE pc = "holding" /\ UNCHANGED <<store, open>>
    <3>1. Holds(d) /\ r.held.id \in 1..captured /\ captured \in Nat
      BY <1>0, <1>1, <1>2 DEF Holds, ReplayInv, NumbersInv
    <3> QED BY <1>0, <1>1, <1>2, <1>3, <2>1, <3>1, QuietStep
  <2>2. CASE \E line \in {Spoilt, replay[d].held}, cut \in BOOLEAN :
               Write(line, cut) /\ (pc = "kept" => line = replay[d].held)
    BY <1>0, <1>1, <1>2, <1>3, <2>2, WritingStep
  <2> QED BY <1>1, <2>1, <2>2
<1>5. ExecutionInv'
  BY <1>0, <1>1 DEF ExecutionInv
<1> QED BY <1>4, <1>5 DEF Inv

\* A driver that leaves keeps the invariant.
LEMMA LeaveKeeps ==
  ASSUME Inv, NEW d \in Drivers, Leave(d)
  PROVE  Inv'
<1>0. ExecutionInv /\ ReplayInv /\ replay \in [Drivers -> Replays] /\ captured \in Nat
  BY DEF Inv, ReplayInv
<1>1. Idle \in Replays /\ Idle.pc = "idle"
  BY SpoiltLine DEF Idle, Replays, NoBaseline
<1>2. Writes(d, Idle) /\ store' = store /\ open' = open /\ captured' = captured
  BY <1>0, <1>1, Replaced DEF Leave
<1>3. ReplayInv'
  BY <1>0, <1>1, <1>2, QuietStep
<1>4. ExecutionInv'
  BY <1>0, UpdateKeeps, NotStartedIsGood DEF Leave
<1> QED BY <1>3, <1>4 DEF Inv

\* An empty store satisfies the invariant.
LEMMA Initially == Init => Inv
<1> SUFFICES ASSUME Init PROVE Inv
  OBVIOUS
<1>1. ExecutionInv
  BY NotStartedIsGood DEF Init, ExecutionInit, ExecutionInv, Good
<1>2. replay \in [Drivers -> Replays] /\ store = <<>> /\ open = FALSE /\ captured = 0
  BY SpoiltLine DEF Init, Idle, Replays, NoBaseline
<1>3. \A d \in Drivers : replay[d].pc = "idle"
  BY DEF Init, Idle
<1>4. NumbersInv /\ StoreInv
  BY <1>2, <1>3 DEF NumbersInv, StoreInv, Holds
<1> QED BY <1>1, <1>2, <1>4 DEF Inv, ReplayInv

\* Every step keeps the invariant.
LEMMA Inductive == Inv /\ [Next]_vars => Inv'
<1>1. ASSUME Inv, NEW d \in Drivers, ReplayWait(d) PROVE Inv'
  BY <1>1, WaitKeeps, ReplayKept DEF ReplayWait, Inv
<1>2. ASSUME Inv, UNCHANGED vars PROVE Inv'
  BY <1>2, ReplayKept DEF Inv, vars, ExecutionInv
<1> QED BY <1>1, <1>2, BeginKeeps, CaptureKeeps, AppendCheckKeeps, AppendKeeps, LeaveKeeps DEF Next

\* The inductive invariant holds in every reachable state.
LEMMA Invariant == Spec => []Inv
BY Initially, Inductive, PTL DEF Spec

-----------------------------------------------------------------------------
\* Sums over a finite set of cases, and averages that are rounded.

\* There is a least one among any natural numbers.
LEMMA LeastNumber ==
  ASSUME NEW T \in SUBSET Nat, T # {}
  PROVE  \E n \in T : \A m \in T : n <= m
<1> DEFINE less == OpToRel(<, Nat)
<1>1. \A x, y \in Nat : x < y => <<x, y>> \in less
  BY DEF OpToRel
<1> HIDE DEF less
<1>2. IsWellFoundedOn(less, Nat)
  BY NatLessThanWellFounded DEF less
<1>3. PICK n \in T : \A m \in T : ~ (<<m, n>> \in less)
  BY <1>2, WFMin
<1>4. \A m \in T : ~ (m < n)
  BY <1>1, <1>3
<1> QED BY <1>4

\* Induction, stated of sets: the library's theorems of induction take an operator.
LEMMA Counting ==
  ASSUME NEW T \in SUBSET Nat, 0 \in T, \A n \in T : n + 1 \in T
  PROVE  T = Nat
<1> SUFFICES ASSUME T # Nat PROVE FALSE
  OBVIOUS
<1> DEFINE rest == Nat \ T
<1>1. PICK n \in rest : \A m \in rest : n <= m
  BY LeastNumber
<1>2. n # 0 /\ n - 1 \in Nat /\ n - 1 \notin rest
  BY <1>1
<1> QED BY <1>1, <1>2

\* The case that a sum takes first, and the sum of every set of cases.
First(s) == CHOOSE x \in s : TRUE

Sums(D, f, g) ==
  /\ g \in [SUBSET D -> Int]
  /\ \A s \in SUBSET D : g[s] = IF s = {} THEN 0 ELSE f[First(s)] + g[s \ {First(s)}]

\* Without its first case, a set has one case less.
LEMMA OneLess ==
  ASSUME NEW s, IsFiniteSet(s), s # {}
  PROVE  /\ First(s) \in s /\ Cardinality(s) \in Nat /\ Cardinality(s) # 0
         /\ Cardinality(s \ {First(s)}) = Cardinality(s) - 1
<1>1. First(s) \in s
  BY DEF First
<1>2. Cardinality(s) \in Nat /\ Cardinality(s) # 0
  BY FS_CardinalityType, FS_EmptySet
<1> QED BY <1>1, <1>2, FS_RemoveElement

\* Every set of cases has a sum, and the sum of all is what SumFunction says.
LEMMA SumOfAll ==
  ASSUME NEW D, IsFiniteSet(D), NEW f \in [D -> Int]
  PROVE  \E g : Sums(D, f, g) /\ SumFunction(f) = g[D]
<1>0. \A s \in SUBSET D : /\ IsFiniteSet(s) /\ Cardinality(s) \in Nat /\ Cardinality(s) <= Cardinality(D)
                          /\ Cardinality(s) = 0 <=> s = {}
  BY FS_Subset, FS_CardinalityType, FS_EmptySet
<1> DEFINE Right(g, s) == g[s] = IF s = {} THEN 0 ELSE f[First(s)] + g[s \ {First(s)}]
           T == {n \in Nat : \E g \in [SUBSET D -> Int] :
                   \A s \in SUBSET D : Cardinality(s) <= n => Right(g, s)}
<1>1. 0 \in T
  <2> DEFINE g == [s \in SUBSET D |-> 0]
  <2>1. g \in [SUBSET D -> Int]
    OBVIOUS
  <2>2. ASSUME NEW s \in SUBSET D, Cardinality(s) <= 0 PROVE Right(g, s)
    <3>1. s = {}
      BY <1>0, <2>2
    <3> QED BY <3>1
  <2> QED BY <2>1, <2>2
<1>2. ASSUME NEW n \in T PROVE n + 1 \in T
  <2>1. PICK g \in [SUBSET D -> Int] : \A s \in SUBSET D : Cardinality(s) <= n => Right(g, s)
    OBVIOUS
  <2> DEFINE h == [s \in SUBSET D |-> IF Cardinality(s) = n + 1 THEN f[First(s)] + g[s \ {First(s)}]
                                      ELSE g[s]]
  <2>2. ASSUME NEW s \in SUBSET D, s # {}
        PROVE  /\ f[First(s)] \in Int /\ s \ {First(s)} \in SUBSET D
               /\ Cardinality(s \ {First(s)}) = Cardinality(s) - 1
               /\ f[First(s)] + g[s \ {First(s)}] \in Int
    BY <1>0, <2>2, OneLess
  <2>3. h \in [SUBSET D -> Int]
    <3>1. \A s \in SUBSET D : Cardinality(s) = n + 1 => s # {}
      BY <1>0
    <3> QED BY <2>2, <3>1
  <2>4. ASSUME NEW s \in SUBSET D, Cardinality(s) <= n + 1 PROVE Right(h, s)
    <3>1. CASE s = {}
      <4>1. Cardinality(s) = 0
        BY <3>1, FS_EmptySet
      <4>2. h[s] = g[s] /\ g[s] = 0
        BY <2>1, <3>1, <4>1
      <4> QED BY <3>1, <4>2
    <3>2. CASE s # {}
      <4>1. h[s \ {First(s)}] = g[s \ {First(s)}]
        BY <1>0, <2>2, <2>4, <3>2
      <4>2. h[s] = f[First(s)] + g[s \ {First(s)}]
        BY <1>0, <2>1, <2>4, <3>2
      <4> QED BY <3>2, <4>1, <4>2
    <3> QED BY <3>1, <3>2
  <2>5. n + 1 \in Nat
    OBVIOUS
  <2> HIDE DEF h, Right
  <2> QED BY <2>3, <2>4, <2>5
<1>3. T = Nat
  <2>1. T \subseteq Nat
    OBVIOUS
  <2> HIDE DEF T
  <2> QED BY <1>1, <1>2, <2>1, Counting
<1>4. PICK g \in [SUBSET D -> Int] : \A s \in SUBSET D : Right(g, s)
  <2>1. Cardinality(D) \in T
    BY <1>3, FS_CardinalityType
  <2> QED BY <1>0, <2>1
<1> DEFINE Step(k) == [s \in SUBSET D |-> IF s = {} THEN 0 ELSE f[First(s)] + k[s \ {First(s)}]]
           all == CHOOSE k : k = Step(k)
<1>5. \E k : k = Step(k)
  BY <1>4
<1>6. all = Step(all)
  <2> HIDE DEF Step
  <2> QED BY <1>5
<1>7. SumFunction(f) = all[D]
  <2>1. DOMAIN f = D
    OBVIOUS
  <2> QED BY <2>1 DEF SumFunction, SumFunctionOnSet, FoldFunctionOnSet, MapThenFoldSet, First
<1> HIDE DEF all
<1> DEFINE E == {n \in Nat : \A s \in SUBSET D : Cardinality(s) = n => all[s] = g[s]}
<1>8. E = Nat
  <2>1. 0 \in E
    <3> SUFFICES ASSUME NEW s \in SUBSET D, Cardinality(s) = 0 PROVE all[s] = g[s]
      OBVIOUS
    <3>1. s = {}
      BY <1>0
    <3> QED BY <1>4, <1>6, <3>1
  <2>2. ASSUME NEW n \in E PROVE n + 1 \in E
    <3> SUFFICES ASSUME NEW s \in SUBSET D, Cardinality(s) = n + 1 PROVE all[s] = g[s]
      OBVIOUS
    <3>1. s # {}
      BY <1>0
    <3>2. all[s \ {First(s)}] = g[s \ {First(s)}]
      BY <1>0, <3>1, OneLess
    <3> QED BY <1>4, <1>6, <3>1, <3>2
  <2>3. E \subseteq Nat
    OBVIOUS
  <2> HIDE DEF E
  <2> QED BY <2>1, <2>2, <2>3, Counting
<1>9. all[D] = g[D]
  BY <1>8, FS_CardinalityType
<1> QED BY <1>4, <1>7, <1>9 DEF Sums

\* The sum of the differences is the difference of the sums.
LEMMA SumsSubtract ==
  ASSUME NEW D, IsFiniteSet(D), NEW after \in [D -> Int], NEW before \in [D -> Int]
  PROVE  /\ SumFunction(after) \in Int /\ SumFunction(before) \in Int
         /\ SumFunction([b \in D |-> after[b] - before[b]]) = SumFunction(after) - SumFunction(before)
<1> DEFINE gain == [b \in D |-> after[b] - before[b]]
<1>1. gain \in [D -> Int] /\ \A b \in D : gain[b] = after[b] - before[b]
  OBVIOUS
<1> HIDE DEF gain
<1>2. PICK a : Sums(D, after, a) /\ SumFunction(after) = a[D]
  BY SumOfAll
<1>3. PICK b : Sums(D, before, b) /\ SumFunction(before) = b[D]
  BY SumOfAll
<1>4. PICK d : Sums(D, gain, d) /\ SumFunction(gain) = d[D]
  BY <1>1, SumOfAll
<1> DEFINE T == {n \in Nat : \A s \in SUBSET D : Cardinality(s) = n => d[s] = a[s] - b[s]}
<1>5. T = Nat
  <2>0. \A s \in SUBSET D : IsFiniteSet(s) /\ (Cardinality(s) = 0 <=> s = {})
    BY FS_Subset, FS_EmptySet
  <2>1. 0 \in T
    <3> SUFFICES ASSUME NEW s \in SUBSET D, Cardinality(s) = 0 PROVE d[s] = a[s] - b[s]
      OBVIOUS
    <3>1. s = {}
      BY <2>0
    <3>2. d[s] = 0 /\ a[s] = 0 /\ b[s] = 0
      BY <1>2, <1>3, <1>4, <3>1 DEF Sums
    <3> QED BY <3>2
  <2>2. ASSUME NEW n \in T PROVE n + 1 \in T
    <3> SUFFICES ASSUME NEW s \in SUBSET D, Cardinality(s) = n + 1 PROVE d[s] = a[s] - b[s]
      OBVIOUS
    <3>1. s # {}
      BY <2>0
    <3> DEFINE x == First(s)
               t == s \ {x}
    <3>2. x \in D /\ t \in SUBSET D /\ Cardinality(t) = n
      BY <2>0, <3>1, OneLess
    <3>3. d[t] = a[t] - b[t]
      BY <3>2
    <3>4. d[s] = gain[x] + d[t] /\ a[s] = after[x] + a[t] /\ b[s] = before[x] + b[t]
      BY <1>2, <1>3, <1>4, <3>1 DEF Sums
    <3>5. a[t] \in Int /\ b[t] \in Int /\ after[x] \in Int /\ before[x] \in Int
      BY <1>2, <1>3, <3>2 DEF Sums
    <3> HIDE DEF x, t
    <3> QED BY <1>1, <3>2, <3>3, <3>4, <3>5
  <2>3. T \subseteq Nat
    OBVIOUS
  <2> HIDE DEF T
  <2> QED BY <2>1, <2>2, <2>3, Counting
<1>6. d[D] = a[D] - b[D]
  BY <1>5, FS_CardinalityType
<1> QED BY <1>2, <1>3, <1>4, <1>6 DEF Sums, gain

\* Division with a remainder.
LEMMA Remainder ==
  ASSUME NEW sum \in Int, NEW count \in Nat \ {0}
  PROVE  /\ sum \div count \in Int /\ (sum % count) \in Int
         /\ (sum % count) >= 0 /\ (sum % count) < count
         /\ sum = count * (sum \div count) + (sum % count)
OBVIOUS

\* Multiples.
LEMMA Multiples ==
  ASSUME NEW p \in Int, NEW q \in Int, NEW count \in Nat
  PROVE  /\ count * p \in Int /\ count * (p + 1) = count * p + count
         /\ p <= q => count * p <= count * q
OBVIOUS

\* A rounded average is at most half of one off.
LEMMA RoundedIsNear ==
  ASSUME NEW sum \in Int, NEW count \in Nat \ {0}
  PROVE  /\ Rounded(sum, count) \in Int
         /\ 2 * (count * Rounded(sum, count)) <= 2 * sum + count
         /\ 2 * (count * Rounded(sum, count)) >= 2 * sum - count
<1> DEFINE q == sum \div count
           r == sum % count
           n == Rounded(sum, count)
<1>1. q \in Int /\ r \in Int /\ r >= 0 /\ r < count /\ sum = count * q + r
  BY Remainder
<1>2. (n = q /\ 2 * r <= count) \/ (n = q + 1 /\ 2 * r >= count)
  BY <1>1 DEF Rounded
<1>3. count * q \in Int /\ count * (q + 1) = count * q + count
  BY <1>1, Multiples
<1> HIDE DEF q, r
<1>4. CASE n = q /\ 2 * r <= count
  <2>1. count * n = count * q
    BY <1>4
  <2> HIDE DEF n
  <2> QED BY <1>1, <1>3, <1>4, <2>1 DEF n
<1>5. CASE n = q + 1 /\ 2 * r >= count
  <2>1. count * n = count * q + count
    BY <1>3, <1>5
  <2> HIDE DEF n
  <2> QED BY <1>1, <1>3, <1>5, <2>1 DEF n
<1> QED BY <1>2, <1>4, <1>5

\* So rounded averages that do not differ hide at most one for each case.
LEMMA RoundingHidesLittle ==
  ASSUME NEW after \in Int, NEW before \in Int, NEW count \in Nat \ {0},
         ~(Rounded(after, count) > Rounded(before, count))
  PROVE  after - before <= count
<1> DEFINE a == Rounded(after, count)
           b == Rounded(before, count)
<1>1. /\ a \in Int /\ 2 * (count * a) >= 2 * after - count
      /\ b \in Int /\ 2 * (count * b) <= 2 * before + count
  BY RoundedIsNear
<1> HIDE DEF a, b
<1>2. count * a \in Int /\ count * b \in Int /\ count * a <= count * b
  BY <1>1, Multiples DEF a, b
<1> QED BY <1>1, <1>2

-----------------------------------------------------------------------------
\* The theorems.

\* What execute_and_wait returns is what happened to the execution, whenever it
\* ended between two calls of the loop and whoever ended it.
THEOREM OutcomesAreReal == Spec => []OutcomeIsReal
<1>1. ExecutionInv => OutcomeIsReal
  BY DEF ExecutionInv, WaitOf, OutcomeIsReal, At
<1> QED BY <1>1, Invariant, PTL DEF Inv

\* A candidate store that reads cleanly has every trajectory whose append
\* returned, and none twice, for any number of drivers that append to it at once.
THEOREM StoreIsHistory == Spec => []StoreKeepsHistory
<1>1. ReplayInv => StoreKeepsHistory
  BY DEF ReplayInv, StoreInv, StoreKeepsHistory, ToSet
<1> QED BY <1>1, Invariant, PTL DEF Inv

\* A comparison that finds an improvement stands on the whole benchmark: each of its
\* baselines was replayed, and once, and none that used to succeed failed.
LEMMA ImprovementIsComplete ==
  ASSUME NEW baseline, Improved(baseline)
  PROVE  /\ \A b \in DOMAIN baseline : Cardinality({i \in DOMAIN store : store[i].of = b}) = 1
         /\ (\A b \in DOMAIN baseline : baseline[b].success) =>
              \A b \in DOMAIN baseline : Of(b).metrics.success
<1>1. /\ \A i, j \in DOMAIN store : i # j => store[i].of # store[j].of
      /\ ~Regressed(baseline)
  BY DEF Improved, Comparable
<1>2. Missing(baseline) = {}
  BY <1>1 DEF Regressed
<1>3. Matched(baseline) = DOMAIN baseline
  BY <1>2 DEF Missing, Matched
<1>4. ASSUME NEW b \in DOMAIN baseline PROVE Cardinality({i \in DOMAIN store : store[i].of = b}) = 1
  <2>1. PICK i \in DOMAIN store : store[i].of = b
    BY <1>3 DEF Matched, Candidates
  <2>2. {j \in DOMAIN store : store[j].of = b} = {i}
    BY <1>1, <2>1
  <2> QED BY <2>2, FS_Singleton
<1>5. (\A b \in DOMAIN baseline : baseline[b].success) =>
        \A b \in DOMAIN baseline : Of(b).metrics.success
  BY <1>1, <1>3 DEF Regressed
<1> QED BY <1>4, <1>5

\* What is compared is finite, for each case has a line of its own, and what a line says
\* of a case is what an evaluator may say.
LEMMA ComparedMetrics ==
  ASSUME Inv, NEW benchmark, NEW baseline \in [benchmark -> Metrics], Improved(baseline)
  PROVE  /\ IsFiniteSet(benchmark) /\ Cardinality(benchmark) \in Nat \ {0}
         /\ Matched(baseline) = benchmark
         /\ \A b \in benchmark : Of(b).metrics \in Metrics
<1>0. store \in Seq(Lines)
  BY DEF Inv, ReplayInv
<1>1. Matched(baseline) = benchmark /\ benchmark # {}
  BY DEF Improved, Comparable, Regressed, Missing, Matched
<1>2. \A b \in benchmark : \E t \in Candidates : t.of = b
  BY <1>1 DEF Matched
<1>3. Len(store) \in Nat /\ DOMAIN store = 1..Len(store)
  BY <1>0, LenProperties
<1>4. IsFiniteSet(DOMAIN store)
  BY <1>3, FS_Interval
<1>5. IsFiniteSet(benchmark) /\ Cardinality(benchmark) \in Nat \ {0}
  <2> DEFINE line == [i \in DOMAIN store |-> store[i].of]
             named == {line[i] : i \in DOMAIN store}
  <2>1. IsFiniteSet(named)
    <3>1. line \in Surjection(DOMAIN store, named)
      BY DEF Surjection
    <3> HIDE DEF line, named
    <3> QED BY <1>4, <3>1, FS_Surjection
  <2>2. benchmark \subseteq named
    BY <1>2 DEF Candidates
  <2>3. IsFiniteSet(benchmark)
    BY <2>1, <2>2, FS_Subset
  <2> QED BY <1>1, <2>3, FS_CardinalityType, FS_EmptySet
<1>6. NoTrajectory.metrics \in Metrics
  BY <1>1 DEF NoTrajectory
<1>7. \A i \in DOMAIN store : store[i] \in Lines
  BY <1>0, ElementOfSeq, <1>3
<1>8. ASSUME NEW b \in benchmark PROVE Of(b).metrics \in Metrics
  <2>1. Of(b) \in Candidates
    BY <1>2 DEF Of
  <2>2. Of(b) \in Lines
    BY <1>7, <2>1 DEF Candidates
  <2> QED BY <1>6, <2>2 DEF Lines
<1> QED BY <1>1, <1>5, <1>8

\* A comparison that finds an improvement stands on every baseline of the benchmark,
\* for any number of baselines, of drivers that replay them and of lines they append:
\* each was replayed once, none of a successful benchmark failed, in total quality did
\* not fall and cost did not rise, and rounding hides one intervention per case at most.
THEOREM ImprovementsAreReal == Spec => []ImprovedMeansNoLoss
<1>1. ASSUME Inv, NEW benchmark \in SUBSET Baselines, NEW baseline \in [benchmark -> Metrics],
             Improved(baseline)
      PROVE  LET gain(metric) ==
                   SumFunction([b \in benchmark |-> Of(b).metrics[metric] - baseline[b][metric]])
             IN  /\ gain("quality") >= 0
                 /\ gain("cost") <= 0
                 /\ gain("interventions") <= Cardinality(benchmark)
  <2> DEFINE gain(metric) ==
               SumFunction([b \in benchmark |-> Of(b).metrics[metric] - baseline[b][metric]])
             Old(metric) == [b \in benchmark |-> baseline[b][metric]]
             New(metric) == [b \in benchmark |-> Of(b).metrics[metric]]
  <2>1. /\ IsFiniteSet(benchmark) /\ Cardinality(benchmark) \in Nat \ {0}
        /\ Matched(baseline) = benchmark
        /\ \A b \in benchmark : Of(b).metrics \in Metrics
    BY <1>1, ComparedMetrics
  <2>2. ASSUME NEW metric \in {"quality", "cost", "interventions"}
        PROVE  /\ Before(baseline, metric) \in Int /\ After(baseline, metric) \in Int
               /\ gain(metric) = After(baseline, metric) - Before(baseline, metric)
    <3>1. \A m \in Metrics : m[metric] \in Nat
      BY MetricsAssumption
    <3>2. Old(metric) \in [benchmark -> Int] /\ New(metric) \in [benchmark -> Int]
      BY <2>1, <3>1
    <3>3. /\ SumFunction(New(metric)) \in Int /\ SumFunction(Old(metric)) \in Int
          /\ SumFunction([b \in benchmark |-> New(metric)[b] - Old(metric)[b]])
               = SumFunction(New(metric)) - SumFunction(Old(metric))
      <4> HIDE DEF Old, New
      <4> QED BY <2>1, <3>2, SumsSubtract
    <3>4. Before(baseline, metric) = SumFunction(Old(metric))
      BY <2>1 DEF Before
    <3>5. After(baseline, metric) = SumFunction(New(metric))
      BY <2>1 DEF After
    <3>6. [b \in benchmark |-> New(metric)[b] - Old(metric)[b]]
            = [b \in benchmark |-> Of(b).metrics[metric] - baseline[b][metric]]
      OBVIOUS
    <3> HIDE DEF Old, New
    <3> QED BY <3>3, <3>4, <3>5, <3>6
  <2>3. /\ ~(After(baseline, "quality") < Before(baseline, "quality"))
        /\ ~(After(baseline, "cost") > Before(baseline, "cost"))
        /\ ~(Rounded(After(baseline, "interventions"), Cardinality(benchmark))
               > Rounded(Before(baseline, "interventions"), Cardinality(benchmark)))
    BY <1>1, <2>1 DEF Improved, Regressed
  <2>4. After(baseline, "interventions") - Before(baseline, "interventions") <= Cardinality(benchmark)
    BY <2>1, <2>2, <2>3, RoundingHidesLittle
  <2> HIDE DEF gain
  <2>5. gain("quality") >= 0 /\ gain("cost") <= 0
    BY <2>2, <2>3
  <2>6. gain("interventions") <= Cardinality(benchmark)
    BY <2>2, <2>4
  <2> QED BY <2>5, <2>6 DEF gain
<1>2. Inv => ImprovedMeansNoLoss
  BY <1>1, ImprovementIsComplete DEF ImprovedMeansNoLoss
<1> QED BY <1>2, Invariant, PTL

===============================================================================
