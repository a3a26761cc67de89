--------------------------- MODULE SelfHealProofs ---------------------------
(* Proofs about the watchdog and the other writers of self_heal_state.json: what the
   file remembers, how often a key is healed, and when a stop is undone. *)
EXTENDS SelfHeal, FiniteSetTheorems, TLAPS

-----------------------------------------------------------------------------
(* The inductive invariant.  What is about the content of the file holds until
   something comes between the file and its writers, and says so with Without. *)

\* The threads of the API live while it does.
Phases ==
    /\ api = "down" => \A j \in ApiJobs : At(j, "idle")
    /\ api = "starting" => \A j \in ApiJobs \ {"startup"} : At(j, "idle")
    /\ api = "up" => At("startup", "idle")

\* Who heals, and who acts on which command.
Roles ==
    /\ \A j \in Jobs :
         /\ job[j].at \in {"surveyed", "waiting", "healing"} => j \in Healers
         /\ job[j].at \in {"idle", "surveyed", "waiting", "healing"} => job[j].cmd = NoCommand
         /\ job[j].cmd # NoCommand => job[j].cmd.by = j
         /\ At(j, "acting") => Acts(j)
    /\ ~At("operator", "idle") => job["operator"].cmd # NoCommand

\* What LoadState makes of a file.
Read(f) == IF f \in {Missing, Torn} THEN DefaultState ELSE f

\* What a job has in hand is what it read, but for what it came to change.
Copied(j) ==
    LET read == Read(job[j].base) IN
    /\ At(j, "healing") => /\ job[j].state.stopped = read.stopped
                           /\ job[j].state.enabled = read.enabled
    /\ At(j, "saving") =>
          /\ job[j].state.counts = read.counts
          /\ job[j].state.last = read.last
          /\ job[j].state.attempts = read.attempts
          /\ j # "operator" => job[j].state.stopped = read.stopped
          /\ job[j].cmd.what # "toggle" =>
                job[j].state.enabled = read.enabled \/ job[j].base = Missing
    /\ job[j].cmd.what = "toggle" => job[j].state.enabled = job[j].cmd.on

Copies == \A j \in Jobs : Copied(j)

Lossless == "lost" \notin trouble /\ "torn" \notin trouble /\ "unsaved" \notin trouble

\* Nobody writes over another's write, or over half of one.
Turns ==
    Lossless =>
        /\ \A j \in Jobs : At(j, "writing") => file = Torn
        /\ \A i, j \in Jobs : At(i, "writing") /\ At(j, "writing") => i = j
        /\ \A j \in Jobs : At(j, "healing") \/ At(j, "saving") => job[j].base # Torn

\* What operators asked for is in the file, or in the hands of who writes it.
Stopped ==
    Lossless =>
        /\ At("operator", "saving") \/ At("operator", "writing") => job["operator"].state.stopped = intended
        /\ At("operator", "idle") \/ At("operator", "acting") =>
              /\ file # Torn => LoadState.stopped = intended
              /\ \A j \in Jobs : At(j, "writing") => job[j].state.stopped = intended

Enabled ==
    Lossless =>
        /\ file = Missing => toggled = {}
        /\ toggled # {} =>
              /\ file # Torn => LoadState.enabled \in toggled
              /\ \A j \in Jobs : At(j, "writing") /\ job[j].cmd.what # "toggle" => job[j].state.enabled \in toggled

\* A component is only down for a stop that the file remembers.
Down ==
    LET cmd == job["operator"].cmd IN
    Lossless =>
        /\ halted \subseteq intended \union (IF cmd.what = "start" THEN {cmd.on} ELSE {})
        /\ cmd.what = "stop" => cmd.on \in intended
        /\ At("operator", "saving") =>
              /\ file # Torn => halted \subseteq LoadState.stopped
              /\ \A j \in Jobs : At(j, "writing") => halted \subseteq job[j].state.stopped

\* What was down for a stop is left alone.
LeftAlone ==
    Lossless =>
        \A j \in Jobs : At(j, "waiting") \/ At(j, "healing") =>
            \A n \in DOMAIN job[j].todo : job[j].todo[n].wasHalted => ~job[j].todo[n].desired

Single  == Lossless /\ "overlap" \notin trouble /\ "crash" \notin trouble
InOrder == "overtaken" \notin trouble

\* A state counts the heals that failed,
Counts(state, fails) == \A k \in Keys : fails[k] <= state.counts[k]

\* knows when the last one was, and has not forgotten one of the last window.
Recalls(state, heals, since) ==
    \A k \in Keys : \A n \in DOMAIN heals[k] :
        /\ heals[k][n] <= state.last[k]
        /\ heals[k][n] > since - Window => \E a \in state.attempts[k] : a[1] = heals[k][n]

Knows(state) == Counts(state, failed) /\ (InOrder => Recalls(state, log, latest))

\* While a pass heals, it alone knows; otherwise the file does, or who writes it.
Knowing ==
    Single =>
        /\ \A i, j \in Jobs : At(i, "healing") /\ At(j, "healing") => i = j
        /\ \A j \in Jobs : At(j, "healing") => Knows(job[j].state)
        /\ (\A j \in Jobs : ~At(j, "healing")) =>
              /\ \A j \in Jobs : At(j, "writing") => Knows(job[j].state)
              /\ file # Torn => Knows(LoadState)

\* The heals of a key come one after the other, a backoff apart, and so many in a window.
Ordered(heals, since) ==
    \A k \in Keys : \A n \in DOMAIN heals[k] :
        heals[k][n] <= since /\ \A m \in 1 .. n - 1 : heals[k][m] < heals[k][n]

Spaced(heals) ==
    \A k \in Keys : \A n \in 2..Len(heals[k]) : heals[k][n] - heals[k][n - 1] >= Backoff

InWindow(times, t) == {n \in DOMAIN times : t - Window < times[n] /\ times[n] <= t}

Capped(heals) ==
    \A k \in Keys, t \in 0..MaxClock : Cardinality(InWindow(heals[k], t)) <= AttemptCap

Heals ==
    Single =>
        /\ \A k \in Keys : failed[k] <= MaxConsecutive
        /\ InOrder =>
              /\ Spaced(log) /\ Capped(log) /\ Ordered(log, latest)
              /\ \A j \in Jobs : At(j, "healing") => job[j].now = latest

Countable(state) == \A k \in Keys : IsFiniteSet(state.attempts[k])

\* A count of attempts is a number.
Finite ==
    /\ file \notin {Missing, Torn} => Countable(file)
    /\ \A j \in Jobs : /\ Countable(job[j].state)
                       /\ job[j].base \notin {Missing, Torn} => Countable(job[j].base)
-----------------------------------------------------------------------------
(* Types. *)

(* What a file may be turned into is a state. *)
LEMMA DefaultTyped == DefaultState \in States
BY DEF DefaultState, States

LEMMA LoadStateTyped == TypeOK => LoadState \in States
BY DefaultTyped DEF TypeOK, LoadState

LEMMA ReadTyped ==
    ASSUME NEW f \in States \union {Missing, Torn}
    PROVE  Read(f) \in States
BY DefaultTyped DEF Read

LEMMA PrunedTyped ==
    ASSUME NEW s \in States, NEW now \in Nat
    PROVE  /\ Pruned(s, now) \in States
           /\ Pruned(s, now).enabled = s.enabled /\ Pruned(s, now).stopped = s.stopped
           /\ Pruned(s, now).counts = s.counts /\ Pruned(s, now).last = s.last
           /\ \A k \in Keys : Pruned(s, now).attempts[k] = {a \in s.attempts[k] : a[1] > now - Window}
<1>1. /\ s \in [enabled : BOOLEAN, stopped : SUBSET Core, counts : [Keys -> Nat],
                last : [Keys -> Nat], attempts : [Keys -> SUBSET (Nat \X Nat)]]
      /\ DOMAIN s = {"enabled", "stopped", "counts", "last", "attempts"}
  BY DEF States
<1>2. [k \in Keys |-> {a \in s.attempts[k] : a[1] > now - Window}] \in [Keys -> SUBSET (Nat \X Nat)]
  BY <1>1
<1> QED
  BY <1>1, <1>2 DEF Pruned, States

LEMMA CommandTyped ==
    ASSUME NEW cmd \in Commands
    PROVE  /\ cmd.by \in {"operator", "panel"} /\ cmd.what \in {"stop", "start", "toggle"}
           /\ cmd.what \in {"stop", "start"} => cmd.by = "operator" /\ cmd.on \in Core
           /\ cmd.what = "toggle" => cmd.on \in BOOLEAN
           /\ cmd # NoCommand
BY SelfHealAssumption DEF NoCommand, None

LEMMA CommandedTyped ==
    ASSUME NEW s \in States, NEW cmd \in Commands
    PROVE  /\ Commanded(s, cmd) \in States
           /\ Commanded(s, cmd).stopped = Halting(s.stopped, cmd)
           /\ Commanded(s, cmd).enabled = (IF cmd.what = "toggle" THEN cmd.on ELSE s.enabled)
           /\ Commanded(s, cmd).counts = s.counts /\ Commanded(s, cmd).last = s.last
           /\ Commanded(s, cmd).attempts = s.attempts
<1>1. s.stopped \subseteq Core /\ s.enabled \in BOOLEAN /\ DOMAIN s = {"enabled", "stopped", "counts", "last", "attempts"}
  BY DEF States
<1>2. Halting(s.stopped, cmd) \subseteq Core
  BY <1>1, CommandTyped DEF Halting
<1>3. (IF cmd.what = "toggle" THEN cmd.on ELSE s.enabled) \in BOOLEAN
  BY <1>1, CommandTyped
<1> QED
  BY <1>1, <1>2, <1>3 DEF Commanded, States

LEMMA AnotherTyped ==
    ASSUME NEW set \in SUBSET (Nat \X Nat), IsFiniteSet(set), NEW now \in Nat
    PROVE  /\ Another(set, now) \in SUBSET (Nat \X Nat) /\ IsFiniteSet(Another(set, now))
           /\ set \subseteq Another(set, now)
           /\ \E a \in Another(set, now) : a[1] = now
<1>1. IsFiniteSet({a \in set : a[1] = now})
  BY FS_Subset
<1>2. Cardinality({a \in set : a[1] = now}) \in Nat
  BY <1>1, FS_CardinalityType
<1>3. IsFiniteSet(set \union {<<now, Cardinality({a \in set : a[1] = now})>>})
  BY FS_AddElement
<1>4. <<now, Cardinality({a \in set : a[1] = now})>> \in Nat \X Nat
  BY <1>2
<1>5. <<now, Cardinality({a \in set : a[1] = now})>>[1] = now
  OBVIOUS
<1> QED
  BY <1>3, <1>4, <1>5 DEF Another

-----------------------------------------------------------------------------
(* What each step makes of the jobs. *)

LEMMA IdleTyped ==
    /\ Idle \in Process
    /\ Idle.at = "idle" /\ Idle.state = DefaultState /\ Idle.base = Missing /\ Idle.cmd = NoCommand
    /\ Idle.now = 0 /\ Idle.manual = FALSE /\ Idle.todo = <<>>
BY DefaultTyped DEF Idle, Process

Others(j) == \A i \in Jobs : i # j => job'[i] = job[i]

LEMMA TodoTyped ==
    ASSUME TypeOK, NEW j \in Jobs, job[j].todo # <<>>
    PROVE  /\ Row(j) \in Entry /\ Key(j) \in Keys /\ Row(j) = job[j].todo[1]
           /\ Tail(job[j].todo) \in Seq(Entry)
           /\ \A n \in DOMAIN Tail(job[j].todo) : n + 1 \in DOMAIN job[j].todo
                                                  /\ Tail(job[j].todo)[n] = job[j].todo[n + 1]
<1>1. job[j].todo \in Seq(Entry)
  BY DEF TypeOK, Process
<1>2. Row(j) \in Entry /\ Row(j) = job[j].todo[1]
  BY <1>1 DEF Row
<1>3. Key(j) \in Keys
  BY <1>2, SelfHealAssumption DEF Key, Entry
<1> QED
  BY <1>1, <1>2, <1>3

LEMMA MappedTyped ==
    ASSUME NEW S, NEW T, NEW s \in Seq(T), NEW f,
           f = [n \in DOMAIN s |-> f[n]], \A n \in DOMAIN s : f[n] \in S
    PROVE  f \in Seq(S) /\ DOMAIN f = DOMAIN s
<1>1. DOMAIN s = 1 .. Len(s) /\ Len(s) \in Nat
  OBVIOUS
<1>2. f \in [1 .. Len(s) -> S]
  BY <1>1
<1> QED
  BY <1>1, <1>2

LEMMA SurveyOutcome ==
    ASSUME TypeOK, NEW j \in Jobs, Survey(j)
    PROVE  /\ job' \in [Jobs -> Process] /\ Others(j)
           /\ job'[j].at = "surveyed" /\ job'[j].state = DefaultState /\ job'[j].cmd = NoCommand
           /\ job'[j].base = Missing
           /\ j \in Healers /\ At(j, "idle") /\ (j \in ApiJobs => api = "up")
           /\ file' = file /\ lock' = lock /\ api' = api /\ halted' = halted /\ clock' = clock
           /\ faults' = faults /\ asked' \in {asked, asked + 1} /\ UNCHANGED observed /\ trouble' = trouble
<1>0. /\ j \in Healers /\ At(j, "idle") /\ (j \in ApiJobs => api = "up")
      /\ file' = file /\ lock' = lock /\ api' = api /\ halted' = halted /\ clock' = clock
      /\ faults' = faults /\ asked' \in {asked, asked + 1} /\ UNCHANGED observed /\ trouble' = trouble
  BY DEF Survey, Running, observed
<1>1. PICK pass \in {EveryRow} \union OneRow :
         \E found \in [ToSet(pass.rows) -> Conditions] :
            job' = [job EXCEPT ![j] = [Idle EXCEPT !.at = "surveyed", !.manual = pass.manual, !.todo =
                      [n \in DOMAIN pass.rows |->
                        LET r == pass.rows[n] IN
                        [row |-> r, found |-> found[r], desired |-> TRUE,
                         wasHalted |-> ~pass.manual /\ r \in halted]]]]
  BY DEF Survey
<1>2. PICK found \in [ToSet(pass.rows) -> Conditions] :
            job' = [job EXCEPT ![j] = [Idle EXCEPT !.at = "surveyed", !.manual = pass.manual, !.todo =
                      [n \in DOMAIN pass.rows |->
                        LET r == pass.rows[n] IN
                        [row |-> r, found |-> found[r], desired |-> TRUE,
                         wasHalted |-> ~pass.manual /\ r \in halted]]]]
  BY <1>1
<1> DEFINE entry(n) == [row |-> pass.rows[n], found |-> found[pass.rows[n]], desired |-> TRUE,
                        wasHalted |-> ~pass.manual /\ pass.rows[n] \in halted]
           todo == [n \in DOMAIN pass.rows |-> entry(n)]
<1>3. pass.rows \in Seq(Rows) /\ pass.manual \in BOOLEAN
  <2>1. EveryRow.rows \in Seq(Rows) /\ EveryRow.manual \in BOOLEAN
    BY SelfHealAssumption DEF EveryRow
  <2>2. \A r \in Rows : <<r>> \in Seq(Rows)
    OBVIOUS
  <2>3. pass = EveryRow \/ \E r \in Rows : pass = [manual |-> TRUE, rows |-> <<r>>]
    BY DEF OneRow
  <2>4. CASE pass = EveryRow
    BY <2>1, <2>4
  <2>5. ASSUME NEW r \in Rows, pass = [manual |-> TRUE, rows |-> <<r>>] PROVE pass.rows \in Seq(Rows) /\ pass.manual \in BOOLEAN
    BY <2>2, <2>5
  <2> QED
    BY <2>3, <2>4, <2>5
<1>4. \A n \in DOMAIN pass.rows : pass.rows[n] \in Rows /\ found[pass.rows[n]] \in Conditions
  BY <1>3 DEF ToSet
<1>5. \A n \in DOMAIN pass.rows : entry(n) \in Entry
  BY <1>3, <1>4 DEF Entry
<1>6. todo \in Seq(Entry)
  <2>1. \A n \in DOMAIN pass.rows : todo[n] \in Entry
    BY <1>5
  <2>2. todo = [n \in DOMAIN pass.rows |-> todo[n]]
    OBVIOUS
  <2> HIDE DEF todo
  <2> QED
    BY <1>3, <2>1, <2>2, MappedTyped
<1>7. job' = [job EXCEPT ![j] = [Idle EXCEPT !.at = "surveyed", !.manual = pass.manual, !.todo = todo]]
  BY <1>2
<1> HIDE DEF todo
<1>8. [Idle EXCEPT !.at = "surveyed", !.manual = pass.manual, !.todo = todo] \in Process
  BY <1>3, <1>6, IdleTyped DEF Process
<1> QED
  BY <1>0, <1>7, <1>8, IdleTyped DEF TypeOK, Others, Process

LEMMA ReadMarkersOutcome ==
    ASSUME TypeOK, NEW j \in Jobs, ReadMarkers(j)
    PROVE  /\ job' \in [Jobs -> Process] /\ Others(j)
           /\ job'[j].at = "waiting" /\ job'[j].state = job[j].state /\ job'[j].cmd = job[j].cmd
           /\ job'[j].base = job[j].base
           /\ \A n \in DOMAIN job'[j].todo :
                /\ job'[j].todo[n].row \in Rows
                /\ job'[j].todo[n].wasHalted => job'[j].todo[n].row \in intended \intersect halted
                /\ job'[j].todo[n].desired => job'[j].todo[n].row \notin LoadState.stopped
           /\ At(j, "surveyed")
           /\ file' = file /\ lock' = lock /\ api' = api /\ halted' = halted /\ clock' = clock
           /\ faults' = faults /\ asked' = asked /\ UNCHANGED observed
           /\ trouble' = trouble \union (IF file = Torn THEN {"torn"} ELSE {})
<1>0. /\ At(j, "surveyed")
      /\ file' = file /\ lock' = lock /\ api' = api /\ halted' = halted /\ clock' = clock
      /\ faults' = faults /\ asked' = asked /\ UNCHANGED observed
      /\ trouble' = trouble \union (IF file = Torn THEN {"torn"} ELSE {})
  BY DEF ReadMarkers, ReadNoted, observed
<1> DEFINE was == job[j].todo
           entry(n) == [was[n] EXCEPT !.desired = @ /\ was[n].row \notin LoadState.stopped,
                                      !.wasHalted = @ /\ was[n].row \in intended \intersect halted]
           todo == Marked(was)
<1>1. was \in Seq(Entry) /\ job[j] \in Process /\ clock \in Nat
  BY DEF TypeOK, Process
<1>2. \A n \in DOMAIN was : was[n] \in Entry
  BY <1>1
<1>3. \A n \in DOMAIN was :
         /\ entry(n) \in Entry
         /\ entry(n).row \in Rows
         /\ entry(n).wasHalted => entry(n).row \in intended \intersect halted
         /\ entry(n).desired => entry(n).row \notin LoadState.stopped
  BY <1>2 DEF Entry
<1>4. todo \in Seq(Entry) /\ DOMAIN todo = DOMAIN was
  <2>1. \A n \in DOMAIN was : todo[n] \in Entry
    BY <1>3 DEF Marked
  <2>2. todo = [n \in DOMAIN was |-> todo[n]]
    BY DEF Marked
  <2> HIDE DEF todo
  <2> QED
    BY <1>1, <2>1, <2>2, MappedTyped
<1>5. job' = [job EXCEPT ![j].at = "waiting", ![j].now = clock, ![j].todo = todo]
  BY DEF ReadMarkers
<1>6. \A n \in DOMAIN todo :
         /\ todo[n].row \in Rows
         /\ todo[n].wasHalted => todo[n].row \in intended \intersect halted
         /\ todo[n].desired => todo[n].row \notin LoadState.stopped
  BY <1>3, <1>4 DEF Marked
<1> HIDE DEF todo
<1>7. [job[j] EXCEPT !.at = "waiting", !.now = clock, !.todo = todo] \in Process
  BY <1>1, <1>4 DEF Process
<1>8. /\ job'[j] = [job[j] EXCEPT !.at = "waiting", !.now = clock, !.todo = todo]
      /\ job' \in [Jobs -> Process] /\ Others(j)
  BY <1>5, <1>7 DEF TypeOK, Others
<1> QED
  BY <1>0, <1>1, <1>6, <1>8 DEF Process

LEMMA TakeStateOutcome ==
    ASSUME TypeOK, NEW j \in Jobs, TakeState(j)
    PROVE  /\ job' \in [Jobs -> Process] /\ Others(j)
           /\ job'[j].at = "healing" /\ job'[j].state = Pruned(LoadState, job[j].now)
           /\ job'[j].base = file /\ job'[j].cmd = job[j].cmd /\ job'[j].now = job[j].now
           /\ job'[j].todo = job[j].todo
           /\ At(j, "waiting") /\ (j \in ApiJobs => lock = None) /\ lock' = (IF j \in ApiJobs THEN j ELSE lock)
           /\ file' = file /\ api' = api /\ halted' = halted /\ clock' = clock /\ faults' = faults /\ asked' = asked
           /\ toggled' = toggled /\ intended' = intended /\ log' = log /\ failed' = failed
           /\ latest' = IF job[j].now > latest THEN job[j].now ELSE latest
           /\ trouble' = trouble \union (IF file = Torn THEN {"torn"} ELSE {})
                                  \union (IF job[j].now < latest THEN {"overtaken"} ELSE {})
                                  \union (IF \E i \in Jobs : At(i, "healing") THEN {"overlap"} ELSE {})
<1>0. /\ At(j, "waiting") /\ (j \in ApiJobs => lock = None) /\ lock' = (IF j \in ApiJobs THEN j ELSE lock)
      /\ file' = file /\ api' = api /\ halted' = halted /\ clock' = clock /\ faults' = faults /\ asked' = asked
      /\ toggled' = toggled /\ intended' = intended /\ log' = log /\ failed' = failed
      /\ latest' = IF job[j].now > latest THEN job[j].now ELSE latest
      /\ trouble' = trouble \union (IF file = Torn THEN {"torn"} ELSE {})
                             \union (IF job[j].now < latest THEN {"overtaken"} ELSE {})
                             \union (IF \E i \in Jobs : At(i, "healing") THEN {"overlap"} ELSE {})
  BY DEF TakeState, Free, Held
<1>1. job[j] \in Process /\ file \in States \union {Missing, Torn} /\ job[j].now \in Nat
  BY DEF TypeOK, Process
<1>2. Pruned(LoadState, job[j].now) \in States
  BY <1>1, LoadStateTyped, PrunedTyped
<1>3. job'[j] = [job[j] EXCEPT !.at = "healing", !.base = file, !.state = Pruned(LoadState, job[j].now)]
      /\ Others(j) /\ DOMAIN job' = Jobs
  BY DEF TakeState, TypeOK, Others
<1>4. job'[j] \in Process
  BY <1>1, <1>2, <1>3 DEF Process
<1> QED
  BY <1>0, <1>1, <1>3, <1>4 DEF TypeOK, Others, TakeState, Process

LEMMA RecoverOutcome ==
    ASSUME TypeOK, NEW j \in Jobs, Recover(j)
    PROVE  /\ job' \in [Jobs -> Process] /\ Others(j)
           /\ job'[j].at = "healing" /\ job'[j].base = job[j].base /\ job'[j].cmd = job[j].cmd
           /\ job'[j].now = job[j].now /\ job'[j].todo = Tail(job[j].todo)
           /\ job'[j].state.stopped = job[j].state.stopped /\ job'[j].state.enabled = job[j].state.enabled
           /\ job'[j].state.last = job[j].state.last /\ job'[j].state.attempts = job[j].state.attempts
           /\ job'[j].state.counts = [job[j].state.counts EXCEPT ![Key(j)] = 0]
           /\ At(j, "healing") /\ job[j].todo # <<>>
           /\ file' = file /\ lock' = lock /\ api' = api /\ halted' = halted /\ clock' = clock /\ faults' = faults
           /\ asked' = asked /\ toggled' = toggled /\ intended' = intended /\ log' = log /\ latest' = latest
           /\ trouble' = trouble /\ failed' = [failed EXCEPT ![Key(j)] = 0]
<1>0. /\ At(j, "healing") /\ job[j].todo # <<>>
      /\ file' = file /\ lock' = lock /\ api' = api /\ halted' = halted /\ clock' = clock /\ faults' = faults
      /\ asked' = asked /\ toggled' = toggled /\ intended' = intended /\ log' = log /\ latest' = latest
      /\ trouble' = trouble /\ failed' = [failed EXCEPT ![Key(j)] = 0]
  BY DEF Recover, Considering
<1>1. job[j] \in Process /\ job[j].state \in States /\ job[j].todo # <<>> /\ job[j].at = "healing"
  BY DEF TypeOK, Process, Recover, Considering, At
<1>2. Key(j) \in Keys /\ Tail(job[j].todo) \in Seq(Entry)
  BY <1>1, TodoTyped
<1> DEFINE state == [job[j].state EXCEPT !.counts[Key(j)] = 0]
<1>3. /\ state \in States
      /\ state.stopped = job[j].state.stopped /\ state.enabled = job[j].state.enabled
      /\ state.last = job[j].state.last /\ state.attempts = job[j].state.attempts
      /\ state.counts = [job[j].state.counts EXCEPT ![Key(j)] = 0]
  BY <1>1, <1>2 DEF States
<1>4. job' = [job EXCEPT ![j].state = state, ![j].todo = Tail(job[j].todo)]
  BY DEF Recover
<1> HIDE DEF state
<1>5. /\ job'[j] = [job[j] EXCEPT !.state = state, !.todo = Tail(job[j].todo)]
      /\ Others(j) /\ DOMAIN job' = Jobs
  BY <1>4 DEF TypeOK, Others
<1>6. job'[j] \in Process
  BY <1>1, <1>2, <1>3, <1>5 DEF Process
<1>7. job' \in [Jobs -> Process]
  BY <1>4, <1>5, <1>6 DEF TypeOK, Others
<1> QED
  BY <1>0, <1>1, <1>3, <1>5, <1>7 DEF Process

LEMMA LeaveAloneOutcome ==
    ASSUME TypeOK, NEW j \in Jobs, LeaveAlone(j)
    PROVE  /\ job' \in [Jobs -> Process] /\ Others(j)
           /\ job'[j].at = "healing" /\ job'[j].base = job[j].base /\ job'[j].cmd = job[j].cmd
           /\ job'[j].now = job[j].now /\ job'[j].todo = Tail(job[j].todo)
           /\ job'[j].state = job[j].state
           /\ At(j, "healing") /\ job[j].todo # <<>>
           /\ file' = file /\ lock' = lock /\ api' = api /\ halted' = halted /\ clock' = clock
           /\ faults' = faults /\ asked' = asked /\ UNCHANGED observed /\ trouble' = trouble
<1>0. /\ At(j, "healing") /\ job[j].todo # <<>>
      /\ file' = file /\ lock' = lock /\ api' = api /\ halted' = halted /\ clock' = clock
      /\ faults' = faults /\ asked' = asked /\ UNCHANGED observed /\ trouble' = trouble
  BY DEF LeaveAlone, Considering, observed
<1>1. job[j] \in Process /\ job[j].todo # <<>> /\ job[j].at = "healing"
  BY DEF TypeOK, Process, LeaveAlone, Considering, At
<1>2. Tail(job[j].todo) \in Seq(Entry)
  BY <1>1, TodoTyped
<1>5. /\ job'[j] = [job[j] EXCEPT !.todo = Tail(job[j].todo)]
      /\ Others(j) /\ DOMAIN job' = Jobs
  BY DEF TypeOK, Others, LeaveAlone
<1>6. job'[j] \in Process
  BY <1>1, <1>2, <1>5 DEF Process
<1>7. job' \in [Jobs -> Process]
  BY <1>5, <1>6 DEF TypeOK, Others, LeaveAlone
<1> QED
  BY <1>0, <1>1, <1>5, <1>7 DEF Process

LEMMA ChargedTyped ==
    ASSUME NEW s \in States, Countable(s), NEW k \in Keys, NEW now \in Nat, NEW manual \in BOOLEAN
    PROVE  /\ Charged(s, k, now, manual) \in States /\ Countable(Charged(s, k, now, manual))
           /\ Charged(s, k, now, manual).stopped = s.stopped
           /\ Charged(s, k, now, manual).enabled = s.enabled
           /\ Charged(s, k, now, manual).counts = [s.counts EXCEPT ![k] = @ + 1]
           /\ Charged(s, k, now, manual).last = [s.last EXCEPT ![k] = now]
           /\ Charged(s, k, now, manual).attempts
                = [s.attempts EXCEPT ![k] = IF manual THEN @ ELSE Another(@, now)]
<1>1. /\ s.enabled \in BOOLEAN /\ s.stopped \in SUBSET Core /\ s.counts \in [Keys -> Nat]
      /\ s.last \in [Keys -> Nat] /\ s.attempts \in [Keys -> SUBSET (Nat \X Nat)]
      /\ DOMAIN s = {"enabled", "stopped", "counts", "last", "attempts"}
  BY DEF States
<1> DEFINE set == IF manual THEN s.attempts[k] ELSE Another(s.attempts[k], now)
<1>2. set \in SUBSET (Nat \X Nat) /\ IsFiniteSet(set)
  BY <1>1, AnotherTyped DEF Countable
<1> DEFINE counts == [s.counts EXCEPT ![k] = @ + 1]
           last == [s.last EXCEPT ![k] = now]
           attempts == [s.attempts EXCEPT ![k] = set]
<1>3. counts \in [Keys -> Nat] /\ last \in [Keys -> Nat] /\ attempts \in [Keys -> SUBSET (Nat \X Nat)]
  BY <1>1, <1>2
<1>4. \A i \in Keys : IsFiniteSet(attempts[i])
  BY <1>1, <1>2 DEF Countable
<1>5. Charged(s, k, now, manual) = [s EXCEPT !.counts = counts, !.last = last, !.attempts = attempts]
  BY <1>1 DEF Charged
<1> HIDE DEF counts, last, attempts
<1>6. /\ Charged(s, k, now, manual) \in States
      /\ Charged(s, k, now, manual).stopped = s.stopped
      /\ Charged(s, k, now, manual).enabled = s.enabled
      /\ Charged(s, k, now, manual).counts = counts
      /\ Charged(s, k, now, manual).last = last
      /\ Charged(s, k, now, manual).attempts = attempts
  BY <1>1, <1>3, <1>5 DEF States
<1> QED
  BY <1>4, <1>6 DEF Countable, counts, last, attempts

LEMMA RestartOutcome ==
    ASSUME TypeOK, Finite, NEW j \in Jobs, Restart(j)
    PROVE  /\ job' \in [Jobs -> Process] /\ Others(j)
           /\ job'[j].at = "healing" /\ job'[j].base = job[j].base /\ job'[j].cmd = job[j].cmd
           /\ job'[j].now = job[j].now /\ job'[j].todo = Tail(job[j].todo)
           /\ job'[j].state = Charged(job[j].state, Key(j), job[j].now, job[j].manual)
           /\ At(j, "healing") /\ job[j].todo # <<>> /\ Due(j)
           /\ file' = file /\ lock' = lock /\ api' = api /\ halted' \in {halted, halted \ {Row(j).row}}
           /\ clock' = clock /\ faults' = faults /\ asked' = asked /\ trouble' = trouble
           /\ toggled' = toggled /\ intended' = intended /\ latest' = latest
           /\ job[j].manual => log' = log /\ failed' = failed
           /\ ~job[j].manual => /\ log' = [log EXCEPT ![Key(j)] = Append(@, job[j].now)]
                                /\ failed' = [failed EXCEPT ![Key(j)] = @ + 1]
<1>0. /\ At(j, "healing") /\ job[j].todo # <<>> /\ Due(j)
      /\ file' = file /\ lock' = lock /\ api' = api /\ halted' \in {halted, halted \ {Row(j).row}}
      /\ clock' = clock /\ faults' = faults /\ asked' = asked /\ trouble' = trouble
      /\ toggled' = toggled /\ intended' = intended /\ latest' = latest
      /\ job[j].manual => log' = log /\ failed' = failed
      /\ ~job[j].manual => /\ log' = [log EXCEPT ![Key(j)] = Append(@, job[j].now)]
                           /\ failed' = [failed EXCEPT ![Key(j)] = @ + 1]
  BY DEF Restart, Considering
<1>1. /\ job[j] \in Process /\ job[j].state \in States /\ job[j].todo # <<>> /\ job[j].at = "healing"
      /\ job[j].now \in Nat /\ job[j].manual \in BOOLEAN /\ Countable(job[j].state)
  BY DEF TypeOK, Process, Restart, Considering, At, Finite
<1>2. Key(j) \in Keys /\ Tail(job[j].todo) \in Seq(Entry)
  BY <1>1, TodoTyped
<1>3. Charged(job[j].state, Key(j), job[j].now, job[j].manual) \in States
  BY <1>1, <1>2, ChargedTyped
<1>5. /\ job'[j] = [job[j] EXCEPT !.state = Charged(job[j].state, Key(j), job[j].now, job[j].manual),
                                  !.todo = Tail(job[j].todo)]
      /\ Others(j) /\ DOMAIN job' = Jobs
  BY DEF TypeOK, Others, Restart
<1>6. job'[j] \in Process
  BY <1>1, <1>2, <1>3, <1>5 DEF Process
<1>7. job' \in [Jobs -> Process]
  BY <1>5, <1>6 DEF TypeOK, Others, Restart
<1> QED
  BY <1>0, <1>1, <1>5, <1>7 DEF Process

LEMMA CommandOutcome ==
    ASSUME TypeOK, NEW j \in Jobs, NEW cmd \in Commands, Command(j, cmd)
    PROVE  /\ job' \in [Jobs -> Process] /\ Others(j)
           /\ job'[j].at = "saving" /\ job'[j].base = file /\ job'[j].cmd = cmd
           /\ job'[j].state = Commanded(LoadState, cmd)
           /\ j = cmd.by /\ At(j, "idle") /\ (j \in ApiJobs => api = "up" /\ lock = None)
           /\ lock' = (IF j \in ApiJobs THEN j ELSE lock) /\ intended' = Halting(intended, cmd)
           /\ file' = file /\ api' = api /\ halted' = halted /\ clock' = clock /\ faults' = faults /\ asked' = asked + 1
           /\ toggled' = toggled /\ log' = log /\ failed' = failed /\ latest' = latest
           /\ trouble' = trouble \union (IF file = Torn THEN {"torn"} ELSE {})
<1>0. /\ j = cmd.by /\ At(j, "idle") /\ (j \in ApiJobs => api = "up" /\ lock = None)
      /\ lock' = (IF j \in ApiJobs THEN j ELSE lock) /\ intended' = Halting(intended, cmd)
      /\ file' = file /\ api' = api /\ halted' = halted /\ clock' = clock /\ faults' = faults /\ asked' = asked + 1
      /\ toggled' = toggled /\ log' = log /\ failed' = failed /\ latest' = latest
      /\ trouble' = trouble \union (IF file = Torn THEN {"torn"} ELSE {})
  BY DEF Command, Running, Free, Held, ReadNoted
<1>1. Commanded(LoadState, cmd) \in States /\ file \in States \union {Missing, Torn}
  BY LoadStateTyped, CommandedTyped DEF TypeOK
<1>2. job' = [job EXCEPT ![j] = [Idle EXCEPT !.at = "saving", !.cmd = cmd, !.base = file,
                                             !.state = Commanded(LoadState, cmd)]]
  BY DEF Command
<1>3. [Idle EXCEPT !.at = "saving", !.cmd = cmd, !.base = file,
                   !.state = Commanded(LoadState, cmd)] \in Process
  BY <1>1, IdleTyped DEF Process
<1> QED
  BY <1>0, <1>2, <1>3, IdleTyped DEF TypeOK, Others, Process

LEMMA ActOutcome ==
    ASSUME TypeOK, Act
    PROVE  /\ job' \in [Jobs -> Process] /\ Others("operator") /\ job'["operator"] = Idle
           /\ At("operator", "acting") /\ halted' = Halting(halted, job["operator"].cmd)
           /\ file' = file /\ lock' = lock /\ api' = api /\ clock' = clock
           /\ faults' = faults /\ asked' = asked /\ UNCHANGED observed /\ trouble' = trouble
<1>0. /\ At("operator", "acting") /\ halted' = Halting(halted, job["operator"].cmd)
      /\ file' = file /\ lock' = lock /\ api' = api /\ clock' = clock
      /\ faults' = faults /\ asked' = asked /\ UNCHANGED observed /\ trouble' = trouble
  BY DEF Act, observed
<1>1. "operator" \in Jobs
  BY DEF Jobs, CliJobs
<1> QED
  BY <1>0, <1>1, IdleTyped DEF Act, TypeOK, Others

LEMMA StartApiOutcome ==
    ASSUME TypeOK, StartApi
    PROVE  /\ job' \in [Jobs -> Process] /\ Others("startup")
           /\ \/ file # Missing /\ job' = job /\ api' = "up" /\ lock' = lock
              \/ /\ file = Missing /\ api' = "starting" /\ lock' = "startup"
                 /\ job'["startup"].at = "saving" /\ job'["startup"].base = Missing
                 /\ job'["startup"].cmd = NoCommand
                 /\ job'["startup"].state = [DefaultState EXCEPT !.enabled = DefaultEnabled]
           /\ api = "down" /\ file' = file /\ halted' = halted /\ clock' = clock
           /\ faults' = faults /\ asked' = asked /\ UNCHANGED observed /\ trouble' = trouble
<1>0. /\ api = "down" /\ file' = file /\ halted' = halted /\ clock' = clock
      /\ faults' = faults /\ asked' = asked /\ UNCHANGED observed /\ trouble' = trouble
  BY DEF StartApi, observed
<1>1. "startup" \in Jobs
  BY DEF Jobs, ApiJobs
<1>2. [DefaultState EXCEPT !.enabled = DefaultEnabled] \in States
  BY DefaultTyped, SelfHealAssumption DEF States
<1> DEFINE p == [Idle EXCEPT !.at = "saving", !.base = Missing,
                             !.state = [DefaultState EXCEPT !.enabled = DefaultEnabled]]
<1>3. /\ p \in Process
      /\ p.at = "saving" /\ p.base = Missing /\ p.cmd = NoCommand
      /\ p.state = [DefaultState EXCEPT !.enabled = DefaultEnabled]
  BY <1>2, IdleTyped DEF Process
<1>4. CASE file = Missing
  <2>1. job' = [job EXCEPT !["startup"] = p] /\ api' = "starting" /\ lock' = "startup"
    BY <1>4 DEF StartApi, SeedNeeded
  <2> QED
    BY <1>0, <1>1, <1>3, <1>4, <2>1 DEF TypeOK, Others
<1>5. CASE file # Missing
  BY <1>5 DEF StartApi, SeedNeeded, TypeOK, Others
<1> QED
  BY <1>0, <1>4, <1>5

LEMMA TruncateOutcome ==
    ASSUME TypeOK, NEW j \in Jobs, Truncate(j)
    PROVE  /\ job' \in [Jobs -> Process] /\ Others(j)
           /\ job'[j].at = "writing" /\ job'[j].cmd = job[j].cmd /\ job'[j].state = job[j].state
           /\ job'[j].base = Missing
           /\ At(j, "saving") \/ At(j, "healing")
           /\ file' = Torn /\ lock' = lock /\ api' = api /\ halted' = halted /\ clock' = clock
           /\ faults' = faults /\ asked' = asked /\ UNCHANGED observed
           /\ trouble' = trouble \union (IF file # job[j].base THEN {"lost"} ELSE {})
<1>0. /\ At(j, "saving") \/ At(j, "healing")
      /\ file' = Torn /\ lock' = lock /\ api' = api /\ halted' = halted /\ clock' = clock
      /\ faults' = faults /\ asked' = asked /\ UNCHANGED observed
      /\ trouble' = trouble \union (IF file # job[j].base THEN {"lost"} ELSE {})
  BY DEF Truncate, Ready, observed
<1>1. job[j] \in Process
  BY DEF TypeOK
<1>2. [Idle EXCEPT !.at = "writing", !.cmd = job[j].cmd, !.state = job[j].state] \in Process
  BY <1>1, IdleTyped DEF Process
<1> QED
  BY <1>0, <1>2, IdleTyped DEF TypeOK, Others, Process, Truncate

LEMMA WriteOutcome ==
    ASSUME TypeOK, NEW j \in Jobs, Write(j)
    PROVE  /\ job' \in [Jobs -> Process] /\ Others(j)
           /\ job'[j].at = (IF Acts(j) THEN "acting" ELSE "idle")
           /\ job'[j].cmd = (IF Acts(j) THEN job[j].cmd ELSE NoCommand)
           /\ job'[j].state = DefaultState /\ job'[j].base = Missing
           /\ At(j, "writing") /\ file' = job[j].state /\ lock' = (IF j \in ApiJobs THEN None ELSE lock)
           /\ api' = (IF j = "startup" THEN "up" ELSE api) /\ halted' = halted /\ clock' = clock
           /\ toggled' = (IF job[j].cmd.what = "toggle" THEN {job[j].cmd.on} ELSE toggled)
           /\ faults' = faults /\ asked' = asked /\ intended' = intended /\ log' = log /\ failed' = failed
           /\ latest' = latest /\ trouble' = trouble
<1>0. /\ At(j, "writing") /\ file' = job[j].state /\ lock' = (IF j \in ApiJobs THEN None ELSE lock)
      /\ api' = (IF j = "startup" THEN "up" ELSE api) /\ halted' = halted /\ clock' = clock
      /\ toggled' = (IF job[j].cmd.what = "toggle" THEN {job[j].cmd.on} ELSE toggled)
      /\ faults' = faults /\ asked' = asked /\ intended' = intended /\ log' = log /\ failed' = failed
      /\ latest' = latest /\ trouble' = trouble
  BY DEF Write, Released
<1>1. job[j].cmd \in Commands \union {NoCommand}
  BY DEF TypeOK, Process
<1>2. [Idle EXCEPT !.at = "acting", !.cmd = job[j].cmd] \in Process
  BY <1>1, IdleTyped DEF Process
<1> QED
  BY <1>0, <1>2, IdleTyped DEF TypeOK, Others, Process, Write

LEMMA UnwrittenOutcome ==
    ASSUME TypeOK, NEW j \in Jobs, Unwritten(j)
    PROVE  /\ job' \in [Jobs -> Process] /\ Others(j)
           /\ job'[j].at \in {"idle", "acting"}
           /\ job'[j].at = "idle" => job'[j].cmd = NoCommand
           /\ job'[j].at = "acting" => Acts(j) /\ job'[j].cmd = job[j].cmd
           /\ job'[j].state = DefaultState /\ job'[j].base = Missing
           /\ At(j, "saving") \/ At(j, "healing")
           /\ lock' = (IF j \in ApiJobs THEN None ELSE lock) /\ api' = (IF j = "startup" THEN "down" ELSE api)
           /\ file' = file /\ halted' = halted /\ clock' = clock
           /\ faults' = faults + 1 /\ asked' = asked /\ UNCHANGED observed
           /\ trouble' = trouble \union {"unsaved"}
<1>0. /\ At(j, "saving") \/ At(j, "healing")
      /\ lock' = (IF j \in ApiJobs THEN None ELSE lock) /\ api' = (IF j = "startup" THEN "down" ELSE api)
      /\ file' = file /\ halted' = halted /\ clock' = clock
      /\ faults' = faults + 1 /\ asked' = asked /\ UNCHANGED observed
      /\ trouble' = trouble \union {"unsaved"}
  BY DEF Unwritten, Ready, Released, observed
<1>1. job[j].cmd \in Commands \union {NoCommand}
  BY DEF TypeOK, Process
<1>2. [Idle EXCEPT !.at = "acting", !.cmd = job[j].cmd] \in Process
  BY <1>1, IdleTyped DEF Process
<1> QED
  BY <1>0, <1>2, IdleTyped DEF TypeOK, Others, Process, Unwritten

LEMMA CrashOutcome ==
    ASSUME TypeOK, Crash
    PROVE  /\ job' \in [Jobs -> Process]
           /\ \A j \in ApiJobs : job'[j] = Idle
           /\ \A j \in Jobs \ ApiJobs : job'[j] = job[j]
           /\ file' = file /\ api' = "down" /\ lock' = None /\ halted' = halted /\ clock' = clock
           /\ faults' = faults + 1 /\ asked' = asked /\ UNCHANGED observed
           /\ trouble' = trouble \union (IF lock # None THEN {"crash"} ELSE {})
<1>0. /\ file' = file /\ api' = "down" /\ lock' = None /\ halted' = halted /\ clock' = clock
      /\ faults' = faults + 1 /\ asked' = asked /\ UNCHANGED observed
      /\ trouble' = trouble \union (IF lock # None THEN {"crash"} ELSE {})
  BY DEF Crash, observed
<1>1. /\ job' \in [Jobs -> Process]
      /\ \A j \in ApiJobs : job'[j] = Idle
      /\ \A j \in Jobs \ ApiJobs : job'[j] = job[j]
  BY IdleTyped DEF Crash, TypeOK, Jobs
<1> QED
  BY <1>0, <1>1

-----------------------------------------------------------------------------
(* Each step keeps each part. *)

LEMMA TypeStep ==
    ASSUME TypeOK, Phases, Roles, Finite, [Next]_vars
    PROVE  TypeOK'
<1>1. ASSUME NEW j \in Jobs, Survey(j) PROVE TypeOK'
  <2>1. Locked'
    BY <1>1, SurveyOutcome DEF TypeOK, Locked, At, Others, ApiJobs, None, Jobs
  <2>2. clock' \in Nat /\ faults' \in Nat /\ asked' \in Nat
    BY <1>1, SurveyOutcome DEF TypeOK
  <2> QED
    BY <1>1, <2>1, <2>2, SurveyOutcome DEF TypeOK, observed
<1>2. ASSUME NEW j \in Jobs, ReadMarkers(j) PROVE TypeOK'
  <2>1. Locked'
    BY <1>2, ReadMarkersOutcome DEF TypeOK, Locked, At, Others, ApiJobs, None, Jobs
  <2>2. clock' \in Nat /\ faults' \in Nat /\ asked' \in Nat
    BY <1>2, ReadMarkersOutcome DEF TypeOK
  <2> QED
    BY <1>2, <2>1, <2>2, ReadMarkersOutcome DEF TypeOK, observed
<1>3. ASSUME NEW j \in Jobs, TakeState(j) PROVE TypeOK'
  <2>1. job[j].now \in Nat
    BY DEF TypeOK, Process
  <2>2. Locked'
    BY <1>3, TakeStateOutcome DEF TypeOK, Locked, At, Others, ApiJobs, None, Jobs
  <2>3. clock' \in Nat /\ faults' \in Nat /\ asked' \in Nat
    BY <1>3, TakeStateOutcome DEF TypeOK
  <2> QED
    BY <1>3, <2>2, <2>3, TakeStateOutcome, <2>1 DEF TypeOK, observed
<1>4. ASSUME NEW j \in Jobs, Recover(j) PROVE TypeOK'
  <2>1. Key(j) \in Keys
    BY <1>4, TodoTyped, RecoverOutcome
  <2>2. failed' = [failed EXCEPT ![Key(j)] = 0] /\ At(j, "healing") /\ Others(j) /\ lock' = lock
    BY <1>4, RecoverOutcome
  <2>3. failed' \in [Keys -> Nat]
    BY <2>1, <2>2 DEF TypeOK
  <2>4. Locked'
    BY <2>2 DEF TypeOK, Locked, At, Others, Jobs
  <2>5. clock' \in Nat /\ faults' \in Nat /\ asked' \in Nat
    BY <1>4, RecoverOutcome DEF TypeOK
  <2> QED
    BY <1>4, <2>5, RecoverOutcome, <2>3, <2>4 DEF TypeOK, observed
<1>5. ASSUME NEW j \in Jobs, LeaveAlone(j) PROVE TypeOK'
  <2>1. Locked'
    BY <1>5, LeaveAloneOutcome DEF TypeOK, Locked, At, Others, ApiJobs, None, Jobs
  <2>2. clock' \in Nat /\ faults' \in Nat /\ asked' \in Nat
    BY <1>5, LeaveAloneOutcome DEF TypeOK
  <2> QED
    BY <1>5, <2>1, <2>2, LeaveAloneOutcome DEF TypeOK, observed
<1>6. ASSUME NEW j \in Jobs, Restart(j) PROVE TypeOK'
  <2>1. Key(j) \in Keys /\ job[j].now \in Nat
    BY <1>6, TodoTyped, RestartOutcome DEF TypeOK, Process
  <2>2. log' \in [Keys -> Seq(Nat)]
    <3>1. Append(log[Key(j)], job[j].now) \in Seq(Nat)
      BY <2>1 DEF TypeOK
    <3>2. log' = log \/ log' = [log EXCEPT ![Key(j)] = Append(@, job[j].now)]
      BY <1>6, RestartOutcome
    <3> QED
      BY <2>1, <3>1, <3>2 DEF TypeOK
  <2>3. failed' \in [Keys -> Nat]
    <3>1. [failed EXCEPT ![Key(j)] = @ + 1] \in [Keys -> Nat]
      BY <2>1 DEF TypeOK
    <3> QED
      BY <1>6, <3>1, RestartOutcome DEF TypeOK
  <2>4. Locked'
    BY <1>6, RestartOutcome DEF TypeOK, Locked, At, Others, ApiJobs, None, Jobs
  <2>5. clock' \in Nat /\ faults' \in Nat /\ asked' \in Nat
    BY <1>6, RestartOutcome DEF TypeOK
  <2> QED
    BY <1>6, <2>4, <2>5, RestartOutcome, <2>2, <2>3 DEF TypeOK, observed
<1>7. ASSUME NEW j \in Jobs, Truncate(j) PROVE TypeOK'
  <2>1. Locked'
    BY <1>7, TruncateOutcome DEF TypeOK, Locked, At, Others, ApiJobs, None, Jobs
  <2>2. clock' \in Nat /\ faults' \in Nat /\ asked' \in Nat
    BY <1>7, TruncateOutcome DEF TypeOK
  <2> QED
    BY <1>7, <2>1, <2>2, TruncateOutcome DEF TypeOK, observed
<1>8. ASSUME NEW j \in Jobs, Write(j) PROVE TypeOK'
  <2>1. job[j].state \in States /\ job[j].cmd \in Commands \union {NoCommand}
    BY DEF TypeOK, Process
  <2>2. job[j].cmd.what = "toggle" => job[j].cmd.on \in BOOLEAN
    BY <2>1, CommandTyped DEF NoCommand, None
  <2>3. toggled' \subseteq BOOLEAN
    BY <1>8, <2>2, WriteOutcome DEF TypeOK
  <2>4. Locked'
    BY <1>8, WriteOutcome DEF TypeOK, Locked, At, Others, ApiJobs, None, Jobs
  <2>5. clock' \in Nat /\ faults' \in Nat /\ asked' \in Nat
    BY <1>8, WriteOutcome DEF TypeOK
  <2> QED
    BY <1>8, <2>4, <2>5, WriteOutcome, <2>1, <2>3 DEF TypeOK, observed
<1>9. ASSUME NEW j \in Jobs, Unwritten(j) PROVE TypeOK'
  <2>1. Locked'
    BY <1>9, UnwrittenOutcome DEF TypeOK, Locked, At, Others, ApiJobs, None, Jobs
  <2>2. clock' \in Nat /\ faults' \in Nat /\ asked' \in Nat
    BY <1>9, UnwrittenOutcome DEF TypeOK
  <2> QED
    BY <1>9, <2>1, <2>2, UnwrittenOutcome DEF TypeOK, observed
<1>10. ASSUME NEW j \in Jobs, NEW cmd \in Commands, Command(j, cmd) PROVE TypeOK'
  <2>1. Halting(intended, cmd) \subseteq Core
    BY CommandTyped DEF Halting, TypeOK
  <2>2. intended' \subseteq Core /\ file' \in States \union {Missing, Torn} /\ job' \in [Jobs -> Process]
    BY <1>10, <2>1, CommandOutcome DEF TypeOK
  <2>3. lock' = (IF j \in ApiJobs THEN j ELSE lock)
        /\ trouble' = trouble \union (IF file = Torn THEN {"torn"} ELSE {})
        /\ (j \in ApiJobs => lock = None) /\ At(j, "idle") /\ Others(j)
    BY <1>10, CommandOutcome
  <2>4. lock' \in ApiJobs \union {None}
        /\ trouble' \subseteq {"lost", "torn", "overlap", "crash", "unsaved", "overtaken"}
    BY <2>3 DEF TypeOK
  <2>5. Locked'
    BY <1>10, <2>3 DEF TypeOK, Locked, At, Others, ApiJobs, None, Jobs
  <2>6. clock' \in Nat /\ faults' \in Nat /\ asked' \in Nat
    BY <1>10, CommandOutcome DEF TypeOK
  <2> QED
    BY <1>10, <2>5, <2>6, CommandOutcome, <2>2, <2>4 DEF TypeOK, observed
<1>11. CASE Act
  <2>1. job["operator"].cmd \in Commands /\ Acts("operator")
    BY <1>11, ActOutcome DEF Roles, TypeOK, Process, Jobs, CliJobs, At
  <2>2. Halting(halted, job["operator"].cmd) \subseteq Core
    BY <2>1, CommandTyped DEF Halting, TypeOK, Acts
  <2>3. Locked'
    BY <1>11, ActOutcome DEF TypeOK, Locked, At, Others, ApiJobs, None, Jobs
  <2>4. clock' \in Nat /\ faults' \in Nat /\ asked' \in Nat
    BY <1>11, ActOutcome DEF TypeOK
  <2> QED
    BY <1>11, <2>3, <2>4, ActOutcome, <2>2 DEF TypeOK, observed
<1>12. CASE StartApi
  <2>1. lock' \in ApiJobs \union {None} /\ api' \in {"down", "starting", "up"}
    BY <1>12, StartApiOutcome DEF TypeOK, ApiJobs
  <2>2. Locked'
    BY <1>12, StartApiOutcome DEF TypeOK, Locked, At, Others, ApiJobs, None, Jobs, Phases
  <2>3. clock' \in Nat /\ faults' \in Nat /\ asked' \in Nat
    BY <1>12, StartApiOutcome DEF TypeOK
  <2> QED
    BY <1>12, <2>2, <2>3, StartApiOutcome, <2>1 DEF TypeOK, observed
<1>13. CASE Crash
  <2>1. Locked'
    BY <1>13, CrashOutcome, IdleTyped DEF TypeOK, Locked, At, Others, ApiJobs, None, Jobs
  <2>2. clock' \in Nat /\ faults' \in Nat /\ asked' \in Nat
    BY <1>13, CrashOutcome DEF TypeOK
  <2> QED
    BY <1>13, <2>1, <2>2, CrashOutcome DEF TypeOK, observed
<1>14. CASE Tick
  BY <1>14 DEF Tick, TypeOK, Locked, At, observed
<1>15. CASE UNCHANGED vars
  BY <1>15 DEF vars, TypeOK, Locked, At, observed
<1> QED
  BY <1>1, <1>2, <1>3, <1>4, <1>5, <1>6, <1>7, <1>8, <1>9, <1>10, <1>11, <1>12, <1>13, <1>14,
     <1>15 DEF Next

LEMMA HealersTyped == Healers \subseteq {"watchdog", "dashboard", "selfheal"}
BY SelfHealAssumption

(* A command is in the hands of who was asked, and only the operator acts. *)
LEMMA CommandHeld ==
    ASSUME TypeOK, Roles, NEW j \in Jobs
    PROVE  /\ job[j].cmd \in Commands \union {NoCommand}
           /\ Acts(j) => j = "operator"
           /\ job[j].cmd # NoCommand => j \in {"operator", "panel"}
           /\ job[j].cmd.what = "toggle" => job[j].cmd # NoCommand /\ job[j].cmd.on \in BOOLEAN
<1>1. job[j].cmd \in Commands \union {NoCommand}
  BY DEF TypeOK, Process
<1>2. job[j].cmd # NoCommand => job[j].cmd.by = j
  BY DEF Roles
<1>3. job[j].cmd = NoCommand => job[j].cmd.what = "none"
  BY DEF NoCommand, None
<1> QED
  BY <1>1, <1>2, <1>3, CommandTyped DEF Acts

LEMMA PhasesStep ==
    ASSUME TypeOK, Phases, Roles, Finite, [Next]_vars
    PROVE  Phases'
<1>1. ASSUME NEW j \in Jobs, Survey(j) PROVE Phases'
  <2>1. /\ At(j, "idle") /\ j \in Healers
        /\ (j \in ApiJobs => api = "up")
        /\ Others(j) /\ job'[j].at = "surveyed" /\ api' = api
    BY <1>1, SurveyOutcome
  <2> QED
    BY <2>1, HealersTyped DEF Phases, At, Others, Jobs, ApiJobs
<1>2. ASSUME NEW j \in Jobs, ReadMarkers(j) PROVE Phases'
  <2>1. At(j, "surveyed") /\ Others(j) /\ job'[j].at = "waiting" /\ api' = api
    BY <1>2, ReadMarkersOutcome
  <2> QED
    BY <2>1 DEF Phases, At, Others, Jobs, ApiJobs
<1>3. ASSUME NEW j \in Jobs, TakeState(j) PROVE Phases'
  <2>1. At(j, "waiting") /\ Others(j) /\ job'[j].at = "healing" /\ api' = api
    BY <1>3, TakeStateOutcome
  <2> QED
    BY <2>1 DEF Phases, At, Others, Jobs, ApiJobs
<1>4. ASSUME NEW j \in Jobs, Recover(j) PROVE Phases'
  <2>1. /\ At(j, "healing") /\ job[j].todo # <<>> /\ Others(j) /\ job'[j].at = "healing"
        /\ api' = api
    BY <1>4, RecoverOutcome
  <2> QED
    BY <2>1 DEF Phases, At, Others, Jobs, ApiJobs
<1>5. ASSUME NEW j \in Jobs, LeaveAlone(j) PROVE Phases'
  <2>1. /\ At(j, "healing") /\ job[j].todo # <<>> /\ Others(j) /\ job'[j].at = "healing"
        /\ api' = api
    BY <1>5, LeaveAloneOutcome
  <2> QED
    BY <2>1 DEF Phases, At, Others, Jobs, ApiJobs
<1>6. ASSUME NEW j \in Jobs, Restart(j) PROVE Phases'
  <2>1. /\ At(j, "healing") /\ job[j].todo # <<>> /\ Due(j) /\ Others(j) /\ job'[j].at = "healing"
        /\ api' = api
    BY <1>6, RestartOutcome
  <2> QED
    BY <2>1 DEF Phases, At, Others, Jobs, ApiJobs
<1>7. ASSUME NEW j \in Jobs, Truncate(j) PROVE Phases'
  <2>1. /\ At(j, "saving") \/ At(j, "healing")
        /\ Others(j) /\ job'[j].at = "writing" /\ api' = api
    BY <1>7, TruncateOutcome
  <2> QED
    BY <2>1 DEF Phases, At, Others, Jobs, ApiJobs
<1>8. ASSUME NEW j \in Jobs, Write(j) PROVE Phases'
  <2>1. /\ At(j, "writing") /\ Others(j) /\ job'[j].at = (IF Acts(j) THEN "acting" ELSE "idle")
        /\ api' = (IF j = "startup" THEN "up" ELSE api)
    BY <1>8, WriteOutcome
  <2> QED
    BY <2>1, CommandHeld DEF Phases, At, Others, Jobs, ApiJobs
<1>9. ASSUME NEW j \in Jobs, Unwritten(j) PROVE Phases'
  <2>1. /\ At(j, "saving") \/ At(j, "healing")
        /\ Others(j) /\ job'[j].at \in {"idle", "acting"}
        /\ api' = (IF j = "startup" THEN "down" ELSE api)
        /\ (job'[j].at = "idle" => job'[j].cmd = NoCommand)
        /\ (job'[j].at = "acting" => Acts(j) /\ job'[j].cmd = job[j].cmd)
    BY <1>9, UnwrittenOutcome
  <2> QED
    BY <2>1, CommandHeld DEF Phases, At, Others, Jobs, ApiJobs, TypeOK
<1>10. ASSUME NEW j \in Jobs, NEW cmd \in Commands, Command(j, cmd) PROVE Phases'
  <2>1. /\ At(j, "idle") /\ j = cmd.by
        /\ (j \in ApiJobs => api = "up")
        /\ Others(j) /\ job'[j].at = "saving" /\ api' = api
    BY <1>10, CommandOutcome
  <2> QED
    BY <2>1, CommandTyped DEF Phases, At, Others, Jobs, ApiJobs
<1>11. CASE Act
  <2>1. At("operator", "acting") /\ Others("operator") /\ job'["operator"] = Idle /\ api' = api
    BY <1>11, ActOutcome
  <2> QED
    BY <2>1, IdleTyped DEF Phases, At, Others, Jobs, ApiJobs
<1>12. CASE StartApi
  <2>1. /\ api = "down" /\ Others("startup")
        /\ \/ file # Missing /\ job' = job /\ api' = "up" /\ lock' = lock
           \/ /\ file = Missing /\ api' = "starting" /\ lock' = "startup"
              /\ job'["startup"].at = "saving" /\ job'["startup"].base = Missing
              /\ job'["startup"].cmd = NoCommand
              /\ job'["startup"].state = [DefaultState EXCEPT !.enabled = DefaultEnabled]
    BY <1>12, StartApiOutcome
  <2> QED
    BY <2>1 DEF Phases, At, Others, Jobs, ApiJobs
<1>13. CASE Crash
  <2>1. /\ \A j \in Jobs \ ApiJobs : job'[j] = job[j]
        /\ \A j \in ApiJobs : job'[j] = Idle
        /\ api' = "down"
    BY <1>13, CrashOutcome
  <2> QED
    BY <2>1, IdleTyped DEF Phases, At, Others, Jobs, ApiJobs
<1>14. CASE Tick
  BY <1>14 DEF Tick, Phases, At, Others, Jobs, ApiJobs
<1>15. CASE UNCHANGED vars
  BY <1>15 DEF vars, Phases, At, Others, Jobs, ApiJobs
<1> QED
  BY <1>1, <1>2, <1>3, <1>4, <1>5, <1>6, <1>7, <1>8, <1>9, <1>10, <1>11, <1>12, <1>13, <1>14,
     <1>15 DEF Next

LEMMA OperatorIsAJob == "operator" \in Jobs
BY DEF Jobs, CliJobs

LEMMA RolesStep ==
    ASSUME TypeOK, Phases, Roles, Finite, [Next]_vars
    PROVE  Roles'
<1>1. ASSUME NEW j \in Jobs, Survey(j) PROVE Roles'
  <2>1. /\ At(j, "idle") /\ j \in Healers /\ Others(j) /\ job'[j].at = "surveyed"
        /\ job'[j].cmd = NoCommand
    BY <1>1, SurveyOutcome
  <2> QED
    BY OperatorIsAJob, <2>1, HealersTyped DEF Roles, At, Others, Acts
<1>2. ASSUME NEW j \in Jobs, ReadMarkers(j) PROVE Roles'
  <2>1. At(j, "surveyed") /\ Others(j) /\ job'[j].at = "waiting" /\ job'[j].cmd = job[j].cmd
    BY <1>2, ReadMarkersOutcome
  <2> QED
    BY <2>1 DEF Roles, At, Others, Acts, Jobs, CliJobs
<1>3. ASSUME NEW j \in Jobs, TakeState(j) PROVE Roles'
  <2>1. At(j, "waiting") /\ Others(j) /\ job'[j].at = "healing" /\ job'[j].cmd = job[j].cmd
    BY <1>3, TakeStateOutcome
  <2> QED
    BY <2>1 DEF Roles, At, Others, Acts, Jobs, CliJobs
<1>4. ASSUME NEW j \in Jobs, Recover(j) PROVE Roles'
  <2>1. /\ At(j, "healing") /\ job[j].todo # <<>> /\ Others(j) /\ job'[j].at = "healing"
        /\ job'[j].cmd = job[j].cmd
    BY <1>4, RecoverOutcome
  <2> QED
    BY <2>1 DEF Roles, At, Others, Acts, Jobs, CliJobs
<1>5. ASSUME NEW j \in Jobs, LeaveAlone(j) PROVE Roles'
  <2>1. /\ At(j, "healing") /\ job[j].todo # <<>> /\ Others(j) /\ job'[j].at = "healing"
        /\ job'[j].cmd = job[j].cmd
    BY <1>5, LeaveAloneOutcome
  <2> QED
    BY <2>1 DEF Roles, At, Others, Acts, Jobs, CliJobs
<1>6. ASSUME NEW j \in Jobs, Restart(j) PROVE Roles'
  <2>1. /\ At(j, "healing") /\ job[j].todo # <<>> /\ Due(j) /\ Others(j) /\ job'[j].at = "healing"
        /\ job'[j].cmd = job[j].cmd
    BY <1>6, RestartOutcome
  <2> QED
    BY <2>1 DEF Roles, At, Others, Acts, Jobs, CliJobs
<1>7. ASSUME NEW j \in Jobs, Truncate(j) PROVE Roles'
  <2>1. /\ At(j, "saving") \/ At(j, "healing")
        /\ Others(j) /\ job'[j].at = "writing" /\ job'[j].cmd = job[j].cmd
    BY <1>7, TruncateOutcome
  <2> QED
    BY <2>1 DEF Roles, At, Others, Acts, Jobs, CliJobs
<1>8. ASSUME NEW j \in Jobs, Write(j) PROVE Roles'
  <2>1. /\ At(j, "writing") /\ Others(j) /\ job'[j].at = (IF Acts(j) THEN "acting" ELSE "idle")
        /\ job'[j].cmd = (IF Acts(j) THEN job[j].cmd ELSE NoCommand)
    BY <1>8, WriteOutcome
  <2> QED
    BY <2>1 DEF Roles, At, Others, Acts, Jobs, CliJobs
<1>9. ASSUME NEW j \in Jobs, Unwritten(j) PROVE Roles'
  <2>1. /\ At(j, "saving") \/ At(j, "healing")
        /\ Others(j) /\ job'[j].at \in {"idle", "acting"}
        /\ (job'[j].at = "idle" => job'[j].cmd = NoCommand)
        /\ (job'[j].at = "acting" => Acts(j) /\ job'[j].cmd = job[j].cmd)
    BY <1>9, UnwrittenOutcome
  <2> QED
    BY <2>1 DEF Roles, At, Others, Acts, Jobs, CliJobs
<1>10. ASSUME NEW j \in Jobs, NEW cmd \in Commands, Command(j, cmd) PROVE Roles'
  <2>1. At(j, "idle") /\ j = cmd.by /\ Others(j) /\ job'[j].at = "saving" /\ job'[j].cmd = cmd
    BY <1>10, CommandOutcome
  <2> QED
    BY <2>1, CommandTyped DEF Roles, At, Others, Acts, Jobs, CliJobs
<1>11. CASE Act
  <2>1. At("operator", "acting") /\ Others("operator") /\ job'["operator"] = Idle
    BY <1>11, ActOutcome
  <2> QED
    BY <2>1, IdleTyped DEF Roles, At, Others, Acts, Jobs, CliJobs
<1>12. CASE StartApi
  <2>1. /\ api = "down" /\ Others("startup")
        /\ \/ file # Missing /\ job' = job /\ api' = "up" /\ lock' = lock
           \/ /\ file = Missing /\ api' = "starting" /\ lock' = "startup"
              /\ job'["startup"].at = "saving" /\ job'["startup"].base = Missing
              /\ job'["startup"].cmd = NoCommand
              /\ job'["startup"].state = [DefaultState EXCEPT !.enabled = DefaultEnabled]
    BY <1>12, StartApiOutcome
  <2> QED
    BY <2>1 DEF Roles, At, Others, Acts, Jobs, CliJobs, ApiJobs
<1>13. CASE Crash
  <2>1. /\ \A j \in Jobs \ ApiJobs : job'[j] = job[j]
        /\ \A j \in ApiJobs : job'[j] = Idle
    BY <1>13, CrashOutcome
  <2> QED
    BY <2>1, IdleTyped DEF Roles, At, Others, Acts, Jobs, CliJobs, ApiJobs, NoCommand
<1>14. CASE Tick
  BY <1>14 DEF Tick, Roles, At, Others, Acts, Jobs, CliJobs
<1>15. CASE UNCHANGED vars
  BY <1>15 DEF vars, Roles, At, Others, Acts, Jobs, CliJobs
<1> QED
  BY <1>1, <1>2, <1>3, <1>4, <1>5, <1>6, <1>7, <1>8, <1>9, <1>10, <1>11, <1>12, <1>13, <1>14,
     <1>15 DEF Next

LEMMA StatesAreCountable ==
    ASSUME TypeOK, Finite
    PROVE  /\ Countable(DefaultState) /\ Countable(LoadState)
           /\ \A now \in Nat : Countable(Pruned(LoadState, now))
<1>1. Countable(DefaultState)
  BY FS_EmptySet DEF Countable, DefaultState
<1>2. Countable(LoadState)
  BY <1>1 DEF Finite, LoadState
<1>3. ASSUME NEW now \in Nat PROVE Countable(Pruned(LoadState, now))
  BY <1>2, FS_Subset, LoadStateTyped, PrunedTyped DEF Countable
<1> QED
  BY <1>1, <1>2, <1>3

LEMMA FiniteStep ==
    ASSUME TypeOK, Phases, Roles, Finite, [Next]_vars
    PROVE  Finite'
<1>1. ASSUME NEW j \in Jobs, Survey(j) PROVE Finite'
  <2>1. file' = file /\ Others(j) /\ job'[j].state = DefaultState /\ job'[j].base = Missing
    BY <1>1, SurveyOutcome
  <2> QED
    BY <2>1, StatesAreCountable DEF Finite, Others
<1>2. ASSUME NEW j \in Jobs, ReadMarkers(j) PROVE Finite'
  <2>1. file' = file /\ Others(j) /\ job'[j].state = job[j].state /\ job'[j].base = job[j].base
    BY <1>2, ReadMarkersOutcome
  <2> QED
    BY <2>1 DEF Finite, Others
<1>3. ASSUME NEW j \in Jobs, TakeState(j) PROVE Finite'
  <2>1. /\ file' = file /\ Others(j) /\ job'[j].state = Pruned(LoadState, job[j].now)
        /\ job'[j].base = file
    BY <1>3, TakeStateOutcome
  <2>2. job[j].now \in Nat
    BY DEF TypeOK, Process
  <2> QED
    BY <2>1, <2>2, StatesAreCountable DEF Finite, Others
<1>4. ASSUME NEW j \in Jobs, Recover(j) PROVE Finite'
  <2>1. /\ file' = file /\ Others(j) /\ job'[j].base = job[j].base
        /\ job'[j].state.attempts = job[j].state.attempts
    BY <1>4, RecoverOutcome
  <2> QED
    BY <2>1 DEF Finite, Others, Countable
<1>5. ASSUME NEW j \in Jobs, LeaveAlone(j) PROVE Finite'
  <2>1. file' = file /\ Others(j) /\ job'[j].state = job[j].state /\ job'[j].base = job[j].base
    BY <1>5, LeaveAloneOutcome
  <2> QED
    BY <2>1 DEF Finite, Others
<1>6. ASSUME NEW j \in Jobs, Restart(j) PROVE Finite'
  <2>1. /\ file' = file /\ Others(j)
        /\ job'[j].state = Charged(job[j].state, Key(j), job[j].now, job[j].manual)
        /\ job'[j].base = job[j].base
    BY <1>6, RestartOutcome
  <2>2. /\ Key(j) \in Keys /\ job[j].now \in Nat /\ job[j].manual \in BOOLEAN
        /\ job[j].state \in States
    BY <1>6, TodoTyped, RestartOutcome DEF TypeOK, Process
  <2>3. Countable(Charged(job[j].state, Key(j), job[j].now, job[j].manual))
    BY <2>2, ChargedTyped DEF Finite
  <2> QED
    BY <2>1, <2>3 DEF Finite, Others
<1>7. ASSUME NEW j \in Jobs, Truncate(j) PROVE Finite'
  <2>1. file' = Torn /\ Others(j) /\ job'[j].state = job[j].state /\ job'[j].base = Missing
    BY <1>7, TruncateOutcome
  <2> QED
    BY <2>1, StatesAreCountable DEF Finite, Others
<1>8. ASSUME NEW j \in Jobs, Write(j) PROVE Finite'
  <2>1. /\ file' = job[j].state /\ Others(j) /\ job'[j].state = DefaultState
        /\ job'[j].base = Missing
    BY <1>8, WriteOutcome
  <2> QED
    BY <2>1, StatesAreCountable DEF Finite, Others
<1>9. ASSUME NEW j \in Jobs, Unwritten(j) PROVE Finite'
  <2>1. file' = file /\ Others(j) /\ job'[j].state = DefaultState /\ job'[j].base = Missing
    BY <1>9, UnwrittenOutcome
  <2> QED
    BY <2>1, StatesAreCountable DEF Finite, Others
<1>10. ASSUME NEW j \in Jobs, NEW cmd \in Commands, Command(j, cmd) PROVE Finite'
  <2>1. /\ file' = file /\ Others(j) /\ job'[j].state = Commanded(LoadState, cmd)
        /\ job'[j].base = file
    BY <1>10, CommandOutcome
  <2>2. Countable(Commanded(LoadState, cmd))
    BY LoadStateTyped, CommandedTyped, StatesAreCountable DEF Countable
  <2> QED
    BY <2>1, <2>2 DEF Finite, Others
<1>11. CASE Act
  <2>1. file' = file /\ Others("operator") /\ job'["operator"] = Idle
    BY <1>11, ActOutcome
  <2> QED
    BY <2>1, StatesAreCountable, IdleTyped DEF Finite, Others
<1>12. CASE StartApi
  <2>1. /\ file' = file /\ Others("startup")
        /\ \/ file # Missing /\ job' = job /\ api' = "up" /\ lock' = lock
           \/ /\ file = Missing /\ api' = "starting" /\ lock' = "startup"
              /\ job'["startup"].at = "saving" /\ job'["startup"].base = Missing
              /\ job'["startup"].cmd = NoCommand
              /\ job'["startup"].state = [DefaultState EXCEPT !.enabled = DefaultEnabled]
    BY <1>12, StartApiOutcome
  <2>2. Countable([DefaultState EXCEPT !.enabled = DefaultEnabled])
    BY StatesAreCountable DEF Countable, DefaultState
  <2> QED
    BY <2>1, <2>2 DEF Finite, Others
<1>13. CASE Crash
  <2>1. /\ file' = file
        /\ \A j \in Jobs \ ApiJobs : job'[j] = job[j]
        /\ \A j \in ApiJobs : job'[j] = Idle
    BY <1>13, CrashOutcome
  <2> QED
    BY <2>1, StatesAreCountable, IdleTyped DEF Finite, Others, Jobs
<1>14. CASE Tick
  BY <1>14 DEF Tick, Finite, Others
<1>15. CASE UNCHANGED vars
  BY <1>15 DEF vars, Finite, Others
<1> QED
  BY <1>1, <1>2, <1>3, <1>4, <1>5, <1>6, <1>7, <1>8, <1>9, <1>10, <1>11, <1>12, <1>13, <1>14,
     <1>15 DEF Next

LEMMA TroubleNamed ==
    /\ Without({"lost", "torn", "unsaved"}) <=> Lossless
    /\ Without({"lost", "torn", "overlap", "crash", "unsaved"}) <=> Single
    /\ Without({"lost", "torn", "overlap", "crash", "unsaved", "overtaken"}) <=> Single /\ InOrder
BY DEF Without, Lossless, Single, InOrder

(* What a command makes of a set and of the file's copy. *)
LEMMA HaltingOf ==
    ASSUME NEW set, NEW cmd \in Commands
    PROVE  /\ cmd.what = "stop" => Halting(set, cmd) = set \union {cmd.on}
           /\ cmd.what = "start" => Halting(set, cmd) = set \ {cmd.on}
           /\ cmd.what = "toggle" => Halting(set, cmd) = set
BY DEF Halting

LEMMA CopiesStep ==
    ASSUME TypeOK, Phases, Roles, Finite, Copies, [Next]_vars
    PROVE  Copies'
<1>1. ASSUME NEW j \in Jobs, Survey(j) PROVE Copies'
  <2>1. /\ At(j, "idle") /\ j \in Healers /\ Others(j) /\ job'[j].at = "surveyed"
        /\ job'[j].cmd = NoCommand /\ job'[j].base = Missing /\ job'[j].state = DefaultState
    BY <1>1, SurveyOutcome
  <2> QED
    BY <2>1 DEF Copies, Copied, At, Others, NoCommand, None
<1>2. ASSUME NEW j \in Jobs, ReadMarkers(j) PROVE Copies'
  <2>1. /\ At(j, "surveyed") /\ Others(j) /\ job'[j].at = "waiting" /\ job'[j].cmd = job[j].cmd
        /\ job'[j].base = job[j].base /\ job'[j].state = job[j].state
    BY <1>2, ReadMarkersOutcome
  <2> QED
    BY <2>1 DEF Copies, Copied, At, Others
<1>3. ASSUME NEW j \in Jobs, TakeState(j) PROVE Copies'
  <2>1. /\ At(j, "waiting") /\ Others(j) /\ job'[j].at = "healing" /\ job'[j].cmd = job[j].cmd
        /\ job'[j].base = file /\ job'[j].state = Pruned(LoadState, job[j].now)
    BY <1>3, TakeStateOutcome
  <2>2. /\ LoadState = Read(file) /\ LoadState \in States /\ job[j].now \in Nat
    BY LoadStateTyped DEF LoadState, Read, TypeOK, Process
  <2>3. job'[j].state.stopped = Read(file).stopped /\ job'[j].state.enabled = Read(file).enabled
    BY <2>1, <2>2, PrunedTyped
  <2>4. job'[j].cmd = NoCommand
    BY <2>1 DEF Roles, At
  <2> QED
    BY <2>1, <2>3, <2>4 DEF Copies, Copied, At, Others, NoCommand, None
<1>4. ASSUME NEW j \in Jobs, Recover(j) PROVE Copies'
  <2>1. /\ At(j, "healing") /\ job[j].todo # <<>> /\ Others(j) /\ job'[j].at = "healing"
        /\ job'[j].cmd = job[j].cmd /\ job'[j].base = job[j].base
        /\ job'[j].state.stopped = job[j].state.stopped
        /\ job'[j].state.enabled = job[j].state.enabled
        /\ job'[j].state.counts = [job[j].state.counts EXCEPT ![Key(j)] = 0]
        /\ job'[j].state.last = job[j].state.last /\ job'[j].state.attempts = job[j].state.attempts
    BY <1>4, RecoverOutcome
  <2> QED
    BY <2>1 DEF Copies, Copied, At, Others
<1>5. ASSUME NEW j \in Jobs, LeaveAlone(j) PROVE Copies'
  <2>1. /\ At(j, "healing") /\ job[j].todo # <<>> /\ Others(j) /\ job'[j].at = "healing"
        /\ job'[j].cmd = job[j].cmd /\ job'[j].base = job[j].base /\ job'[j].state = job[j].state
    BY <1>5, LeaveAloneOutcome
  <2> QED
    BY <2>1 DEF Copies, Copied, At, Others
<1>6. ASSUME NEW j \in Jobs, Restart(j) PROVE Copies'
  <2>1. /\ At(j, "healing") /\ job[j].todo # <<>> /\ Due(j) /\ Others(j) /\ job'[j].at = "healing"
        /\ job'[j].cmd = job[j].cmd /\ job'[j].base = job[j].base
        /\ job'[j].state = Charged(job[j].state, Key(j), job[j].now, job[j].manual)
    BY <1>6, RestartOutcome
  <2>2. /\ Key(j) \in Keys /\ job[j].now \in Nat /\ job[j].manual \in BOOLEAN
        /\ job[j].state \in States /\ Countable(job[j].state)
    BY <2>1, TodoTyped DEF TypeOK, Process, Finite
  <2>3. LET charged == Charged(job[j].state, Key(j), job[j].now, job[j].manual)
        IN  charged.stopped = job[j].state.stopped /\ charged.enabled = job[j].state.enabled
    BY <2>2 DEF Charged, States
  <2>4. job'[j].state.stopped = job[j].state.stopped /\ job'[j].state.enabled = job[j].state.enabled
    BY <2>1, <2>3
  <2> QED
    BY <2>1, <2>4 DEF Copies, Copied, At, Others
<1>7. ASSUME NEW j \in Jobs, Truncate(j) PROVE Copies'
  <2>1. /\ At(j, "saving") \/ At(j, "healing")
        /\ Others(j) /\ job'[j].at = "writing" /\ job'[j].cmd = job[j].cmd /\ job'[j].base = Missing
        /\ job'[j].state = job[j].state
    BY <1>7, TruncateOutcome
  <2> QED
    BY <2>1 DEF Copies, Copied, At, Others
<1>8. ASSUME NEW j \in Jobs, Write(j) PROVE Copies'
  <2>1. /\ At(j, "writing") /\ Others(j) /\ job'[j].at = (IF Acts(j) THEN "acting" ELSE "idle")
        /\ job'[j].cmd = (IF Acts(j) THEN job[j].cmd ELSE NoCommand) /\ job'[j].base = Missing
        /\ job'[j].state = DefaultState
    BY <1>8, WriteOutcome
  <2> QED
    BY <2>1 DEF Copies, Copied, At, Others, Acts, NoCommand, None
<1>9. ASSUME NEW j \in Jobs, Unwritten(j) PROVE Copies'
  <2>1. /\ At(j, "saving") \/ At(j, "healing")
        /\ Others(j) /\ job'[j].at \in {"idle", "acting"}
        /\ (job'[j].at = "idle" => job'[j].cmd = NoCommand)
        /\ (job'[j].at = "acting" => Acts(j) /\ job'[j].cmd = job[j].cmd)
        /\ job'[j].base = Missing /\ job'[j].state = DefaultState
    BY <1>9, UnwrittenOutcome
  <2> QED
    BY <2>1 DEF Copies, Copied, At, Others, Acts, NoCommand, None
<1>10. ASSUME NEW j \in Jobs, NEW cmd \in Commands, Command(j, cmd) PROVE Copies'
  <2>1. /\ At(j, "idle") /\ j = cmd.by /\ Others(j) /\ job'[j].at = "saving" /\ job'[j].cmd = cmd
        /\ job'[j].base = file /\ job'[j].state = Commanded(LoadState, cmd)
    BY <1>10, CommandOutcome
  <2>2. LoadState = Read(file) /\ LoadState \in States
    BY LoadStateTyped DEF LoadState, Read
  <2>3. /\ job'[j].state.stopped = Halting(Read(file).stopped, cmd)
        /\ job'[j].state.enabled = (IF cmd.what = "toggle" THEN cmd.on ELSE Read(file).enabled)
        /\ job'[j].state.counts = Read(file).counts /\ job'[j].state.last = Read(file).last
        /\ job'[j].state.attempts = Read(file).attempts
    BY <2>1, <2>2, CommandedTyped
  <2>4. j # "operator" => job'[j].state.stopped = Read(file).stopped
    BY <2>1, <2>3, CommandTyped, HaltingOf
  <2> QED
    BY <2>1, <2>3, <2>4 DEF Copies, Copied, At, Others
<1>11. CASE Act
  <2>1. At("operator", "acting") /\ Others("operator") /\ job'["operator"] = Idle
    BY <1>11, ActOutcome
  <2> QED
    BY <2>1, IdleTyped DEF Copies, Copied, At, Others, NoCommand, None
<1>12. CASE StartApi
  <2>1. /\ api = "down" /\ Others("startup")
        /\ \/ file # Missing /\ job' = job /\ api' = "up" /\ lock' = lock
           \/ /\ file = Missing /\ api' = "starting" /\ lock' = "startup"
              /\ job'["startup"].at = "saving" /\ job'["startup"].base = Missing
              /\ job'["startup"].cmd = NoCommand
              /\ job'["startup"].state = [DefaultState EXCEPT !.enabled = DefaultEnabled]
    BY <1>12, StartApiOutcome
  <2>2. CASE job' = job
    BY <2>2 DEF Copies, Copied, At
  <2>3. CASE job' # job
    <3>1. /\ job'["startup"].base = Missing /\ job'["startup"].cmd = NoCommand
          /\ job'["startup"].state = [DefaultState EXCEPT !.enabled = DefaultEnabled]
      BY <2>1, <2>3
    <3>2. /\ job'["startup"].state.stopped = Read(Missing).stopped
          /\ job'["startup"].state.counts = Read(Missing).counts
          /\ job'["startup"].state.last = Read(Missing).last
          /\ job'["startup"].state.attempts = Read(Missing).attempts
      BY <3>1 DEF Read, DefaultState
    <3>3. job'["startup"].at = "saving"
      BY <2>1, <2>3
    <3>4. job'["startup"].cmd.what # "toggle"
      BY <3>1 DEF NoCommand, None
    <3>5. \A i \in Jobs : i # "startup" => job'[i] = job[i]
      BY <2>1 DEF Others
    <3>6. Copied("startup")'
      BY <3>1, <3>2, <3>3, <3>4 DEF Copied, At
    <3>7. ASSUME NEW i \in Jobs, i # "startup" PROVE Copied(i)'
      BY <3>5, <3>7 DEF Copies, Copied, At
    <3> QED
      BY <3>6, <3>7 DEF Copies
  <2> QED
    BY <2>2, <2>3 DEF Copies, Copied, At, Others
<1>13. CASE Crash
  <2>1. /\ \A j \in Jobs \ ApiJobs : job'[j] = job[j]
        /\ \A j \in ApiJobs : job'[j] = Idle
    BY <1>13, CrashOutcome
  <2> QED
    BY <2>1, IdleTyped DEF Copies, Copied, At, Others, NoCommand, None, Jobs
<1>14. CASE Tick
  BY <1>14 DEF Tick, Copies, Copied, At, Others
<1>15. CASE UNCHANGED vars
  BY <1>15 DEF vars, Copies, Copied, At, Others
<1> QED
  BY <1>1, <1>2, <1>3, <1>4, <1>5, <1>6, <1>7, <1>8, <1>9, <1>10, <1>11, <1>12, <1>13, <1>14,
     <1>15 DEF Next

LEMMA TurnsStep ==
    ASSUME TypeOK, Phases, Roles, Finite, Turns, [Next]_vars
    PROVE  Turns'
<1>1. ASSUME NEW j \in Jobs, Survey(j) PROVE Turns'
  <2>1. /\ At(j, "idle") /\ j \in Healers /\ Others(j) /\ job'[j].at = "surveyed"
        /\ job'[j].base = Missing /\ file' = file /\ trouble' = trouble
    BY <1>1, SurveyOutcome
  <2> QED
    BY <2>1 DEF Turns, Lossless, At, Others
<1>2. ASSUME NEW j \in Jobs, ReadMarkers(j) PROVE Turns'
  <2>1. /\ At(j, "surveyed") /\ Others(j) /\ job'[j].at = "waiting" /\ job'[j].base = job[j].base
        /\ file' = file /\ trouble' = trouble \union (IF file = Torn THEN {"torn"} ELSE {})
    BY <1>2, ReadMarkersOutcome
  <2> QED
    BY <2>1 DEF Turns, Lossless, At, Others
<1>3. ASSUME NEW j \in Jobs, TakeState(j) PROVE Turns'
  <2>1. /\ At(j, "waiting") /\ Others(j) /\ job'[j].at = "healing" /\ job'[j].base = file
        /\ file' = file
        /\ trouble' = trouble \union (IF file = Torn THEN {"torn"} ELSE {})
                      \union (IF job[j].now < latest THEN {"overtaken"} ELSE {})
                      \union (IF \E i \in Jobs : At(i, "healing") THEN {"overlap"} ELSE {})
    BY <1>3, TakeStateOutcome
  <2> QED
    BY <2>1 DEF Turns, Lossless, At, Others
<1>4. ASSUME NEW j \in Jobs, Recover(j) PROVE Turns'
  <2>1. /\ At(j, "healing") /\ job[j].todo # <<>> /\ Others(j) /\ job'[j].at = "healing"
        /\ job'[j].base = job[j].base /\ file' = file /\ trouble' = trouble
    BY <1>4, RecoverOutcome
  <2> QED
    BY <2>1 DEF Turns, Lossless, At, Others
<1>5. ASSUME NEW j \in Jobs, LeaveAlone(j) PROVE Turns'
  <2>1. /\ At(j, "healing") /\ job[j].todo # <<>> /\ Others(j) /\ job'[j].at = "healing"
        /\ job'[j].base = job[j].base /\ file' = file /\ trouble' = trouble
    BY <1>5, LeaveAloneOutcome
  <2> QED
    BY <2>1 DEF Turns, Lossless, At, Others
<1>6. ASSUME NEW j \in Jobs, Restart(j) PROVE Turns'
  <2>1. /\ At(j, "healing") /\ job[j].todo # <<>> /\ Due(j) /\ Others(j) /\ job'[j].at = "healing"
        /\ job'[j].base = job[j].base /\ file' = file /\ trouble' = trouble
    BY <1>6, RestartOutcome
  <2> QED
    BY <2>1 DEF Turns, Lossless, At, Others
<1>7. ASSUME NEW j \in Jobs, Truncate(j) PROVE Turns'
  <2>1. /\ At(j, "saving") \/ At(j, "healing")
        /\ Others(j) /\ job'[j].at = "writing" /\ job'[j].base = Missing /\ file' = Torn
        /\ trouble' = trouble \union (IF file # job[j].base THEN {"lost"} ELSE {})
    BY <1>7, TruncateOutcome
  <2> QED
    BY <2>1 DEF Turns, Lossless, At, Others
<1>8. ASSUME NEW j \in Jobs, Write(j) PROVE Turns'
  <2>1. /\ At(j, "writing") /\ Others(j) /\ job'[j].at = (IF Acts(j) THEN "acting" ELSE "idle")
        /\ job'[j].base = Missing /\ file' = job[j].state /\ trouble' = trouble
    BY <1>8, WriteOutcome
  <2>2. file' # Torn
    BY <2>1, FileAssumption DEF TypeOK, Process
  <2> QED
    BY <2>1, <2>2 DEF Turns, Lossless, At, Others
<1>9. ASSUME NEW j \in Jobs, Unwritten(j) PROVE Turns'
  <2>1. /\ At(j, "saving") \/ At(j, "healing")
        /\ Others(j) /\ job'[j].at \in {"idle", "acting"} /\ job'[j].base = Missing /\ file' = file
        /\ trouble' = trouble \union {"unsaved"}
    BY <1>9, UnwrittenOutcome
  <2> QED
    BY <2>1 DEF Turns, Lossless, At, Others
<1>10. ASSUME NEW j \in Jobs, NEW cmd \in Commands, Command(j, cmd) PROVE Turns'
  <2>1. /\ At(j, "idle") /\ j = cmd.by /\ Others(j) /\ job'[j].at = "saving" /\ job'[j].base = file
        /\ file' = file /\ trouble' = trouble \union (IF file = Torn THEN {"torn"} ELSE {})
    BY <1>10, CommandOutcome
  <2> QED
    BY <2>1 DEF Turns, Lossless, At, Others
<1>11. CASE Act
  <2>1. /\ At("operator", "acting") /\ Others("operator") /\ job'["operator"] = Idle /\ file' = file
        /\ trouble' = trouble
    BY <1>11, ActOutcome
  <2> QED
    BY <2>1, IdleTyped DEF Turns, Lossless, At, Others
<1>12. CASE StartApi
  <2>1. /\ api = "down" /\ Others("startup")
        /\ \/ file # Missing /\ job' = job /\ api' = "up" /\ lock' = lock
           \/ /\ file = Missing /\ api' = "starting" /\ lock' = "startup"
              /\ job'["startup"].at = "saving" /\ job'["startup"].base = Missing
              /\ job'["startup"].cmd = NoCommand
              /\ job'["startup"].state = [DefaultState EXCEPT !.enabled = DefaultEnabled]
        /\ file' = file /\ trouble' = trouble
    BY <1>12, StartApiOutcome
  <2> QED
    BY <2>1, FileAssumption DEF Turns, Lossless, At, Others
<1>13. CASE Crash
  <2>1. /\ \A j \in Jobs \ ApiJobs : job'[j] = job[j]
        /\ \A j \in ApiJobs : job'[j] = Idle
        /\ file' = file /\ trouble' = trouble \union (IF lock # None THEN {"crash"} ELSE {})
    BY <1>13, CrashOutcome
  <2> QED
    BY <2>1, IdleTyped DEF Turns, Lossless, At, Others, Jobs
<1>14. CASE Tick
  BY <1>14 DEF Tick, Turns, Lossless, At, Others
<1>15. CASE UNCHANGED vars
  BY <1>15 DEF vars, Turns, Lossless, At, Others
<1> QED
  BY <1>1, <1>2, <1>3, <1>4, <1>5, <1>6, <1>7, <1>8, <1>9, <1>10, <1>11, <1>12, <1>13, <1>14,
     <1>15 DEF Next

(* Who writes keeps what the file says of what it did not come to change. *)
LEMMA TruncateKeeps ==
    ASSUME TypeOK, Roles, Copies, Turns, NEW j \in Jobs, Truncate(j), Lossless'
    PROVE  /\ Lossless /\ file # Torn /\ \A i \in Jobs : ~At(i, "writing")
           /\ LoadState = Read(job[j].base)
           /\ j # "operator" => job[j].state.stopped = LoadState.stopped
           /\ At(j, "saving") => /\ job[j].state.counts = LoadState.counts
                                 /\ job[j].state.last = LoadState.last
                                 /\ job[j].state.attempts = LoadState.attempts
           /\ job[j].cmd.what # "toggle" => job[j].state.enabled = LoadState.enabled \/ file = Missing
<1>1. /\ At(j, "saving") \/ At(j, "healing")
      /\ trouble' = trouble \union (IF file # job[j].base THEN {"lost"} ELSE {})
  BY TruncateOutcome
<1>2. Lossless /\ file = job[j].base
  BY <1>1 DEF Lossless
<1>3. file # Torn /\ \A i \in Jobs : ~At(i, "writing")
  BY <1>1, <1>2 DEF Turns
<1>4. LoadState = Read(job[j].base)
  BY <1>2 DEF LoadState, Read
<1> QED
  BY <1>1, <1>2, <1>3, <1>4 DEF Copies, Copied

LEMMA StoppedStep ==
    ASSUME TypeOK, Phases, Roles, Finite, Copies, Turns, Stopped, [Next]_vars
    PROVE  Stopped'
<1>1. ASSUME NEW j \in Jobs, Survey(j) PROVE Stopped'
  <2>1. /\ At(j, "idle") /\ j \in Healers /\ Others(j) /\ job'[j].at = "surveyed"
        /\ job'[j].cmd = NoCommand /\ job'[j].state = DefaultState /\ file' = file
        /\ intended' = intended /\ trouble' = trouble
    BY <1>1, SurveyOutcome DEF observed
  <2> QED
    BY OperatorIsAJob, <2>1, HealersTyped DEF Stopped, Lossless, At, Others, LoadState
<1>2. ASSUME NEW j \in Jobs, ReadMarkers(j) PROVE Stopped'
  <2>1. /\ At(j, "surveyed") /\ Others(j) /\ job'[j].at = "waiting" /\ job'[j].cmd = job[j].cmd
        /\ job'[j].state = job[j].state /\ file' = file /\ intended' = intended
        /\ trouble' = trouble \union (IF file = Torn THEN {"torn"} ELSE {})
    BY <1>2, ReadMarkersOutcome DEF observed
  <2>2. j \in Healers
    BY <2>1 DEF Roles, At
  <2> QED
    BY OperatorIsAJob, <2>1, HealersTyped, <2>2 DEF Stopped, Lossless, At, Others, LoadState
<1>3. ASSUME NEW j \in Jobs, TakeState(j) PROVE Stopped'
  <2>1. /\ At(j, "waiting") /\ Others(j) /\ job'[j].at = "healing" /\ job'[j].cmd = job[j].cmd
        /\ job'[j].state = Pruned(LoadState, job[j].now) /\ file' = file /\ intended' = intended
        /\ trouble' = trouble \union (IF file = Torn THEN {"torn"} ELSE {})
                      \union (IF job[j].now < latest THEN {"overtaken"} ELSE {})
                      \union (IF \E i \in Jobs : At(i, "healing") THEN {"overlap"} ELSE {})
    BY <1>3, TakeStateOutcome
  <2>2. j \in Healers
    BY <2>1 DEF Roles, At
  <2> QED
    BY OperatorIsAJob, <2>1, HealersTyped, <2>2 DEF Stopped, Lossless, At, Others, LoadState
<1>4. ASSUME NEW j \in Jobs, Recover(j) PROVE Stopped'
  <2>1. /\ At(j, "healing") /\ job[j].todo # <<>> /\ Others(j) /\ job'[j].at = "healing"
        /\ job'[j].cmd = job[j].cmd /\ job'[j].state.stopped = job[j].state.stopped /\ file' = file
        /\ intended' = intended /\ trouble' = trouble
    BY <1>4, RecoverOutcome
  <2>2. j \in Healers
    BY <2>1 DEF Roles, At
  <2> QED
    BY OperatorIsAJob, <2>1, HealersTyped, <2>2 DEF Stopped, Lossless, At, Others, LoadState
<1>5. ASSUME NEW j \in Jobs, LeaveAlone(j) PROVE Stopped'
  <2>1. /\ At(j, "healing") /\ job[j].todo # <<>> /\ Others(j) /\ job'[j].at = "healing"
        /\ job'[j].cmd = job[j].cmd /\ job'[j].state = job[j].state /\ file' = file
        /\ intended' = intended /\ trouble' = trouble
    BY <1>5, LeaveAloneOutcome DEF observed
  <2>2. j \in Healers
    BY <2>1 DEF Roles, At
  <2> QED
    BY OperatorIsAJob, <2>1, HealersTyped, <2>2 DEF Stopped, Lossless, At, Others, LoadState
<1>6. ASSUME NEW j \in Jobs, Restart(j) PROVE Stopped'
  <2>1. /\ At(j, "healing") /\ job[j].todo # <<>> /\ Due(j) /\ Others(j) /\ job'[j].at = "healing"
        /\ job'[j].cmd = job[j].cmd
        /\ job'[j].state = Charged(job[j].state, Key(j), job[j].now, job[j].manual) /\ file' = file
        /\ intended' = intended /\ trouble' = trouble
    BY <1>6, RestartOutcome
  <2>2. j \in Healers
    BY <2>1 DEF Roles, At
  <2> QED
    BY OperatorIsAJob, <2>1, HealersTyped, <2>2 DEF Stopped, Lossless, At, Others, LoadState
<1>7. ASSUME NEW j \in Jobs, Truncate(j) PROVE Stopped'
  <2>1. /\ At(j, "saving") \/ At(j, "healing")
        /\ Others(j) /\ job'[j].at = "writing" /\ job'[j].cmd = job[j].cmd
        /\ job'[j].state = job[j].state /\ file' = Torn /\ intended' = intended
        /\ trouble' = trouble \union (IF file # job[j].base THEN {"lost"} ELSE {})
    BY <1>7, TruncateOutcome DEF observed
  <2>2. Lossless' => /\ Lossless /\ file # Torn /\ \A i \in Jobs : ~At(i, "writing")
                     /\ j # "operator" => job[j].state.stopped = LoadState.stopped
    BY <1>7, TruncateKeeps
  <2>3. ~At("operator", "healing")
    BY HealersTyped DEF Roles, At, Jobs, CliJobs
  <2>4. Lossless' /\ j = "operator" => job[j].state.stopped = intended
    BY <2>1, <2>2, <2>3 DEF Stopped, At
  <2>5. Lossless' /\ j # "operator" /\ (At("operator", "idle") \/ At("operator", "acting")) =>
           job[j].state.stopped = intended
    BY <2>1, <2>2 DEF Stopped
  <2> QED
    BY OperatorIsAJob, <2>1, <2>2, <2>4, <2>5 DEF Stopped, At, Others, Jobs, CliJobs
<1>8. ASSUME NEW j \in Jobs, Write(j) PROVE Stopped'
  <2>1. /\ At(j, "writing") /\ Others(j) /\ job'[j].at = (IF Acts(j) THEN "acting" ELSE "idle")
        /\ job'[j].cmd = (IF Acts(j) THEN job[j].cmd ELSE NoCommand) /\ job'[j].state = DefaultState
        /\ file' = job[j].state /\ intended' = intended /\ trouble' = trouble
    BY <1>8, WriteOutcome
  <2>2. job[j].state \in States /\ (Lossless' <=> Lossless)
    BY <2>1 DEF TypeOK, Process, Lossless
  <2>3. file' # Torn /\ LoadState' = job[j].state
    BY <2>1, <2>2, FileAssumption DEF LoadState
  <2>4. Lossless => job[j].state.stopped = intended \/ At("operator", "saving") \/ At("operator", "writing")
    BY <2>1, HealersTyped, OperatorIsAJob DEF Stopped, At, Roles, TypeOK, Process
  <2>5. Lossless => \A i \in Jobs : At(i, "writing") => i = j
    BY <2>1 DEF Turns
  <2> QED
    BY OperatorIsAJob, <2>1, <2>2, <2>3, <2>4, <2>5 DEF Stopped, At, Others, Jobs, CliJobs
<1>9. ASSUME NEW j \in Jobs, Unwritten(j) PROVE Stopped'
  <2>1. /\ At(j, "saving") \/ At(j, "healing")
        /\ Others(j) /\ job'[j].at \in {"idle", "acting"}
        /\ (job'[j].at = "idle" => job'[j].cmd = NoCommand)
        /\ (job'[j].at = "acting" => Acts(j) /\ job'[j].cmd = job[j].cmd)
        /\ job'[j].state = DefaultState /\ file' = file /\ intended' = intended
        /\ trouble' = trouble \union {"unsaved"}
    BY <1>9, UnwrittenOutcome DEF observed
  <2> QED
    BY OperatorIsAJob, <2>1 DEF Stopped, Lossless, At, Others, LoadState
<1>10. ASSUME NEW j \in Jobs, NEW cmd \in Commands, Command(j, cmd) PROVE Stopped'
  <2>1. /\ At(j, "idle") /\ j = cmd.by /\ Others(j) /\ job'[j].at = "saving" /\ job'[j].cmd = cmd
        /\ job'[j].state = Commanded(LoadState, cmd) /\ file' = file
        /\ intended' = Halting(intended, cmd)
        /\ trouble' = trouble \union (IF file = Torn THEN {"torn"} ELSE {})
    BY <1>10, CommandOutcome
  <2>2. Lossless' => Lossless /\ file # Torn
    BY <2>1 DEF Lossless
  <2>3. LoadState \in States /\ job'[j].state.stopped = Halting(LoadState.stopped, cmd)
    BY <2>1, LoadStateTyped, CommandedTyped
  <2>4. cmd.by = "panel" => intended' = intended
    BY <2>1, CommandTyped, HaltingOf
  <2>5. LoadState' = LoadState
    BY <2>1 DEF LoadState
  <2>6. j \in {"operator", "panel"}
    BY <2>1, CommandTyped
  <2> QED
    BY OperatorIsAJob, <2>1, <2>2, <2>3, <2>4, <2>5, <2>6 DEF Stopped, At, Others
<1>11. CASE Act
  <2>1. /\ At("operator", "acting") /\ Others("operator") /\ job'["operator"] = Idle /\ file' = file
        /\ intended' = intended /\ trouble' = trouble
    BY <1>11, ActOutcome DEF observed
  <2> QED
    BY OperatorIsAJob, <2>1, IdleTyped DEF Stopped, Lossless, At, Others, LoadState
<1>12. CASE StartApi
  <2>1. /\ api = "down" /\ Others("startup")
        /\ \/ file # Missing /\ job' = job /\ api' = "up" /\ lock' = lock
           \/ /\ file = Missing /\ api' = "starting" /\ lock' = "startup"
              /\ job'["startup"].at = "saving" /\ job'["startup"].base = Missing
              /\ job'["startup"].cmd = NoCommand
              /\ job'["startup"].state = [DefaultState EXCEPT !.enabled = DefaultEnabled]
        /\ file' = file /\ intended' = intended /\ trouble' = trouble
    BY <1>12, StartApiOutcome DEF observed
  <2> QED
    BY OperatorIsAJob, <2>1 DEF Stopped, Lossless, At, Others, LoadState, Jobs, ApiJobs, CliJobs
<1>13. CASE Crash
  <2>1. /\ \A j \in Jobs \ ApiJobs : job'[j] = job[j]
        /\ \A j \in ApiJobs : job'[j] = Idle
        /\ file' = file /\ intended' = intended
        /\ trouble' = trouble \union (IF lock # None THEN {"crash"} ELSE {})
    BY <1>13, CrashOutcome DEF observed
  <2> QED
    BY OperatorIsAJob, <2>1, IdleTyped
       DEF Stopped, Lossless, At, Others, LoadState, Jobs, ApiJobs, CliJobs
<1>14. CASE Tick
  BY <1>14 DEF Tick, observed, Stopped, Lossless, At, Others, LoadState
<1>15. CASE UNCHANGED vars
  BY <1>15 DEF vars, Stopped, Lossless, At, Others, LoadState
<1> QED
  BY <1>1, <1>2, <1>3, <1>4, <1>5, <1>6, <1>7, <1>8, <1>9, <1>10, <1>11, <1>12, <1>13, <1>14,
     <1>15 DEF Next

LEMMA EnabledStep ==
    ASSUME TypeOK, Phases, Roles, Finite, Copies, Turns, Enabled, [Next]_vars
    PROVE  Enabled'
<1>1. ASSUME NEW j \in Jobs, Survey(j) PROVE Enabled'
  <2>1. /\ At(j, "idle") /\ j \in Healers /\ Others(j) /\ job'[j].at = "surveyed"
        /\ job'[j].cmd = NoCommand /\ job'[j].state = DefaultState /\ file' = file
        /\ toggled' = toggled /\ trouble' = trouble
    BY <1>1, SurveyOutcome DEF observed
  <2> QED
    BY OperatorIsAJob, <2>1 DEF Enabled, Lossless, At, Others, LoadState
<1>2. ASSUME NEW j \in Jobs, ReadMarkers(j) PROVE Enabled'
  <2>1. /\ At(j, "surveyed") /\ Others(j) /\ job'[j].at = "waiting" /\ job'[j].cmd = job[j].cmd
        /\ job'[j].state = job[j].state /\ file' = file /\ toggled' = toggled
        /\ trouble' = trouble \union (IF file = Torn THEN {"torn"} ELSE {})
    BY <1>2, ReadMarkersOutcome DEF observed
  <2> QED
    BY OperatorIsAJob, <2>1 DEF Enabled, Lossless, At, Others, LoadState
<1>3. ASSUME NEW j \in Jobs, TakeState(j) PROVE Enabled'
  <2>1. /\ At(j, "waiting") /\ Others(j) /\ job'[j].at = "healing" /\ job'[j].cmd = job[j].cmd
        /\ job'[j].state = Pruned(LoadState, job[j].now) /\ file' = file /\ toggled' = toggled
        /\ trouble' = trouble \union (IF file = Torn THEN {"torn"} ELSE {})
                      \union (IF job[j].now < latest THEN {"overtaken"} ELSE {})
                      \union (IF \E i \in Jobs : At(i, "healing") THEN {"overlap"} ELSE {})
    BY <1>3, TakeStateOutcome
  <2> QED
    BY OperatorIsAJob, <2>1 DEF Enabled, Lossless, At, Others, LoadState
<1>4. ASSUME NEW j \in Jobs, Recover(j) PROVE Enabled'
  <2>1. /\ At(j, "healing") /\ job[j].todo # <<>> /\ Others(j) /\ job'[j].at = "healing"
        /\ job'[j].cmd = job[j].cmd /\ job'[j].state.enabled = job[j].state.enabled /\ file' = file
        /\ toggled' = toggled /\ trouble' = trouble
    BY <1>4, RecoverOutcome
  <2> QED
    BY OperatorIsAJob, <2>1 DEF Enabled, Lossless, At, Others, LoadState
<1>5. ASSUME NEW j \in Jobs, LeaveAlone(j) PROVE Enabled'
  <2>1. /\ At(j, "healing") /\ job[j].todo # <<>> /\ Others(j) /\ job'[j].at = "healing"
        /\ job'[j].cmd = job[j].cmd /\ job'[j].state = job[j].state /\ file' = file
        /\ toggled' = toggled /\ trouble' = trouble
    BY <1>5, LeaveAloneOutcome DEF observed
  <2> QED
    BY OperatorIsAJob, <2>1 DEF Enabled, Lossless, At, Others, LoadState
<1>6. ASSUME NEW j \in Jobs, Restart(j) PROVE Enabled'
  <2>1. /\ At(j, "healing") /\ job[j].todo # <<>> /\ Due(j) /\ Others(j) /\ job'[j].at = "healing"
        /\ job'[j].cmd = job[j].cmd
        /\ job'[j].state = Charged(job[j].state, Key(j), job[j].now, job[j].manual) /\ file' = file
        /\ toggled' = toggled /\ trouble' = trouble
    BY <1>6, RestartOutcome
  <2> QED
    BY OperatorIsAJob, <2>1 DEF Enabled, Lossless, At, Others, LoadState
<1>7. ASSUME NEW j \in Jobs, Truncate(j) PROVE Enabled'
  <2>1. /\ At(j, "saving") \/ At(j, "healing")
        /\ Others(j) /\ job'[j].at = "writing" /\ job'[j].cmd = job[j].cmd
        /\ job'[j].state = job[j].state /\ file' = Torn /\ toggled' = toggled
        /\ trouble' = trouble \union (IF file # job[j].base THEN {"lost"} ELSE {})
    BY <1>7, TruncateOutcome DEF observed
  <2>2. Lossless' => /\ Lossless /\ file # Torn /\ \A i \in Jobs : ~At(i, "writing")
                     /\ job[j].cmd.what # "toggle" => job[j].state.enabled = LoadState.enabled \/ file = Missing
    BY <1>7, TruncateKeeps
  <2> QED
    BY OperatorIsAJob, <2>1, <2>2, FileAssumption DEF Enabled, At, Others
<1>8. ASSUME NEW j \in Jobs, Write(j) PROVE Enabled'
  <2>1. /\ At(j, "writing") /\ Others(j) /\ job'[j].at = (IF Acts(j) THEN "acting" ELSE "idle")
        /\ job'[j].cmd = (IF Acts(j) THEN job[j].cmd ELSE NoCommand) /\ job'[j].state = DefaultState
        /\ file' = job[j].state
        /\ toggled' = (IF job[j].cmd.what = "toggle" THEN {job[j].cmd.on} ELSE toggled)
        /\ trouble' = trouble
    BY <1>8, WriteOutcome
  <2>2. job[j].state \in States /\ (Lossless' <=> Lossless)
    BY <2>1 DEF TypeOK, Process, Lossless
  <2>3. file' # Torn /\ file' # Missing /\ LoadState' = job[j].state
    BY <2>1, <2>2, FileAssumption DEF LoadState
  <2>4. job[j].cmd.what = "toggle" => job[j].state.enabled = job[j].cmd.on
    BY DEF Copies, Copied
  <2>5. Lossless => \A i \in Jobs : At(i, "writing") => i = j
    BY <2>1 DEF Turns
  <2> QED
    BY OperatorIsAJob, <2>1, <2>2, <2>3, <2>4, <2>5 DEF Enabled, At, Others
<1>9. ASSUME NEW j \in Jobs, Unwritten(j) PROVE Enabled'
  <2>1. /\ At(j, "saving") \/ At(j, "healing")
        /\ Others(j) /\ job'[j].at \in {"idle", "acting"}
        /\ (job'[j].at = "idle" => job'[j].cmd = NoCommand)
        /\ (job'[j].at = "acting" => Acts(j) /\ job'[j].cmd = job[j].cmd)
        /\ job'[j].state = DefaultState /\ file' = file /\ toggled' = toggled
        /\ trouble' = trouble \union {"unsaved"}
    BY <1>9, UnwrittenOutcome DEF observed
  <2> QED
    BY OperatorIsAJob, <2>1 DEF Enabled, Lossless, At, Others, LoadState
<1>10. ASSUME NEW j \in Jobs, NEW cmd \in Commands, Command(j, cmd) PROVE Enabled'
  <2>1. /\ At(j, "idle") /\ j = cmd.by /\ Others(j) /\ job'[j].at = "saving" /\ job'[j].cmd = cmd
        /\ job'[j].state = Commanded(LoadState, cmd) /\ file' = file /\ toggled' = toggled
        /\ trouble' = trouble \union (IF file = Torn THEN {"torn"} ELSE {})
    BY <1>10, CommandOutcome
  <2> QED
    BY OperatorIsAJob, <2>1 DEF Enabled, Lossless, At, Others, LoadState
<1>11. CASE Act
  <2>1. /\ At("operator", "acting") /\ Others("operator") /\ job'["operator"] = Idle /\ file' = file
        /\ toggled' = toggled /\ trouble' = trouble
    BY <1>11, ActOutcome DEF observed
  <2> QED
    BY OperatorIsAJob, <2>1, IdleTyped DEF Enabled, Lossless, At, Others, LoadState
<1>12. CASE StartApi
  <2>1. /\ api = "down" /\ Others("startup")
        /\ \/ file # Missing /\ job' = job /\ api' = "up" /\ lock' = lock
           \/ /\ file = Missing /\ api' = "starting" /\ lock' = "startup"
              /\ job'["startup"].at = "saving" /\ job'["startup"].base = Missing
              /\ job'["startup"].cmd = NoCommand
              /\ job'["startup"].state = [DefaultState EXCEPT !.enabled = DefaultEnabled]
        /\ file' = file /\ toggled' = toggled /\ trouble' = trouble
    BY <1>12, StartApiOutcome DEF observed
  <2> QED
    BY OperatorIsAJob, <2>1 DEF Enabled, Lossless, At, Others, LoadState, Jobs
<1>13. CASE Crash
  <2>1. /\ \A j \in Jobs \ ApiJobs : job'[j] = job[j]
        /\ \A j \in ApiJobs : job'[j] = Idle
        /\ file' = file /\ toggled' = toggled
        /\ trouble' = trouble \union (IF lock # None THEN {"crash"} ELSE {})
    BY <1>13, CrashOutcome DEF observed
  <2> QED
    BY OperatorIsAJob, <2>1, IdleTyped DEF Enabled, Lossless, At, Others, LoadState, Jobs
<1>14. CASE Tick
  BY <1>14 DEF Tick, observed, Enabled, Lossless, At, Others, LoadState
<1>15. CASE UNCHANGED vars
  BY <1>15 DEF vars, Enabled, Lossless, At, Others, LoadState
<1> QED
  BY <1>1, <1>2, <1>3, <1>4, <1>5, <1>6, <1>7, <1>8, <1>9, <1>10, <1>11, <1>12, <1>13, <1>14,
     <1>15 DEF Next

LEMMA DownStep ==
    ASSUME TypeOK, Phases, Roles, Finite, Copies, Turns, Stopped, Down, [Next]_vars
    PROVE  Down'
<1>1. ASSUME NEW j \in Jobs, Survey(j) PROVE Down'
  <2>1. /\ At(j, "idle") /\ j \in Healers /\ Others(j) /\ job'[j].at = "surveyed"
        /\ job'[j].cmd = NoCommand /\ job'[j].state = DefaultState /\ file' = file
        /\ intended' = intended /\ halted' = halted /\ trouble' = trouble
    BY <1>1, SurveyOutcome DEF observed
  <2> QED
    BY OperatorIsAJob, <2>1, HealersTyped DEF Down, Lossless, At, Others, LoadState
<1>2. ASSUME NEW j \in Jobs, ReadMarkers(j) PROVE Down'
  <2>1. /\ At(j, "surveyed") /\ Others(j) /\ job'[j].at = "waiting" /\ job'[j].cmd = job[j].cmd
        /\ job'[j].state = job[j].state /\ file' = file /\ intended' = intended /\ halted' = halted
        /\ trouble' = trouble \union (IF file = Torn THEN {"torn"} ELSE {})
    BY <1>2, ReadMarkersOutcome DEF observed
  <2>2. j \in Healers
    BY <2>1 DEF Roles, At
  <2> QED
    BY OperatorIsAJob, <2>1, HealersTyped, <2>2 DEF Down, Lossless, At, Others, LoadState
<1>3. ASSUME NEW j \in Jobs, TakeState(j) PROVE Down'
  <2>1. /\ At(j, "waiting") /\ Others(j) /\ job'[j].at = "healing" /\ job'[j].cmd = job[j].cmd
        /\ job'[j].state = Pruned(LoadState, job[j].now) /\ file' = file /\ intended' = intended
        /\ halted' = halted
        /\ trouble' = trouble \union (IF file = Torn THEN {"torn"} ELSE {})
                      \union (IF job[j].now < latest THEN {"overtaken"} ELSE {})
                      \union (IF \E i \in Jobs : At(i, "healing") THEN {"overlap"} ELSE {})
    BY <1>3, TakeStateOutcome
  <2>2. j \in Healers
    BY <2>1 DEF Roles, At
  <2> QED
    BY OperatorIsAJob, <2>1, HealersTyped, <2>2 DEF Down, Lossless, At, Others, LoadState
<1>4. ASSUME NEW j \in Jobs, Recover(j) PROVE Down'
  <2>1. /\ At(j, "healing") /\ job[j].todo # <<>> /\ Others(j) /\ job'[j].at = "healing"
        /\ job'[j].cmd = job[j].cmd /\ job'[j].state.stopped = job[j].state.stopped /\ file' = file
        /\ intended' = intended /\ halted' = halted /\ trouble' = trouble
    BY <1>4, RecoverOutcome
  <2>2. j \in Healers
    BY <2>1 DEF Roles, At
  <2> QED
    BY OperatorIsAJob, <2>1, HealersTyped, <2>2 DEF Down, Lossless, At, Others, LoadState
<1>5. ASSUME NEW j \in Jobs, LeaveAlone(j) PROVE Down'
  <2>1. /\ At(j, "healing") /\ job[j].todo # <<>> /\ Others(j) /\ job'[j].at = "healing"
        /\ job'[j].cmd = job[j].cmd /\ job'[j].state = job[j].state /\ file' = file
        /\ intended' = intended /\ halted' = halted /\ trouble' = trouble
    BY <1>5, LeaveAloneOutcome DEF observed
  <2>2. j \in Healers
    BY <2>1 DEF Roles, At
  <2> QED
    BY OperatorIsAJob, <2>1, HealersTyped, <2>2 DEF Down, Lossless, At, Others, LoadState
<1>6. ASSUME NEW j \in Jobs, Restart(j) PROVE Down'
  <2>1. /\ At(j, "healing") /\ job[j].todo # <<>> /\ Due(j) /\ Others(j) /\ job'[j].at = "healing"
        /\ job'[j].cmd = job[j].cmd
        /\ job'[j].state = Charged(job[j].state, Key(j), job[j].now, job[j].manual) /\ file' = file
        /\ intended' = intended /\ halted' \in {halted, halted \ {Row(j).row}} /\ trouble' = trouble
    BY <1>6, RestartOutcome
  <2>2. j \in Healers
    BY <2>1 DEF Roles, At
  <2> QED
    BY OperatorIsAJob, <2>1, HealersTyped, <2>2 DEF Down, Lossless, At, Others, LoadState
<1>7. ASSUME NEW j \in Jobs, Truncate(j) PROVE Down'
  <2>1. /\ At(j, "saving") \/ At(j, "healing")
        /\ Others(j) /\ job'[j].at = "writing" /\ job'[j].cmd = job[j].cmd
        /\ job'[j].state = job[j].state /\ file' = Torn /\ intended' = intended /\ halted' = halted
        /\ trouble' = trouble \union (IF file # job[j].base THEN {"lost"} ELSE {})
    BY <1>7, TruncateOutcome DEF observed
  <2>2. Lossless' => /\ Lossless /\ file # Torn /\ \A i \in Jobs : ~At(i, "writing")
                     /\ j # "operator" => job[j].state.stopped = LoadState.stopped
    BY <1>7, TruncateKeeps
  <2> QED
    BY OperatorIsAJob, <2>1, <2>2 DEF Down, At, Others
<1>8. ASSUME NEW j \in Jobs, Write(j) PROVE Down'
  <2>1. /\ At(j, "writing") /\ Others(j) /\ job'[j].at = (IF Acts(j) THEN "acting" ELSE "idle")
        /\ job'[j].cmd = (IF Acts(j) THEN job[j].cmd ELSE NoCommand) /\ job'[j].state = DefaultState
        /\ file' = job[j].state /\ intended' = intended /\ halted' = halted /\ trouble' = trouble
    BY <1>8, WriteOutcome
  <2>2. job[j].state \in States /\ (Lossless' <=> Lossless)
    BY <2>1 DEF TypeOK, Process, Lossless
  <2>3. file' # Torn /\ LoadState' = job[j].state
    BY <2>1, <2>2, FileAssumption DEF LoadState
  <2>4. Lossless => \A i \in Jobs : At(i, "writing") => i = j
    BY <2>1 DEF Turns
  <2>5. NoCommand.what \notin {"stop", "start"}
    BY DEF NoCommand, None
  <2> QED
    BY OperatorIsAJob, <2>1, <2>2, <2>3, <2>4, <2>5 DEF Down, At, Others, Acts
<1>9. ASSUME NEW j \in Jobs, Unwritten(j) PROVE Down'
  <2>1. /\ At(j, "saving") \/ At(j, "healing")
        /\ Others(j) /\ job'[j].at \in {"idle", "acting"}
        /\ (job'[j].at = "idle" => job'[j].cmd = NoCommand)
        /\ (job'[j].at = "acting" => Acts(j) /\ job'[j].cmd = job[j].cmd)
        /\ job'[j].state = DefaultState /\ file' = file /\ intended' = intended /\ halted' = halted
        /\ trouble' = trouble \union {"unsaved"}
    BY <1>9, UnwrittenOutcome DEF observed
  <2> QED
    BY OperatorIsAJob, <2>1 DEF Down, Lossless, At, Others, LoadState
<1>10. ASSUME NEW j \in Jobs, NEW cmd \in Commands, Command(j, cmd) PROVE Down'
  <2>1. /\ At(j, "idle") /\ j = cmd.by /\ Others(j) /\ job'[j].at = "saving" /\ job'[j].cmd = cmd
        /\ job'[j].state = Commanded(LoadState, cmd) /\ file' = file
        /\ intended' = Halting(intended, cmd) /\ halted' = halted
        /\ trouble' = trouble \union (IF file = Torn THEN {"torn"} ELSE {})
    BY <1>10, CommandOutcome
  <2>2. Lossless' => Lossless /\ file # Torn /\ \A i \in Jobs : ~At(i, "writing")
    BY <2>1 DEF Lossless, Turns
  <2>3. At("operator", "idle") => job["operator"].cmd.what # "start"
    BY OperatorIsAJob DEF Roles, At, NoCommand, None
  <2>4. LoadState' = LoadState
    BY <2>1 DEF LoadState
  <2>5. CASE j = "operator"
    <3>1. Lossless' => halted \subseteq intended /\ LoadState.stopped = intended
      BY <2>1, <2>2, <2>3, <2>5 DEF Down, Stopped
    <3> QED
      BY OperatorIsAJob, <2>1, <2>2, <2>4, <2>5, <3>1, CommandTyped, HaltingOf
         DEF Down, At, Others
  <2>6. CASE j # "operator"
    <3>1. intended' = intended
      BY <2>1, <2>6, CommandTyped, HaltingOf
    <3> QED
      BY OperatorIsAJob, <2>1, <2>2, <2>4, <2>6, <3>1 DEF Down, At, Others
  <2> QED
    BY <2>5, <2>6 DEF Down
<1>11. CASE Act
  <2>1. /\ At("operator", "acting") /\ Others("operator") /\ job'["operator"] = Idle /\ file' = file
        /\ intended' = intended /\ halted' = Halting(halted, job["operator"].cmd)
        /\ trouble' = trouble
    BY <1>11, ActOutcome DEF observed
  <2>2. Acts("operator") /\ job["operator"].cmd \in Commands
    BY <2>1, OperatorIsAJob, CommandHeld DEF Roles, At, Acts, NoCommand, None
  <2>3. NoCommand.what \notin {"stop", "start"}
    BY DEF NoCommand, None
  <2>4. job'["operator"].at = "idle" /\ job'["operator"].cmd = NoCommand
    BY <2>1, IdleTyped
  <2>5. Lossless => halted' \subseteq intended
    BY <2>1, <2>2, HaltingOf DEF Down, Acts
  <2> QED
    BY <2>1, <2>3, <2>4, <2>5, IdleTyped DEF Down, Lossless, At
<1>12. CASE StartApi
  <2>1. /\ api = "down" /\ Others("startup")
        /\ \/ file # Missing /\ job' = job /\ api' = "up" /\ lock' = lock
           \/ /\ file = Missing /\ api' = "starting" /\ lock' = "startup"
              /\ job'["startup"].at = "saving" /\ job'["startup"].base = Missing
              /\ job'["startup"].cmd = NoCommand
              /\ job'["startup"].state = [DefaultState EXCEPT !.enabled = DefaultEnabled]
        /\ file' = file /\ intended' = intended /\ halted' = halted /\ trouble' = trouble
    BY <1>12, StartApiOutcome DEF observed
  <2> QED
    BY OperatorIsAJob, <2>1 DEF Down, Lossless, At, Others, LoadState, Jobs, ApiJobs, CliJobs
<1>13. CASE Crash
  <2>1. /\ \A j \in Jobs \ ApiJobs : job'[j] = job[j]
        /\ \A j \in ApiJobs : job'[j] = Idle
        /\ file' = file /\ intended' = intended /\ halted' = halted
        /\ trouble' = trouble \union (IF lock # None THEN {"crash"} ELSE {})
    BY <1>13, CrashOutcome DEF observed
  <2> QED
    BY OperatorIsAJob, <2>1, IdleTyped
       DEF Down, Lossless, At, Others, LoadState, Jobs, ApiJobs, CliJobs
<1>14. CASE Tick
  BY <1>14 DEF Tick, observed, Down, Lossless, At, Others, LoadState
<1>15. CASE UNCHANGED vars
  BY <1>15 DEF vars, Down, Lossless, At, Others, LoadState
<1> QED
  BY <1>1, <1>2, <1>3, <1>4, <1>5, <1>6, <1>7, <1>8, <1>9, <1>10, <1>11, <1>12, <1>13, <1>14,
     <1>15 DEF Next

(* A component that is down, and meant to be, is marked as stopped in the file. *)
LEMMA HaltIsRemembered ==
    ASSUME TypeOK, Roles, Turns, Stopped, Down, Lossless, file # Torn
    PROVE  intended \intersect halted \subseteq LoadState.stopped
<1>1. job["operator"].at \in {"idle", "saving", "acting"}
  BY OperatorIsAJob, HealersTyped DEF TypeOK, Process, Roles, Turns, At
<1> QED
  BY <1>1 DEF Stopped, Down, At

LEMMA LeftAloneStep ==
    ASSUME TypeOK, Phases, Roles, Finite, Copies, Turns, Stopped, Down, LeftAlone, [Next]_vars
    PROVE  LeftAlone'
<1>1. ASSUME NEW j \in Jobs, Survey(j) PROVE LeftAlone'
  <2>1. /\ At(j, "idle") /\ j \in Healers /\ Others(j) /\ job'[j].at = "surveyed"
        /\ trouble' = trouble
    BY <1>1, SurveyOutcome
  <2> QED
    BY <2>1 DEF LeftAlone, Lossless, At, Others
<1>2. ASSUME NEW j \in Jobs, ReadMarkers(j) PROVE LeftAlone'
  <2>1. /\ At(j, "surveyed") /\ Others(j) /\ job'[j].at = "waiting"
        /\ \A n \in DOMAIN job'[j].todo :
              /\ job'[j].todo[n].wasHalted => job'[j].todo[n].row \in intended \intersect halted
              /\ job'[j].todo[n].desired => job'[j].todo[n].row \notin LoadState.stopped
        /\ trouble' = trouble \union (IF file = Torn THEN {"torn"} ELSE {})
    BY <1>2, ReadMarkersOutcome
  <2>2. Lossless' => Lossless /\ file # Torn
    BY <2>1 DEF Lossless
  <2>3. Lossless' => \A n \in DOMAIN job'[j].todo : job'[j].todo[n].wasHalted => ~job'[j].todo[n].desired
    BY <2>1, <2>2, HaltIsRemembered
  <2> QED
    BY <2>1, <2>2, <2>3 DEF LeftAlone, At, Others
<1>3. ASSUME NEW j \in Jobs, TakeState(j) PROVE LeftAlone'
  <2>1. /\ At(j, "waiting") /\ Others(j) /\ job'[j].at = "healing" /\ job'[j].todo = job[j].todo
        /\ trouble' = trouble \union (IF file = Torn THEN {"torn"} ELSE {})
                      \union (IF job[j].now < latest THEN {"overtaken"} ELSE {})
                      \union (IF \E i \in Jobs : At(i, "healing") THEN {"overlap"} ELSE {})
    BY <1>3, TakeStateOutcome
  <2> QED
    BY <2>1 DEF LeftAlone, Lossless, At, Others
<1>4. ASSUME NEW j \in Jobs, Recover(j) PROVE LeftAlone'
  <2>1. /\ At(j, "healing") /\ job[j].todo # <<>> /\ Others(j) /\ job'[j].at = "healing"
        /\ job'[j].todo = Tail(job[j].todo) /\ trouble' = trouble
    BY <1>4, RecoverOutcome
  <2>2. \A n \in DOMAIN job'[j].todo : \E m \in DOMAIN job[j].todo : job'[j].todo[n] = job[j].todo[m]
    BY <2>1, TodoTyped
  <2>3. Lossless' <=> Lossless
    BY <2>1 DEF Lossless
  <2>4. Lossless => \A n \in DOMAIN job'[j].todo : job'[j].todo[n].wasHalted => ~job'[j].todo[n].desired
    BY <2>1, <2>2 DEF LeftAlone
  <2> QED
    BY <2>1, <2>3, <2>4 DEF LeftAlone, At, Others
<1>5. ASSUME NEW j \in Jobs, LeaveAlone(j) PROVE LeftAlone'
  <2>1. /\ At(j, "healing") /\ job[j].todo # <<>> /\ Others(j) /\ job'[j].at = "healing"
        /\ job'[j].todo = Tail(job[j].todo) /\ trouble' = trouble
    BY <1>5, LeaveAloneOutcome
  <2>2. \A n \in DOMAIN job'[j].todo : \E m \in DOMAIN job[j].todo : job'[j].todo[n] = job[j].todo[m]
    BY <2>1, TodoTyped
  <2>3. Lossless' <=> Lossless
    BY <2>1 DEF Lossless
  <2>4. Lossless => \A n \in DOMAIN job'[j].todo : job'[j].todo[n].wasHalted => ~job'[j].todo[n].desired
    BY <2>1, <2>2 DEF LeftAlone
  <2> QED
    BY <2>1, <2>3, <2>4 DEF LeftAlone, At, Others
<1>6. ASSUME NEW j \in Jobs, Restart(j) PROVE LeftAlone'
  <2>1. /\ At(j, "healing") /\ job[j].todo # <<>> /\ Due(j) /\ Others(j) /\ job'[j].at = "healing"
        /\ job'[j].todo = Tail(job[j].todo) /\ trouble' = trouble
    BY <1>6, RestartOutcome
  <2>2. \A n \in DOMAIN job'[j].todo : \E m \in DOMAIN job[j].todo : job'[j].todo[n] = job[j].todo[m]
    BY <2>1, TodoTyped
  <2>3. Lossless' <=> Lossless
    BY <2>1 DEF Lossless
  <2>4. Lossless => \A n \in DOMAIN job'[j].todo : job'[j].todo[n].wasHalted => ~job'[j].todo[n].desired
    BY <2>1, <2>2 DEF LeftAlone
  <2> QED
    BY <2>1, <2>3, <2>4 DEF LeftAlone, At, Others
<1>7. ASSUME NEW j \in Jobs, Truncate(j) PROVE LeftAlone'
  <2>1. /\ At(j, "saving") \/ At(j, "healing")
        /\ Others(j) /\ job'[j].at = "writing"
        /\ trouble' = trouble \union (IF file # job[j].base THEN {"lost"} ELSE {})
    BY <1>7, TruncateOutcome
  <2> QED
    BY <2>1 DEF LeftAlone, Lossless, At, Others
<1>8. ASSUME NEW j \in Jobs, Write(j) PROVE LeftAlone'
  <2>1. /\ At(j, "writing") /\ Others(j) /\ job'[j].at = (IF Acts(j) THEN "acting" ELSE "idle")
        /\ trouble' = trouble
    BY <1>8, WriteOutcome
  <2> QED
    BY <2>1 DEF LeftAlone, Lossless, At, Others
<1>9. ASSUME NEW j \in Jobs, Unwritten(j) PROVE LeftAlone'
  <2>1. /\ At(j, "saving") \/ At(j, "healing")
        /\ Others(j) /\ job'[j].at \in {"idle", "acting"} /\ trouble' = trouble \union {"unsaved"}
    BY <1>9, UnwrittenOutcome
  <2> QED
    BY <2>1 DEF LeftAlone, Lossless, At, Others
<1>10. ASSUME NEW j \in Jobs, NEW cmd \in Commands, Command(j, cmd) PROVE LeftAlone'
  <2>1. /\ At(j, "idle") /\ j = cmd.by /\ Others(j) /\ job'[j].at = "saving"
        /\ trouble' = trouble \union (IF file = Torn THEN {"torn"} ELSE {})
    BY <1>10, CommandOutcome
  <2> QED
    BY <2>1 DEF LeftAlone, Lossless, At, Others
<1>11. CASE Act
  <2>1. /\ At("operator", "acting") /\ Others("operator") /\ job'["operator"] = Idle
        /\ trouble' = trouble
    BY <1>11, ActOutcome
  <2> QED
    BY <2>1, IdleTyped DEF LeftAlone, Lossless, At, Others
<1>12. CASE StartApi
  <2>1. /\ api = "down" /\ Others("startup")
        /\ \/ file # Missing /\ job' = job /\ api' = "up" /\ lock' = lock
           \/ /\ file = Missing /\ api' = "starting" /\ lock' = "startup"
              /\ job'["startup"].at = "saving" /\ job'["startup"].base = Missing
              /\ job'["startup"].cmd = NoCommand
              /\ job'["startup"].state = [DefaultState EXCEPT !.enabled = DefaultEnabled]
        /\ trouble' = trouble
    BY <1>12, StartApiOutcome
  <2> QED
    BY <2>1 DEF LeftAlone, Lossless, At, Others, Jobs
<1>13. CASE Crash
  <2>1. /\ \A j \in Jobs \ ApiJobs : job'[j] = job[j]
        /\ \A j \in ApiJobs : job'[j] = Idle
        /\ trouble' = trouble \union (IF lock # None THEN {"crash"} ELSE {})
    BY <1>13, CrashOutcome
  <2> QED
    BY <2>1, IdleTyped DEF LeftAlone, Lossless, At, Others, Jobs
<1>14. CASE Tick
  BY <1>14 DEF Tick, LeftAlone, Lossless, At, Others
<1>15. CASE UNCHANGED vars
  BY <1>15 DEF vars, LeftAlone, Lossless, At, Others
<1> QED
  BY <1>1, <1>2, <1>3, <1>4, <1>5, <1>6, <1>7, <1>8, <1>9, <1>10, <1>11, <1>12, <1>13, <1>14,
     <1>15 DEF Next

-----------------------------------------------------------------------------
(* What a heal adds to a log whose state recalls it. *)

LEMMA SameBudget ==
    ASSUME NEW s, NEW t, NEW fails, NEW heals, NEW since
    PROVE  /\ s.counts = t.counts /\ Counts(s, fails) => Counts(t, fails)
           /\ s.last = t.last /\ s.attempts = t.attempts /\ Recalls(s, heals, since)
                 => Recalls(t, heals, since)
BY DEF Counts, Recalls

(* What the window has left behind may be forgotten. *)
LEMMA PrunedRecalls ==
    ASSUME NEW s \in States, NEW now \in Nat, NEW since \in Nat, since <= now,
           NEW heals \in [Keys -> Seq(Nat)], Recalls(s, heals, since)
    PROVE  Recalls(Pruned(s, now), heals, now)
<1>1. /\ Pruned(s, now).last = s.last
      /\ \A k \in Keys : Pruned(s, now).attempts[k] = {a \in s.attempts[k] : a[1] > now - Window}
  BY PrunedTyped
<1> SUFFICES ASSUME NEW k \in Keys, NEW n \in DOMAIN heals[k]
             PROVE  /\ heals[k][n] <= s.last[k]
                    /\ heals[k][n] > now - Window =>
                          \E a \in {a \in s.attempts[k] : a[1] > now - Window} : a[1] = heals[k][n]
  BY <1>1 DEF Recalls
<1>2. heals[k][n] \in Nat /\ Window \in Nat
  BY SelfHealAssumption
<1>3. heals[k][n] <= s.last[k]
  BY DEF Recalls
<1>4. ASSUME heals[k][n] > now - Window
      PROVE  \E a \in {a \in s.attempts[k] : a[1] > now - Window} : a[1] = heals[k][n]
  <2>1. heals[k][n] > since - Window
    BY <1>2, <1>4
  <2>2. PICK a \in s.attempts[k] : a[1] = heals[k][n]
    BY <2>1 DEF Recalls
  <2> QED
    BY <1>4, <2>2
<1> QED
  BY <1>3, <1>4

(* As many heals fall in a window as the state has attempts of it. *)
LEMMA WindowCounted ==
    ASSUME NEW s \in States, Countable(s), NEW k \in Keys, NEW now \in Nat,
           NEW heals \in [Keys -> Seq(Nat)], Recalls(s, heals, now), Ordered(heals, now)
    PROVE  /\ IsFiniteSet(InWindow(heals[k], now))
           /\ Cardinality(InWindow(heals[k], now)) <= Cardinality(s.attempts[k])
<1> DEFINE In == InWindow(heals[k], now)
           f == [n \in In |-> CHOOSE a \in s.attempts[k] : a[1] = heals[k][n]]
<1>1. heals[k] \in Seq(Nat) /\ Window \in Nat /\ DOMAIN heals[k] = 1 .. Len(heals[k]) /\ Len(heals[k]) \in Nat
  BY SelfHealAssumption
<1>2. \A n \in In : n \in DOMAIN heals[k] /\ heals[k][n] \in Nat /\ heals[k][n] > now - Window
  BY <1>1 DEF InWindow
<1>3. \A n \in In : f[n] \in s.attempts[k] /\ f[n][1] = heals[k][n]
  BY <1>2 DEF Recalls
<1>4. f \in [In -> s.attempts[k]]
  BY <1>3
<1>5. IsFiniteSet(In)
  <2>1. IsFiniteSet(1 .. Len(heals[k])) /\ In \subseteq 1 .. Len(heals[k])
    BY <1>1, FS_Interval DEF InWindow
  <2> QED
    BY <2>1, FS_Subset
<1>6. \A m, n \in In : f[m] = f[n] => m = n
  <2> SUFFICES ASSUME NEW m \in In, NEW n \in In, f[m] = f[n], m # n PROVE FALSE
    OBVIOUS
  <2>1. heals[k][m] = heals[k][n]
    BY <1>3
  <2>2. /\ m \in 1 .. Len(heals[k]) /\ n \in 1 .. Len(heals[k])
        /\ heals[k][m] \in Nat /\ heals[k][n] \in Nat
    BY <1>1, <1>2
  <2>5. /\ \A i \in 1 .. m - 1 : heals[k][i] < heals[k][m]
        /\ \A i \in 1 .. n - 1 : heals[k][i] < heals[k][n]
    BY <1>1, <2>2 DEF Ordered
  <2>3. CASE m < n
    <3>1. m \in 1 .. n - 1
      BY <2>2, <2>3
    <3> QED
      BY <2>1, <2>2, <2>5, <3>1
  <2>4. CASE n < m
    <3>1. n \in 1 .. m - 1
      BY <2>2, <2>4
    <3> QED
      BY <2>1, <2>2, <2>5, <3>1
  <2> QED
    BY <2>2, <2>3, <2>4
<1>7. IsFiniteSet(s.attempts[k])
  BY DEF Countable
<1>8. Cardinality(In) \in Nat /\ Cardinality(s.attempts[k]) \in Nat
  BY <1>5, <1>7, FS_CardinalityType
<1> HIDE DEF f, In
<1>9. ~(Cardinality(s.attempts[k]) < Cardinality(In))
  BY <1>4, <1>5, <1>6, <1>7, FS_PigeonHole
<1> QED
  BY <1>5, <1>8, <1>9 DEF In

LEMMA HealAdds ==
    ASSUME NEW s \in States, Countable(s), NEW k \in Keys, NEW now \in Nat,
           NEW heals \in [Keys -> Seq(Nat)],
           Recalls(s, heals, now), Spaced(heals), Capped(heals), Ordered(heals, now),
           Cardinality(s.attempts[k]) < AttemptCap, now - s.last[k] >= Backoff
    PROVE  LET more == [heals EXCEPT ![k] = Append(@, now)] IN
           /\ Spaced(more) /\ Capped(more) /\ Ordered(more, now)
           /\ Recalls(Charged(s, k, now, FALSE), more, now)
<1> DEFINE more == [heals EXCEPT ![k] = Append(@, now)]
           N == Len(heals[k])
<1>0. /\ Window \in Nat /\ Backoff \in Nat \ {0} /\ AttemptCap \in Nat
      /\ s.last \in [Keys -> Nat] /\ s.attempts \in [Keys -> SUBSET (Nat \X Nat)]
  BY SelfHealAssumption DEF AttemptCap, States
<1>1. /\ N \in Nat /\ DOMAIN heals[k] = 1 .. N /\ DOMAIN more[k] = 1 .. N + 1 /\ Len(more[k]) = N + 1
      /\ \A n \in 1 .. N : more[k][n] = heals[k][n] /\ heals[k][n] \in Nat
      /\ more[k][N + 1] = now
      /\ \A i \in Keys : i # k => more[i] = heals[i]
  OBVIOUS
<1> HIDE DEF more, N
<1>2. \A n \in 1 .. N : heals[k][n] <= s.last[k] /\ heals[k][n] < now
  BY <1>0, <1>1 DEF Recalls
<1>3. Spaced(more)
  <2> SUFFICES ASSUME NEW i \in Keys, NEW n \in 2 .. Len(more[i])
               PROVE  more[i][n] - more[i][n - 1] >= Backoff
    BY DEF Spaced
  <2>1. CASE i # k
    BY <1>1, <2>1 DEF Spaced
  <2>2. CASE i = k /\ n <= N
    <3>1. n \in 2 .. N /\ n - 1 \in 1 .. N
      BY <1>1, <2>2
    <3>2. heals[k][n] - heals[k][n - 1] >= Backoff
      BY <3>1 DEF Spaced, N
    <3> QED
      BY <1>1, <2>2, <3>1, <3>2
  <2>3. CASE i = k /\ n = N + 1
    <3>1. N \in 1 .. N /\ n - 1 = N
      BY <1>1, <2>3
    <3>2. heals[k][N] <= s.last[k] /\ heals[k][N] \in Nat
      BY <1>1, <1>2, <3>1
    <3> QED
      BY <1>0, <1>1, <2>3, <3>1, <3>2
  <2> QED
    BY <1>1, <2>1, <2>2, <2>3
<1>4. Ordered(more, now)
  <2> SUFFICES ASSUME NEW i \in Keys, NEW n \in DOMAIN more[i]
               PROVE  more[i][n] <= now /\ \A m \in 1 .. n - 1 : more[i][m] < more[i][n]
    BY DEF Ordered
  <2>1. CASE i # k
    BY <1>1, <2>1 DEF Ordered
  <2>2. CASE i = k /\ n \in 1 .. N
    BY <1>1, <2>2 DEF Ordered
  <2>3. CASE i = k /\ n = N + 1
    BY <1>1, <1>2, <2>3
  <2> QED
    BY <1>1, <2>1, <2>2, <2>3
<1>5. Capped(more)
  <2> SUFFICES ASSUME NEW i \in Keys, NEW t \in 0 .. MaxClock
               PROVE  Cardinality(InWindow(more[i], t)) <= AttemptCap
    BY DEF Capped
  <2>1. CASE i # k
    BY <1>1, <2>1 DEF Capped
  <2>2. CASE i = k /\ t < now
    <3>1. InWindow(more[k], t) = InWindow(heals[k], t)
      BY <1>1, <2>2 DEF InWindow
    <3> QED
      BY <2>2, <3>1 DEF Capped
  <2>3. CASE i = k /\ t >= now
    <3> DEFINE In == InWindow(heals[k], now)
    <3>1. InWindow(more[k], t) \subseteq In \union {N + 1}
      <4> SUFFICES ASSUME NEW n \in InWindow(more[k], t), n # N + 1 PROVE n \in In
        OBVIOUS
      <4>1. n \in 1 .. N /\ t - Window < more[k][n]
        BY <1>1 DEF InWindow
      <4>2. more[k][n] = heals[k][n] /\ heals[k][n] \in Nat /\ heals[k][n] < now
        BY <1>1, <1>2, <4>1
      <4> QED
        BY <1>0, <1>1, <2>3, <4>1, <4>2 DEF InWindow
    <3>2. IsFiniteSet(In) /\ Cardinality(In) <= Cardinality(s.attempts[k])
      BY WindowCounted
    <3>3. IsFiniteSet(s.attempts[k])
      BY DEF Countable
    <3>4. Cardinality(In) \in Nat /\ Cardinality(s.attempts[k]) \in Nat
      BY <3>2, <3>3, FS_CardinalityType
    <3>7. IsFiniteSet(In \union {N + 1}) /\ (Cardinality(In \union {N + 1}) = Cardinality(In)
                                               \/ Cardinality(In \union {N + 1}) = Cardinality(In) + 1)
      BY <3>2, FS_AddElement
    <3>5. IsFiniteSet(In \union {N + 1}) /\ Cardinality(In \union {N + 1}) <= Cardinality(In) + 1
          /\ Cardinality(In \union {N + 1}) \in Nat
      BY <3>4, <3>7
    <3>6. Cardinality(InWindow(more[k], t)) <= Cardinality(In \union {N + 1})
          /\ Cardinality(InWindow(more[k], t)) \in Nat
      BY <3>1, <3>5, FS_Subset, FS_CardinalityType
    <3> HIDE DEF In
    <3> QED
      BY <1>0, <2>3, <3>2, <3>4, <3>5, <3>6
  <2>4. t \in Int /\ now \in Int
    BY SelfHealAssumption
  <2> QED
    BY <2>1, <2>2, <2>3, <2>4
<1>6. Recalls(Charged(s, k, now, FALSE), more, now)
  <2> DEFINE charged == Charged(s, k, now, FALSE)
  <2>1. /\ charged.last = [s.last EXCEPT ![k] = now]
        /\ charged.attempts = [s.attempts EXCEPT ![k] = Another(@, now)]
    BY DEF Charged, States
  <2>2. s.attempts[k] \subseteq Another(s.attempts[k], now) /\ \E a \in Another(s.attempts[k], now) : a[1] = now
    BY <1>0, AnotherTyped DEF Countable
  <2> HIDE DEF charged
  <2> SUFFICES ASSUME NEW i \in Keys, NEW n \in DOMAIN more[i]
               PROVE  /\ more[i][n] <= charged.last[i]
                      /\ more[i][n] > now - Window => \E a \in charged.attempts[i] : a[1] = more[i][n]
    BY DEF Recalls, charged
  <2>3. CASE i # k
    BY <1>0, <1>1, <2>1, <2>3 DEF Recalls
  <2>4. CASE i = k /\ n \in 1 .. N
    <3>1. /\ more[k][n] = heals[k][n] /\ heals[k][n] \in Nat
          /\ charged.last[k] = now /\ charged.attempts[k] = Another(s.attempts[k], now)
      BY <1>0, <1>1, <2>1, <2>4
    <3>2. heals[k][n] > now - Window => \E a \in s.attempts[k] : a[1] = heals[k][n]
      <4>1. n \in DOMAIN heals[k] /\ Recalls(s, heals, now)
        BY <1>1, <2>4
      <4> QED
        BY <1>0, <4>1 DEF Recalls
    <3>3. heals[k][n] < now
      BY <1>2, <2>4
    <3> QED
      BY <2>2, <2>4, <3>1, <3>2, <3>3
  <2>5. CASE i = k /\ n = N + 1
    BY <1>0, <1>1, <2>1, <2>2, <2>5
  <2> QED
    BY <1>1, <2>3, <2>4, <2>5
<1> QED
  BY <1>3, <1>4, <1>5, <1>6 DEF more

(* A restart is charged to what the pass knows: the log and the state that goes with it
   stay in step, and an automatic one was within the budget. *)
LEMMA RestartHeals ==
    ASSUME TypeOK, Finite, Knowing, Heals, NEW j \in Jobs, Restart(j), Single
    PROVE  /\ Counts(job'[j].state, failed')
           /\ \A k \in Keys : failed'[k] <= MaxConsecutive
           /\ InOrder => /\ Recalls(job'[j].state, log', latest)
                         /\ Spaced(log') /\ Capped(log') /\ Ordered(log', latest)
<1> DEFINE s == job[j].state
           k == Key(j)
           now == job[j].now
           charged == Charged(s, k, now, job[j].manual)
<1>1. /\ At(j, "healing") /\ job[j].todo # <<>> /\ Due(j)
      /\ job[j].manual => log' = log /\ failed' = failed
      /\ ~job[j].manual => /\ log' = [log EXCEPT ![k] = Append(@, now)]
                           /\ failed' = [failed EXCEPT ![k] = @ + 1]
      /\ job'[j].state = charged
  BY RestartOutcome
<1>2. /\ k \in Keys /\ now \in Nat /\ job[j].manual \in BOOLEAN /\ s \in States /\ Countable(s)
      /\ log \in [Keys -> Seq(Nat)] /\ failed \in [Keys -> Nat] /\ latest \in Nat
      /\ MaxConsecutive \in Nat
  BY <1>1, TodoTyped, SelfHealAssumption DEF TypeOK, Process, Finite
<1>3. /\ s.counts \in [Keys -> Nat] /\ s.last \in [Keys -> Nat]
      /\ s.attempts \in [Keys -> SUBSET (Nat \X Nat)]
  BY <1>2 DEF States
<1>4. /\ charged.counts = [s.counts EXCEPT ![k] = @ + 1]
      /\ charged.last = [s.last EXCEPT ![k] = now]
      /\ charged.attempts = [s.attempts EXCEPT ![k] = IF job[j].manual THEN @ ELSE Another(@, now)]
  BY <1>2 DEF Charged, States
<1>5. /\ Counts(s, failed) /\ \A i \in Keys : failed[i] <= MaxConsecutive
      /\ InOrder => /\ Recalls(s, log, latest) /\ Spaced(log) /\ Capped(log) /\ Ordered(log, latest)
                    /\ now = latest
  BY <1>1 DEF Knowing, Knows, Heals
<1>6. ~job[j].manual => /\ Cardinality(s.attempts[k]) < AttemptCap /\ s.counts[k] < MaxConsecutive
                       /\ now - s.last[k] >= Backoff
  BY <1>1 DEF Due, WithinBudget
<1> HIDE DEF s, k, now, charged
<1>7. CASE job[j].manual
  <2>1. Counts(charged, failed)
    BY <1>2, <1>3, <1>4, <1>5 DEF Counts
  <2>2. ASSUME InOrder PROVE Recalls(charged, log, latest)
    <3>1. /\ Recalls(s, log, latest) /\ now = latest
          /\ \A i \in Keys : \A n \in DOMAIN log[i] : log[i][n] <= latest
      BY <1>5, <2>2 DEF Ordered
    <3>2. charged.attempts = s.attempts
      BY <1>3, <1>4, <1>7
    <3>3. \A i \in Keys : charged.last[i] = (IF i = k THEN latest ELSE s.last[i])
      BY <1>3, <1>4, <3>1
    <3> QED
      BY <3>1, <3>2, <3>3 DEF Recalls
  <2> QED
    BY <1>1, <1>5, <1>7, <2>1, <2>2
<1>8. CASE ~job[j].manual
  <2>1. Counts(charged, failed')
    BY <1>1, <1>2, <1>3, <1>4, <1>5, <1>8 DEF Counts
  <2>2. ASSUME NEW i \in Keys PROVE failed'[i] <= MaxConsecutive
    <3>1. failed'[i] = (IF i = k THEN failed[i] + 1 ELSE failed[i]) /\ failed[i] \in Nat
      BY <1>1, <1>2, <1>8
    <3>2. failed[k] <= s.counts[k] /\ s.counts[k] \in Nat /\ s.counts[k] < MaxConsecutive
      BY <1>2, <1>3, <1>5, <1>6, <1>8 DEF Counts
    <3> QED
      BY <1>2, <1>5, <3>1, <3>2
  <2>3. ASSUME InOrder
        PROVE  /\ Recalls(charged, log', latest)
               /\ Spaced(log') /\ Capped(log') /\ Ordered(log', latest)
    <3>1. /\ Recalls(s, log, now) /\ Spaced(log) /\ Capped(log) /\ Ordered(log, now)
          /\ now = latest
      BY <1>5, <2>3
    <3>2. charged = Charged(s, k, now, FALSE)
      BY <1>8 DEF charged, Charged
    <3>3. Cardinality(s.attempts[k]) < AttemptCap /\ now - s.last[k] >= Backoff
      BY <1>6, <1>8
    <3>4. LET more == [log EXCEPT ![k] = Append(@, now)] IN
          /\ Spaced(more) /\ Capped(more) /\ Ordered(more, now)
          /\ Recalls(Charged(s, k, now, FALSE), more, now)
      BY <1>2, <3>1, <3>3, HealAdds
    <3> QED
      BY <1>1, <1>8, <3>1, <3>2, <3>4
  <2> QED
    BY <1>1, <2>1, <2>2, <2>3
<1> QED
  BY <1>2, <1>7, <1>8

LEMMA KnowingStep ==
    ASSUME TypeOK, Phases, Roles, Finite, Copies, Turns, Heals, Knowing, [Next]_vars
    PROVE  Knowing'
<1>1. ASSUME NEW j \in Jobs, Survey(j) PROVE Knowing'
  <2>1. /\ At(j, "idle") /\ j \in Healers /\ Others(j) /\ job'[j].at = "surveyed"
        /\ job'[j].state = DefaultState /\ file' = file /\ failed' = failed /\ log' = log
        /\ latest' = latest /\ trouble' = trouble
    BY <1>1, SurveyOutcome DEF observed
  <2> QED
    BY <2>1 DEF Knowing, Knows, Single, InOrder, Lossless, LoadState, At, Others
<1>2. ASSUME NEW j \in Jobs, ReadMarkers(j) PROVE Knowing'
  <2>1. /\ At(j, "surveyed") /\ Others(j) /\ job'[j].at = "waiting" /\ job'[j].state = job[j].state
        /\ file' = file /\ failed' = failed /\ log' = log /\ latest' = latest
        /\ trouble' = trouble \union (IF file = Torn THEN {"torn"} ELSE {})
    BY <1>2, ReadMarkersOutcome DEF observed
  <2> QED
    BY <2>1 DEF Knowing, Knows, Single, InOrder, Lossless, LoadState, At, Others
<1>3. ASSUME NEW j \in Jobs, TakeState(j) PROVE Knowing'
  <2>1. /\ At(j, "waiting") /\ Others(j) /\ job'[j].at = "healing"
        /\ job'[j].state = Pruned(LoadState, job[j].now) /\ file' = file /\ failed' = failed
        /\ log' = log /\ latest' = (IF job[j].now > latest THEN job[j].now ELSE latest)
        /\ trouble' = trouble \union (IF file = Torn THEN {"torn"} ELSE {})
                      \union (IF job[j].now < latest THEN {"overtaken"} ELSE {})
                      \union (IF \E i \in Jobs : At(i, "healing") THEN {"overlap"} ELSE {})
        /\ job'[j].base = file /\ job'[j].now = job[j].now
    BY <1>3, TakeStateOutcome
  <2>2. Single' => Single /\ file # Torn /\ \A i \in Jobs : ~At(i, "healing")
    BY <2>1 DEF Single, Lossless
  <2>3. /\ LoadState \in States /\ job[j].now \in Nat /\ latest \in Nat /\ log \in [Keys -> Seq(Nat)]
    BY LoadStateTyped DEF TypeOK, Process
  <2>4. InOrder' => InOrder /\ latest <= job[j].now /\ latest' = job[j].now
    BY <2>1, <2>3 DEF InOrder
  <2>5. Single' => Knows(LoadState)
    BY <2>2 DEF Knowing
  <2>6. Single' => Counts(job'[j].state, failed')
    <3>1. job'[j].state = Pruned(LoadState, job[j].now)
      BY <2>1
    <3>2. job'[j].state.counts = LoadState.counts
      BY <2>3, <3>1, PrunedTyped
    <3> QED
      BY <2>1, <2>5, <3>2 DEF Knows, Counts
  <2>7. Single' /\ InOrder' => Recalls(job'[j].state, log', latest')
    BY <2>1, <2>3, <2>4, <2>5, PrunedRecalls DEF Knows
  <2> QED
    BY <2>1, <2>2, <2>6, <2>7 DEF Knowing, Knows, At, Others
<1>4. ASSUME NEW j \in Jobs, Recover(j) PROVE Knowing'
  <2>1. /\ At(j, "healing") /\ job[j].todo # <<>> /\ Others(j) /\ job'[j].at = "healing"
        /\ job'[j].state.counts = [job[j].state.counts EXCEPT ![Key(j)] = 0]
        /\ job'[j].state.last = job[j].state.last /\ job'[j].state.attempts = job[j].state.attempts
        /\ file' = file /\ failed' = [failed EXCEPT ![Key(j)] = 0] /\ log' = log /\ latest' = latest
        /\ trouble' = trouble
    BY <1>4, RecoverOutcome
  <2>2. Key(j) \in Keys /\ job[j].state \in States /\ failed \in [Keys -> Nat]
    BY <2>1, TodoTyped DEF TypeOK, Process
  <2>3. job[j].state.counts \in [Keys -> Nat]
    BY <2>2 DEF States
  <2>4. (Single' <=> Single) /\ (InOrder' <=> InOrder)
    BY <2>1 DEF Single, Lossless, InOrder
  <2>5. Single => Knows(job[j].state) /\ \A i \in Jobs : At(i, "healing") => i = j
    BY <2>1 DEF Knowing
  <2>6. Single => Counts(job'[j].state, failed')
    BY <2>1, <2>2, <2>3, <2>5 DEF Knows, Counts
  <2>7. Single /\ InOrder => Recalls(job'[j].state, log', latest')
    BY <2>1, <2>5, SameBudget DEF Knows
  <2> QED
    BY <2>1, <2>4, <2>5, <2>6, <2>7 DEF Knowing, Knows, At, Others
<1>5. ASSUME NEW j \in Jobs, LeaveAlone(j) PROVE Knowing'
  <2>1. /\ At(j, "healing") /\ job[j].todo # <<>> /\ Others(j) /\ job'[j].at = "healing"
        /\ job'[j].state = job[j].state /\ file' = file /\ failed' = failed /\ log' = log
        /\ latest' = latest /\ trouble' = trouble
    BY <1>5, LeaveAloneOutcome DEF observed
  <2> QED
    BY <2>1 DEF Knowing, Knows, Single, InOrder, Lossless, LoadState, At, Others
<1>6. ASSUME NEW j \in Jobs, Restart(j) PROVE Knowing'
  <2>1. /\ At(j, "healing") /\ job[j].todo # <<>> /\ Due(j) /\ Others(j) /\ job'[j].at = "healing"
        /\ file' = file /\ latest' = latest /\ trouble' = trouble
    BY <1>6, RestartOutcome
  <2>2. (Single' <=> Single) /\ (InOrder' <=> InOrder)
    BY <2>1 DEF Single, Lossless, InOrder
  <2>3. Single => \A i \in Jobs : At(i, "healing") => i = j
    BY <2>1 DEF Knowing
  <2>4. /\ Single => Counts(job'[j].state, failed')
        /\ Single /\ InOrder => Recalls(job'[j].state, log', latest')
    BY <1>6, <2>1, RestartHeals
  <2> QED
    BY <2>1, <2>2, <2>3, <2>4 DEF Knowing, Knows, At, Others
<1>7. ASSUME NEW j \in Jobs, Truncate(j) PROVE Knowing'
  <2>1. /\ At(j, "saving") \/ At(j, "healing")
        /\ Others(j) /\ job'[j].at = "writing" /\ job'[j].state = job[j].state /\ file' = Torn
        /\ failed' = failed /\ log' = log /\ latest' = latest
        /\ trouble' = trouble \union (IF file # job[j].base THEN {"lost"} ELSE {})
    BY <1>7, TruncateOutcome DEF observed
  <2>2. (Single' => Lossless' /\ Single) /\ (InOrder' <=> InOrder)
    BY <2>1 DEF Single, Lossless, InOrder
  <2>3. Single' => /\ file # Torn /\ \A i \in Jobs : ~At(i, "writing")
                   /\ At(j, "saving") => /\ job[j].state.counts = LoadState.counts
                                         /\ job[j].state.last = LoadState.last
                                         /\ job[j].state.attempts = LoadState.attempts
    BY <1>7, <2>2, TruncateKeeps
  <2>4. CASE At(j, "healing")
    <3>1. Single => Knows(job[j].state) /\ \A i \in Jobs : At(i, "healing") => i = j
      BY <2>4 DEF Knowing
    <3>2. file' = Torn /\ \A i \in Jobs : At(i, "writing")' <=> i = j \/ At(i, "writing")
      BY <2>1 DEF At, Others
    <3>3. \A i \in Jobs : At(i, "healing")' <=> i # j /\ At(i, "healing")
      BY <2>1 DEF At, Others
    <3>4. Single' => Knows(job[j].state)'
      BY <2>1, <2>2, <3>1 DEF Knows
    <3> QED
      BY <2>2, <2>3, <3>1, <3>2, <3>3, <3>4 DEF Knowing
  <2>5. CASE At(j, "saving")
    <3>1. Single' /\ (\A i \in Jobs : ~At(i, "healing")) => Knows(LoadState)
      BY <2>2, <2>3 DEF Knowing, At
    <3>2. Single' /\ (\A i \in Jobs : ~At(i, "healing")) => Knows(job[j].state)
      <4>1. Single' => /\ LoadState.counts = job[j].state.counts
                       /\ LoadState.last = job[j].state.last
                       /\ LoadState.attempts = job[j].state.attempts
        BY <2>3, <2>5
      <4> QED
        BY <3>1, <4>1, SameBudget DEF Knows
    <3> QED
      BY <2>1, <2>2, <2>3, <2>5, <3>2 DEF Knowing, Knows, At, Others
  <2> QED
    BY <2>1, <2>4, <2>5 DEF At
<1>8. ASSUME NEW j \in Jobs, Write(j) PROVE Knowing'
  <2>1. /\ At(j, "writing") /\ Others(j) /\ job'[j].at = (IF Acts(j) THEN "acting" ELSE "idle")
        /\ job'[j].state = DefaultState /\ file' = job[j].state /\ failed' = failed /\ log' = log
        /\ latest' = latest /\ trouble' = trouble
    BY <1>8, WriteOutcome
  <2>2. job[j].state \in States /\ (Single' <=> Single) /\ (InOrder' <=> InOrder)
    BY <2>1 DEF TypeOK, Process, Single, Lossless, InOrder
  <2>3. LoadState' = job[j].state
    BY <2>1, <2>2, FileAssumption DEF LoadState
  <2> QED
    BY <2>1, <2>2, <2>3 DEF Knowing, Knows, At, Others
<1>9. ASSUME NEW j \in Jobs, Unwritten(j) PROVE Knowing'
  <2>1. /\ At(j, "saving") \/ At(j, "healing")
        /\ Others(j) /\ job'[j].at \in {"idle", "acting"} /\ job'[j].state = DefaultState
        /\ file' = file /\ failed' = failed /\ log' = log /\ latest' = latest
        /\ trouble' = trouble \union {"unsaved"}
    BY <1>9, UnwrittenOutcome DEF observed
  <2> QED
    BY <2>1 DEF Knowing, Knows, Single, InOrder, Lossless, LoadState, At, Others
<1>10. ASSUME NEW j \in Jobs, NEW cmd \in Commands, Command(j, cmd) PROVE Knowing'
  <2>1. /\ At(j, "idle") /\ j = cmd.by /\ Others(j) /\ job'[j].at = "saving"
        /\ job'[j].state = Commanded(LoadState, cmd) /\ file' = file /\ failed' = failed
        /\ log' = log /\ latest' = latest
        /\ trouble' = trouble \union (IF file = Torn THEN {"torn"} ELSE {})
    BY <1>10, CommandOutcome
  <2> QED
    BY <2>1 DEF Knowing, Knows, Single, InOrder, Lossless, LoadState, At, Others
<1>11. CASE Act
  <2>1. /\ At("operator", "acting") /\ Others("operator") /\ job'["operator"] = Idle /\ file' = file
        /\ failed' = failed /\ log' = log /\ latest' = latest /\ trouble' = trouble
    BY <1>11, ActOutcome DEF observed
  <2> QED
    BY <2>1, IdleTyped DEF Knowing, Knows, Single, InOrder, Lossless, LoadState, At, Others
<1>12. CASE StartApi
  <2>1. /\ api = "down" /\ Others("startup")
        /\ \/ file # Missing /\ job' = job /\ api' = "up" /\ lock' = lock
           \/ /\ file = Missing /\ api' = "starting" /\ lock' = "startup"
              /\ job'["startup"].at = "saving" /\ job'["startup"].base = Missing
              /\ job'["startup"].cmd = NoCommand
              /\ job'["startup"].state = [DefaultState EXCEPT !.enabled = DefaultEnabled]
        /\ file' = file /\ failed' = failed /\ log' = log /\ latest' = latest /\ trouble' = trouble
    BY <1>12, StartApiOutcome DEF observed
  <2>2. At("startup", "idle")
    BY <2>1 DEF Phases, ApiJobs
  <2> QED
    BY <2>1, <2>2 DEF Knowing, Knows, Single, InOrder, Lossless, LoadState, At, Others
<1>13. CASE Crash
  <2>1. /\ \A j \in Jobs \ ApiJobs : job'[j] = job[j]
        /\ \A j \in ApiJobs : job'[j] = Idle
        /\ file' = file /\ failed' = failed /\ log' = log /\ latest' = latest
        /\ trouble' = trouble \union (IF lock # None THEN {"crash"} ELSE {})
    BY <1>13, CrashOutcome DEF observed
  <2>2. Single' => \A i \in ApiJobs : ~At(i, "healing") /\ ~At(i, "writing")
    BY <2>1 DEF Single, TypeOK, Locked, ApiJobs, None
  <2> QED
    BY <2>1, <2>2, IdleTyped
       DEF Knowing, Knows, Single, InOrder, Lossless, LoadState, At, Others, Jobs
<1>14. CASE Tick
  BY <1>14 DEF Tick, observed, Knowing, Knows, Single, InOrder, Lossless, LoadState, At, Others
<1>15. CASE UNCHANGED vars
  BY <1>15 DEF vars, Knowing, Knows, Single, InOrder, Lossless, LoadState, At, Others, observed
<1> QED
  BY <1>1, <1>2, <1>3, <1>4, <1>5, <1>6, <1>7, <1>8, <1>9, <1>10, <1>11, <1>12, <1>13, <1>14,
     <1>15 DEF Next

LEMMA HealsStep ==
    ASSUME TypeOK, Finite, Knowing, Heals, [Next]_vars
    PROVE  Heals'
<1>1. ASSUME NEW j \in Jobs, Survey(j) PROVE Heals'
  <2>1. /\ At(j, "idle") /\ j \in Healers /\ Others(j) /\ job'[j].at = "surveyed"
        /\ failed' = failed /\ log' = log /\ latest' = latest /\ trouble' = trouble
    BY <1>1, SurveyOutcome DEF observed
  <2> QED
    BY <2>1 DEF Heals, Single, InOrder, Lossless, At, Others
<1>2. ASSUME NEW j \in Jobs, ReadMarkers(j) PROVE Heals'
  <2>1. /\ At(j, "surveyed") /\ Others(j) /\ job'[j].at = "waiting" /\ failed' = failed
        /\ log' = log /\ latest' = latest
        /\ trouble' = trouble \union (IF file = Torn THEN {"torn"} ELSE {})
    BY <1>2, ReadMarkersOutcome DEF observed
  <2> QED
    BY <2>1 DEF Heals, Single, InOrder, Lossless, At, Others
<1>3. ASSUME NEW j \in Jobs, TakeState(j) PROVE Heals'
  <2>1. /\ At(j, "waiting") /\ Others(j) /\ job'[j].at = "healing" /\ job'[j].now = job[j].now
        /\ failed' = failed /\ log' = log
        /\ latest' = (IF job[j].now > latest THEN job[j].now ELSE latest)
        /\ trouble' = trouble \union (IF file = Torn THEN {"torn"} ELSE {})
                      \union (IF job[j].now < latest THEN {"overtaken"} ELSE {})
                      \union (IF \E i \in Jobs : At(i, "healing") THEN {"overlap"} ELSE {})
    BY <1>3, TakeStateOutcome
  <2>2. Single' => Single /\ \A i \in Jobs : ~At(i, "healing")
    BY <2>1 DEF Single, Lossless
  <2>3. job[j].now \in Nat /\ latest \in Nat /\ log \in [Keys -> Seq(Nat)]
    BY DEF TypeOK, Process
  <2>4. InOrder' => InOrder /\ latest <= job[j].now /\ latest' = job[j].now
    BY <2>1, <2>3 DEF InOrder
  <2>5. ASSUME Ordered(log, latest), InOrder' PROVE Ordered(log', latest')
    <3> SUFFICES ASSUME NEW k \in Keys, NEW n \in DOMAIN log[k]
                 PROVE  log[k][n] <= latest' /\ \A m \in 1 .. n - 1 : log[k][m] < log[k][n]
      BY <2>1 DEF Ordered
    <3>1. log[k][n] \in Nat
      BY <2>3
    <3> QED
      BY <2>3, <2>4, <2>5, <3>1 DEF Ordered
  <2> QED
    BY <2>1, <2>2, <2>4, <2>5 DEF Heals, At, Others
<1>4. ASSUME NEW j \in Jobs, Recover(j) PROVE Heals'
  <2>1. /\ At(j, "healing") /\ job[j].todo # <<>> /\ Others(j) /\ job'[j].at = "healing"
        /\ job'[j].now = job[j].now /\ failed' = [failed EXCEPT ![Key(j)] = 0] /\ log' = log
        /\ latest' = latest /\ trouble' = trouble
    BY <1>4, RecoverOutcome
  <2>2. Key(j) \in Keys /\ failed \in [Keys -> Nat] /\ MaxConsecutive \in Nat
    BY <2>1, TodoTyped, SelfHealAssumption DEF TypeOK, Process
  <2>3. Single => \A k \in Keys : failed'[k] <= MaxConsecutive
    BY <2>1, <2>2 DEF Heals
  <2> QED
    BY <2>1, <2>3 DEF Heals, Single, InOrder, Lossless, At, Others
<1>5. ASSUME NEW j \in Jobs, LeaveAlone(j) PROVE Heals'
  <2>1. /\ At(j, "healing") /\ job[j].todo # <<>> /\ Others(j) /\ job'[j].at = "healing"
        /\ job'[j].now = job[j].now /\ failed' = failed /\ log' = log /\ latest' = latest
        /\ trouble' = trouble
    BY <1>5, LeaveAloneOutcome DEF observed
  <2> QED
    BY <2>1 DEF Heals, Single, InOrder, Lossless, At, Others
<1>6. ASSUME NEW j \in Jobs, Restart(j) PROVE Heals'
  <2>1. /\ At(j, "healing") /\ job[j].todo # <<>> /\ Due(j) /\ Others(j) /\ job'[j].at = "healing"
        /\ job'[j].now = job[j].now /\ latest' = latest /\ trouble' = trouble
    BY <1>6, RestartOutcome
  <2>2. (Single' <=> Single) /\ (InOrder' <=> InOrder)
    BY <2>1 DEF Single, Lossless, InOrder
  <2>3. Single => /\ \A k \in Keys : failed'[k] <= MaxConsecutive
                  /\ InOrder => Spaced(log') /\ Capped(log') /\ Ordered(log', latest)
    BY <1>6, RestartHeals
  <2>4. \A i \in Jobs : job'[i].at = job[i].at /\ job'[i].now = job[i].now
    BY <2>1 DEF At, Others
  <2> QED
    BY <2>1, <2>2, <2>3, <2>4 DEF Heals, At, Others
<1>7. ASSUME NEW j \in Jobs, Truncate(j) PROVE Heals'
  <2>1. /\ At(j, "saving") \/ At(j, "healing")
        /\ Others(j) /\ job'[j].at = "writing" /\ failed' = failed /\ log' = log /\ latest' = latest
        /\ trouble' = trouble \union (IF file # job[j].base THEN {"lost"} ELSE {})
    BY <1>7, TruncateOutcome DEF observed
  <2> QED
    BY <2>1 DEF Heals, Single, InOrder, Lossless, At, Others
<1>8. ASSUME NEW j \in Jobs, Write(j) PROVE Heals'
  <2>1. /\ At(j, "writing") /\ Others(j) /\ job'[j].at = (IF Acts(j) THEN "acting" ELSE "idle")
        /\ failed' = failed /\ log' = log /\ latest' = latest /\ trouble' = trouble
    BY <1>8, WriteOutcome
  <2> QED
    BY <2>1 DEF Heals, Single, InOrder, Lossless, At, Others
<1>9. ASSUME NEW j \in Jobs, Unwritten(j) PROVE Heals'
  <2>1. /\ At(j, "saving") \/ At(j, "healing")
        /\ Others(j) /\ job'[j].at \in {"idle", "acting"} /\ failed' = failed /\ log' = log
        /\ latest' = latest /\ trouble' = trouble \union {"unsaved"}
    BY <1>9, UnwrittenOutcome DEF observed
  <2> QED
    BY <2>1 DEF Heals, Single, InOrder, Lossless, At, Others
<1>10. ASSUME NEW j \in Jobs, NEW cmd \in Commands, Command(j, cmd) PROVE Heals'
  <2>1. /\ At(j, "idle") /\ j = cmd.by /\ Others(j) /\ job'[j].at = "saving" /\ failed' = failed
        /\ log' = log /\ latest' = latest
        /\ trouble' = trouble \union (IF file = Torn THEN {"torn"} ELSE {})
    BY <1>10, CommandOutcome
  <2> QED
    BY <2>1 DEF Heals, Single, InOrder, Lossless, At, Others
<1>11. CASE Act
  <2>1. /\ At("operator", "acting") /\ Others("operator") /\ job'["operator"] = Idle
        /\ failed' = failed /\ log' = log /\ latest' = latest /\ trouble' = trouble
    BY <1>11, ActOutcome DEF observed
  <2> QED
    BY <2>1, IdleTyped DEF Heals, Single, InOrder, Lossless, At, Others
<1>12. CASE StartApi
  <2>1. /\ api = "down" /\ Others("startup")
        /\ \/ file # Missing /\ job' = job /\ api' = "up" /\ lock' = lock
           \/ /\ file = Missing /\ api' = "starting" /\ lock' = "startup"
              /\ job'["startup"].at = "saving" /\ job'["startup"].base = Missing
              /\ job'["startup"].cmd = NoCommand
              /\ job'["startup"].state = [DefaultState EXCEPT !.enabled = DefaultEnabled]
        /\ failed' = failed /\ log' = log /\ latest' = latest /\ trouble' = trouble
    BY <1>12, StartApiOutcome DEF observed
  <2> QED
    BY <2>1 DEF Heals, Single, InOrder, Lossless, At, Others, Jobs
<1>13. CASE Crash
  <2>1. /\ \A j \in Jobs \ ApiJobs : job'[j] = job[j]
        /\ \A j \in ApiJobs : job'[j] = Idle
        /\ failed' = failed /\ log' = log /\ latest' = latest
        /\ trouble' = trouble \union (IF lock # None THEN {"crash"} ELSE {})
    BY <1>13, CrashOutcome DEF observed
  <2> QED
    BY <2>1, IdleTyped DEF Heals, Single, InOrder, Lossless, At, Others, Jobs
<1>14. CASE Tick
  BY <1>14 DEF Tick, observed, Heals, Single, InOrder, Lossless, At, Others
<1>15. CASE UNCHANGED vars
  BY <1>15 DEF vars, Heals, Single, InOrder, Lossless, At, Others, observed
<1> QED
  BY <1>1, <1>2, <1>3, <1>4, <1>5, <1>6, <1>7, <1>8, <1>9, <1>10, <1>11, <1>12, <1>13, <1>14,
     <1>15 DEF Next

-----------------------------------------------------------------------------
(* Everything together. *)

IInv ==
    /\ TypeOK /\ Phases /\ Roles /\ Finite
    /\ Copies /\ Turns /\ Stopped /\ Enabled /\ Down /\ LeftAlone
    /\ Knowing /\ Heals

LEMMA InitHolds == Init => IInv
<1> SUFFICES ASSUME Init PROVE IInv
  OBVIOUS
<1>1. /\ file = Missing /\ lock = None /\ api = "down" /\ job = [j \in Jobs |-> Idle]
      /\ halted = {} /\ clock = Backoff /\ faults = 0 /\ asked = 0
      /\ toggled = {} /\ intended = {} /\ log = [k \in Keys |-> <<>>]
      /\ failed = [k \in Keys |-> 0] /\ latest = 0 /\ trouble = {}
  BY DEF Init
<1>2. /\ Idle \in Process /\ Idle.at = "idle" /\ Idle.cmd = NoCommand /\ Idle.todo = <<>>
      /\ Idle.state = DefaultState /\ Idle.base = Missing
  BY IdleTyped DEF Idle
<1>3. /\ Backoff \in Nat \ {0} /\ MaxConsecutive \in Nat /\ AttemptCap \in Nat
      /\ \A j \in Jobs : job[j] = Idle
  BY <1>1, SelfHealAssumption DEF AttemptCap
<1>4. TypeOK
  <2>1. log \in [Keys -> Seq(Nat)] /\ failed \in [Keys -> Nat] /\ job \in [Jobs -> Process]
    BY <1>1, <1>2
  <2> QED
    BY <1>1, <1>2, <1>3, <2>1 DEF TypeOK, Locked, At, Jobs
<1>5. Phases /\ Roles
  BY OperatorIsAJob, <1>1, <1>2, <1>3 DEF Phases, Roles, At, Jobs
<1>6. Countable(DefaultState)
  BY FS_EmptySet DEF Countable, DefaultState
<1>7. Finite
  BY <1>1, <1>2, <1>3, <1>6 DEF Finite
<1>8. Copies
  BY <1>2, <1>3 DEF Copies, Copied, At, NoCommand, None
<1>9. LoadState = DefaultState /\ DefaultState.stopped = {}
  BY <1>1 DEF LoadState, DefaultState
<1>10. Turns /\ Stopped /\ Enabled /\ Down /\ LeftAlone
  BY OperatorIsAJob, <1>1, <1>2, <1>3, <1>9
     DEF Turns, Stopped, Enabled, Down, LeftAlone, At, NoCommand, None
<1>11. Knows(DefaultState)
  BY <1>1 DEF Knows, Counts, Recalls, DefaultState
<1>12. Knowing
  BY <1>2, <1>3, <1>9, <1>11 DEF Knowing, At
<1>13. Capped(log)
  <2> SUFFICES ASSUME NEW k \in Keys, NEW t \in 0 .. MaxClock
               PROVE  Cardinality(InWindow(log[k], t)) <= AttemptCap
    BY DEF Capped
  <2>1. InWindow(log[k], t) = {}
    BY <1>1 DEF InWindow
  <2> QED
    BY <1>3, <2>1, FS_EmptySet
<1>14. Heals
  BY <1>1, <1>2, <1>3, <1>13 DEF Heals, Spaced, Ordered, At
<1> QED
  BY <1>4, <1>5, <1>7, <1>8, <1>10, <1>12, <1>14 DEF IInv

LEMMA StepHolds == IInv /\ [Next]_vars => IInv'
<1> SUFFICES ASSUME IInv, [Next]_vars PROVE IInv'
  OBVIOUS
<1>1. /\ TypeOK /\ Phases /\ Roles /\ Finite /\ Copies /\ Turns
      /\ Stopped /\ Enabled /\ Down /\ LeftAlone /\ Knowing /\ Heals
  BY DEF IInv
<1>2. TypeOK' /\ Phases' /\ Roles' /\ Finite'
  BY <1>1, TypeStep, PhasesStep, RolesStep, FiniteStep
<1>3. Copies' /\ Turns' /\ Stopped' /\ Enabled'
  BY <1>1, CopiesStep, TurnsStep, StoppedStep, EnabledStep
<1>4. Down' /\ LeftAlone'
  BY <1>1, DownStep, LeftAloneStep
<1>5. Knowing' /\ Heals'
  BY <1>1, KnowingStep, HealsStep
<1> QED
  BY <1>2, <1>3, <1>4, <1>5 DEF IInv

LEMMA IInvAlways == Spec => []IInv
BY InitHolds, StepHolds, PTL DEF Spec

(* The file, the jobs and what they hold are what the code takes them for, and a thread
   of the API that has read the file to change it holds the lock (_state_lock in
   heal_now and _write_state). *)
THEOREM WatchdogIsTyped == Spec => []TypeOK
<1>1. IInv => TypeOK
  BY DEF IInv
<1> QED
  BY <1>1, IInvAlways, PTL

(* The file is true to what operators asked for last, as long as no write was made over
   another's, read by halves or refused (heal_now and _save_state). *)
THEOREM OperatorsStayRemembered == Spec => []OperatorsAreRemembered
<1>1. IInv => OperatorsAreRemembered
  <2> SUFFICES ASSUME IInv, Intact, Lossless
               PROVE  /\ toggled # {} => file.enabled \in toggled
                      /\ job["operator"].at \in {"idle", "acting"} => file.stopped = intended
    BY TroubleNamed DEF OperatorsAreRemembered
  <2>1. Stopped /\ Enabled /\ file # Torn /\ LoadState = file
    BY DEF IInv, Intact, LoadState
  <2> QED
    BY <2>1 DEF Stopped, Enabled, At
<1> QED
  BY <1>1, IInvAlways, PTL

(* No pass heals a key oftener than the consecutive cap allows while none of its rows
   is seen healthy (heal_now). *)
THEOREM KeysAreGivenUp == Spec => []GivesUp
<1>1. IInv => GivesUp
  BY TroubleNamed DEF IInv, Heals, GivesUp
<1> QED
  BY <1>1, IInvAlways, PTL

(* Two automatic heals of a key are a backoff apart, by the times of their passes
   (heal_now). *)
THEOREM HealsAreSpaced == Spec => []BackedOff
<1>1. IInv => BackedOff
  BY TroubleNamed DEF IInv, Heals, Spaced, BackedOff
<1> QED
  BY <1>1, IInvAlways, PTL

(* No window of a key sees more automatic heals than the cap, although what the file
   lists as attempts is pruned by every pass (heal_now). *)
THEOREM WindowsAreBounded == Spec => []WindowBounded
<1>1. IInv => WindowBounded
  BY TroubleNamed DEF IInv, Heals, Capped, InWindow, WindowBounded
<1> QED
  BY <1>1, IInvAlways, PTL

(* Only an automatic restart adds to the log of heals. *)
LEMMA OnlyRestartsHeal ==
    ASSUME IInv, [Next]_vars, log' # log
    PROVE  \E j \in Jobs : Restart(j)
<1>1. TypeOK /\ Phases /\ Roles /\ Finite
  BY DEF IInv
<1>2. ASSUME NEW j \in Jobs,
             \/ Survey(j) \/ ReadMarkers(j) \/ TakeState(j) \/ Recover(j) \/ LeaveAlone(j)
             \/ Truncate(j) \/ Write(j) \/ Unwritten(j) \/ \E cmd \in Commands : Command(j, cmd)
      PROVE  FALSE
  BY <1>2 DEF Survey, ReadMarkers, TakeState, Recover, LeaveAlone, Truncate, Write, Unwritten,
              Command, observed
<1>3. ASSUME Act \/ StartApi \/ Crash \/ Tick PROVE FALSE
  BY <1>3 DEF Act, StartApi, Crash, Tick, observed
<1>4. CASE UNCHANGED vars
  BY <1>4 DEF vars
<1> QED
  BY <1>2, <1>3, <1>4 DEF Next

(* A component that was down for an operator's stop, and still meant to be, when a pass
   read the markers is not restarted by that pass (heal_now, mark_intentionally_stopped). *)
THEOREM StopsAreRespected == Spec => StopIsRespectedUnlessLost
<1>1. ASSUME IInv, [Next]_vars
      PROVE  [Without({"lost", "torn", "unsaved"}) => \A j \in Healers : ~Undoes(j)]_vars
  <2> SUFFICES ASSUME Lossless, NEW j \in Healers, Undoes(j) PROVE FALSE
    BY TroubleNamed
  <2>1. /\ job[j].todo # <<>> /\ log' # log /\ job'[j] # job[j] /\ Row(j).wasHalted
    BY DEF Undoes
  <2>2. TypeOK /\ Phases /\ Roles /\ Finite /\ LeftAlone
    BY <1>1 DEF IInv
  <2>3. PICK i \in Jobs : Restart(i)
    BY <1>1, <2>1, OnlyRestartsHeal
  <2>4. /\ At(i, "healing") /\ Due(i) /\ Others(i) /\ (job[i].manual => log' = log)
    BY <2>2, <2>3, RestartOutcome
  <2>5. j \in Jobs
    BY HealersTyped DEF Jobs, ApiJobs, CliJobs
  <2>6. i = j
    BY <2>1, <2>4, <2>5 DEF Others
  <2>7. Row(j).desired
    BY <2>1, <2>4, <2>6 DEF Due
  <2>8. 1 \in DOMAIN job[j].todo /\ Row(j) = job[j].todo[1]
    BY <2>1, <2>2, <2>5 DEF TypeOK, Process, Row
  <2>9. job[j].todo[1].wasHalted => ~job[j].todo[1].desired
    BY <2>2, <2>4, <2>5, <2>6, <2>8 DEF LeftAlone
  <2> QED
    BY <2>1, <2>7, <2>8, <2>9
<1>2. StopIsRespectedUnlessLost
        <=> [][Without({"lost", "torn", "unsaved"}) => \A j \in Healers : ~Undoes(j)]_vars
  BY DEF StopIsRespectedUnlessLost
<1> QED
  BY <1>1, <1>2, IInvAlways, PTL DEF Spec
=============================================================================
