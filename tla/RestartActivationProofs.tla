------------------------ MODULE RestartActivationProofs ------------------------
(***************************************************************************)
(* The steps of saving and restarting keep the promise of the notice, for  *)
(* any options, texts, defaults, operators and interleaving of threads and *)
(* processes, as long as operators wait for everything to settle, no two   *)
(* processes rewrite the notice at the same instant, and nothing fails     *)
(* half-way.                                                               *)
(***************************************************************************)
EXTENDS RestartActivation, SequenceTheorems, TLAPS

-----------------------------------------------------------------------------
(* Types, and where an actor may be                                         *)

Entries  == [Keys -> Texts \union {Nothing}]
Files    == [Keys -> Texts \union {Absent}]
Statuses == {"none", "running", "failed", "succeeded"}

Ops == [do : {"mark", "reconcile", "clear", "record"}, on : Components, texts : Entries,
        keys : SUBSET Keys, status : Statuses]

OfOperators == {"none", "save", "secret", "request", "ops", "bounce"}

CmdsOf(a) == IF a = Timer THEN {"none", "timer"}
             ELSE IF a = Startup THEN {"none", "startup"} ELSE OfOperators

PlacesOf(cmd) ==
    CASE cmd = "none"              -> {"idle"}
      [] cmd \in {"save", "secret"} -> {"merge", "write", "take", "put", "idle"}
      [] cmd = "request"           -> {"take", "put", "schedule"}
      [] cmd \in {"ops", "bounce"} -> {"bounce", "take", "put", "idle"}
      [] cmd = "timer"             -> {"restart", "take", "put"}
      [] cmd = "startup"           -> {"take", "put", "serve"}

ThenOf(cmd) ==
    CASE cmd = "request" -> "schedule"
      [] cmd = "timer"   -> "restart"
      [] cmd = "startup" -> "serve"
      [] OTHER           -> "idle"

Places == {"idle", "merge", "write", "take", "put", "schedule", "bounce", "restart", "serve"}

Doings == [cmd : OfOperators \union {"timer", "startup"}, at : Places,
           read : [Keys -> Texts \union {Absent, Nothing}],
           text : [Keys -> Texts \union {Absent, Nothing}],
           new : Entries, todo : Seq(Ops),
           copy : {<<>>} \union (Entries \X [Components -> Statuses]),
           then : Places, targets : SUBSET Components, asked : SUBSET Components, ok : BOOLEAN]

TypeOK ==
    /\ config \in Files /\ loaded \in Files
    /\ previous \in Entries /\ attempt \in [Components -> Statuses]
    /\ phase \in [Components -> {"up", "starting", "down", "snapshotted", "loaded"}]
    /\ phase["web"] \in {"up", "starting"}
    /\ phase["api"] \in {"up", "down", "snapshotted", "loaded"}
    /\ snap \subseteq Of("api")
    /\ act \in [Actors -> Doings]
    /\ unannounced \subseteq {"web"}
    /\ faults \in Nat

\* An actor is somewhere in its own command, and has a list to work through
\* exactly when it is working through one.
Placed(a, does) ==
    /\ does.cmd \in CmdsOf(a)
    /\ does.at \in PlacesOf(does.cmd)
    /\ does.cmd = "none" => does = Idle
    /\ does.todo = <<>> <=> does.at \notin {"take", "put"}
    /\ does.at \in {"take", "put"} => does.then = ThenOf(does.cmd)
    /\ does.copy = <<>> <=> does.at # "put"
    /\ does.at = "write" => does.text \in Files

\* What runs in the API runs while it is up, but for its start.
InPlace ==
    /\ \A a \in Actors : Placed(a, act[a])
    /\ \A a \in Actors : a # Startup /\ InApi(a) => Up("api")
    /\ act[Startup] # Idle => phase["api"] = "loaded"
    /\ Up("api") => snap = {}

Typed == TypeOK /\ InPlace

-----------------------------------------------------------------------------
(* While nothing has failed                                                  *)

\* Of the operators and the timer, one is at work at a time.
OneAtWork ==
    \A a, b \in Actors \ {Startup} : act[a] # Idle /\ act[b] # Idle => a = b

\* A save works on what config.ini says, while the web process is up.
SaveIsCurrent(does) ==
    does.cmd \in {"save", "secret"} =>
        /\ Up("web")
        /\ does.new \in Options
        /\ does.cmd = "secret" => \A k \in Of("api") : does.new[k] = Nothing
        /\ does.at \in {"merge", "write"} => does.read = config
        /\ does.at = "write" => does.text = Written(config, does.new)

\* Its service has loaded what config.ini says, or is about to.
Fresh(c) == \A k \in Of(c) : Coming[k] = config[k]

\* What an operation of a save, and one of a restart, is about.
Concerns(op) ==
    /\ op.do \in {"mark", "reconcile"}
    /\ \A k \in Keys : op.texts[k] # Nothing => k \in Of(op.on)

Clears(op) == op.do = "clear" /\ op.keys = Of(op.on) /\ Fresh(op.on)

\* Marks come first, and no two of them name an option differently.
Orderly(todo) ==
    \A i, j \in DOMAIN todo : todo[j].do = "mark" =>
        /\ i < j => todo[i].do = "mark"
        /\ todo[i].do = "mark" =>
              \A k \in Keys : todo[i].texts[k] # Nothing /\ todo[j].texts[k] # Nothing
                              => todo[i].texts[k] = todo[j].texts[k]

TodoIsRight(does) ==
    /\ does.cmd \in {"save", "secret"} =>
          /\ Orderly(does.todo)
          /\ \A i \in DOMAIN does.todo :
                Concerns(does.todo[i]) /\ (does.cmd = "secret" => does.todo[i].on = "web")
    /\ does.cmd \in {"ops", "bounce", "timer"} =>
          \A i \in DOMAIN does.todo : does.todo[i].do = "record" \/ Clears(does.todo[i])
    /\ does.cmd = "startup" =>
          \A i \in DOMAIN does.todo :
             does.todo[i].do = "clear" /\ does.todo[i].on = "api" /\ does.todo[i].keys = snap
    /\ does.cmd = "request" => \A i \in DOMAIN does.todo : does.todo[i].do = "record"

\* A restart that has succeeded so far.
AskedIsFresh(does) ==
    does.at = "bounce" /\ does.ok =>
        /\ \A c \in does.asked : Fresh(c)
        /\ "web" \in does.asked => "web" \in unannounced

Right(does) == SaveIsCurrent(does) /\ TodoIsRight(does) /\ AskedIsFresh(does)

\* One actor at a time is about to replace the notice, with a copy that is not stale.
CopyIsCurrent ==
    /\ \A a \in Actors : At(a, "put") => act[a].copy = file
    /\ \A a, b \in Actors : At(a, "put") /\ At(b, "put") => a = b

StartIsRecorded == At(Startup, "serve") => \A k \in snap : previous[k] = Nothing

KeyOK(k) ==
    /\ ~Promise!Agrees(k) => Due[k] # Nothing
    /\ Due[k] # Nothing => Value(k, Due[k]) = Value(k, Coming[k]) /\ Due[k] # config[k]

Kept == \A k \in Announced : KeyOK(k)

Undisturbed ==
    /\ OneAtWork
    /\ \A a \in Actors : Right(act[a])
    /\ CopyIsCurrent
    /\ StartIsRecorded
    /\ Kept

Inv == Typed /\ (faults = 0 => Undisturbed)

-----------------------------------------------------------------------------
(* Types                                                                     *)

LEMMA Constants ==
    /\ Timer \in Actors /\ Startup \in Actors /\ Timer # Startup
    /\ \A a \in Operators : a \in Actors /\ a # Timer /\ a # Startup
    /\ NoTexts \in Entries /\ NoAttempts \in [Components -> Statuses]
    /\ Options \subseteq Entries
    /\ \A c \in Components : Of(c) \subseteq Keys
    /\ \A k \in Keys : Reader[k] \in Components
  BY ActivationAssumption, PendingAssumption
     DEF Actors, Timer, Startup, NoTexts, Entries, NoAttempts, Statuses, Updates, Of

LEMMA EmptyTodo == <<>> \in Seq(Ops)
  OBVIOUS

LEMMA IdleIsFine ==
    /\ Idle \in Doings
    /\ \A a \in Actors : Placed(a, Idle)
    /\ Idle.cmd = "none" /\ Idle.at = "idle" /\ Idle.todo = <<>> /\ Idle.copy = <<>>
    /\ Idle.targets = {} /\ Idle.asked = {} /\ Idle.ok = TRUE /\ Idle.new = NoTexts
  <1>1. NoTexts \in Entries /\ NoTexts \in [Keys -> Texts \union {Absent, Nothing}]
    BY Constants DEF NoTexts
  <1>2. Idle \in Doings
    BY <1>1, EmptyTodo DEF Idle, Doings, OfOperators, Places
  <1>3. \A a \in Actors : Placed(a, Idle)
    BY DEF Placed, Idle, CmdsOf, PlacesOf, OfOperators
  <1> QED
    BY <1>2, <1>3 DEF Idle

\* What an operation is.
LEMMA OpTypes ==
    ASSUME NEW c \in Components, NEW texts \in Entries, NEW keys \in SUBSET Keys,
           NEW status \in Statuses
    PROVE  /\ Mark(c, texts) \in Ops /\ Reconcile(c, texts) \in Ops
           /\ Clear(c, keys) \in Ops /\ Record(c, status) \in Ops
  BY Constants DEF Mark, Reconcile, Clear, Record, Ops, Statuses

\* One operation for each of some components.
LEMMA EachType ==
    ASSUME NEW cs \in SUBSET Components, NEW ops \in [Components -> Ops]
    PROVE  /\ Each(cs, ops) \in Seq(Ops)
           /\ Each(cs, ops) = <<>> <=> cs = {}
           /\ \A i \in DOMAIN Each(cs, ops) : \E c \in cs : Each(cs, ops)[i] = ops[c]
           /\ \A c \in cs : \E i \in DOMAIN Each(cs, ops) : Each(cs, ops)[i] = ops[c]
  <1> DEFINE A == ops["api"]
             W == ops["web"]
  <1>1. A \in Ops /\ W \in Ops
    BY DEF Components
  <1>2. CASE cs = {}
    <2>1. Each(cs, ops) = <<>>
      BY <1>2 DEF Each
    <2> QED
      BY <2>1, <1>2
  <1>3. CASE cs = {"api"}
    <2>1. Each(cs, ops) = <<A>>
      BY <1>3, <1>1 DEF Each
    <2> QED
      BY <2>1, <1>3, <1>1
  <1>4. CASE cs = {"web"}
    <2>1. Each(cs, ops) = <<W>>
      BY <1>4, <1>1 DEF Each
    <2> QED
      BY <2>1, <1>4, <1>1
  <1>5. CASE cs = {"api", "web"}
    <2>0. Each(cs, ops) = <<A>> \o <<W>>
      BY <1>5 DEF Each
    <2>1. <<A>> \in Seq(Ops) /\ <<W>> \in Seq(Ops) /\ Len(<<A>>) = 1 /\ Len(<<W>>) = 1
          /\ <<A>>[1] = A /\ <<W>>[1] = W
      BY <1>1
    <2>2. /\ Each(cs, ops) \in Seq(Ops)
          /\ Len(Each(cs, ops)) = 2 /\ Each(cs, ops)[1] = A /\ Each(cs, ops)[2] = W
      <3> HIDE DEF A, W
      <3> QED
        BY <2>0, <2>1, ConcatProperties
    <2>3. DOMAIN Each(cs, ops) = {1, 2}
      BY <2>2
    <2> QED
      BY <2>2, <2>3, <1>5
  <1> QED
    BY <1>2, <1>3, <1>4, <1>5 DEF Components

LEMMA EachGivenType ==
    ASSUME NEW ops \in [Components -> Ops]
    PROVE  /\ EachGiven(ops) \in Seq(Ops)
           /\ \A i \in DOMAIN EachGiven(ops) :
                 \E c \in Components : EachGiven(ops)[i] = ops[c] /\ Given(ops[c])
           /\ \A c \in Components : Given(ops[c]) =>
                 \E i \in DOMAIN EachGiven(ops) : EachGiven(ops)[i] = ops[c]
  <1> DEFINE cs == {c \in Components : Given(ops[c])}
  <1>1. cs \in SUBSET Components
    OBVIOUS
  <1>2. EachGiven(ops) = Each(cs, ops)
    BY DEF EachGiven
  <1>3. \A c \in Components : c \in cs <=> Given(ops[c])
    OBVIOUS
  <1> HIDE DEF cs
  <1> QED
    BY <1>1, <1>2, <1>3, EachType

\* What an actor that works through a list is doing.
LEMMA WorksType ==
    ASSUME NEW does \in Doings, NEW todo \in Seq(Ops), NEW then \in Places
    PROVE  /\ Works(does, todo, then) \in Doings
           /\ Works(does, todo, then).cmd = does.cmd
           /\ Works(does, todo, then).todo = todo
           /\ Works(does, todo, then).then = then
           /\ Works(does, todo, then).copy = does.copy
           /\ Works(does, todo, then).at = IF todo = <<>> THEN then ELSE "take"
           /\ Works(does, todo, then).targets = does.targets
           /\ Works(does, todo, then).asked = does.asked
           /\ Works(does, todo, then).ok = does.ok
           /\ Works(does, todo, then).new = does.new
  BY DEF Works, Doings, Places

LEMMA WorksPlaced ==
    ASSUME NEW a \in Actors, NEW does \in Doings, NEW todo \in Seq(Ops),
           does.cmd \in CmdsOf(a), does.cmd # "none", does.copy = <<>>,
           NEW then, then = ThenOf(does.cmd)
    PROVE  /\ Placed(a, Works(does, todo, then))
           /\ Works(does, todo, then) \in Doings
  <1>1. then \in Places /\ then \in PlacesOf(does.cmd) /\ then \notin {"take", "put", "write"}
        /\ "take" \in PlacesOf(does.cmd)
    BY DEF ThenOf, PlacesOf, Places, CmdsOf, OfOperators
  <1> QED
    BY <1>1, WorksType DEF Placed

ApiCmds == {"save", "request", "bounce", "timer", "startup"}

\* One actor moves.
LEMMA MoveTyped ==
    ASSUME Typed, NEW a \in Actors, NEW does \in Doings, Placed(a, does),
           act' = [act EXCEPT ![a] = does], UNCHANGED <<phase, snap>>,
           a # Startup /\ does.cmd \in ApiCmds => Up("api"),
           a = Startup /\ does # Idle => phase["api"] = "loaded"
    PROVE  act' \in [Actors -> Doings] /\ InPlace'
  <1>1. act' \in [Actors -> Doings]
    BY DEF Typed, TypeOK
  <1>2. \A b \in Actors : act'[b] = IF b = a THEN does ELSE act[b]
    BY DEF Typed, TypeOK
  <1>3. \A b \in Actors : Placed(b, act'[b])
    BY <1>2 DEF Typed, InPlace
  <1>4. \A b \in Actors : b # Startup /\ InApi(b)' => Up("api")'
    BY <1>2 DEF Typed, InPlace, InApi, Up, ApiCmds
  <1>5. act'[Startup] # Idle => phase'["api"] = "loaded"
    BY <1>2, Constants DEF Typed, InPlace
  <1>6. Up("api")' => snap' = {}
    BY DEF Typed, InPlace, Up
  <1> QED
    BY <1>1, <1>3, <1>4, <1>5, <1>6 DEF InPlace

\* Only other processes go on when the API dies.
LEMMA DiesTyped ==
    ASSUME Typed, NEW caller \in Actors, NEW does, ApiDies(caller, does),
           ~InApi(caller) => /\ does \in Doings /\ Placed(caller, does)
                             /\ does.cmd \notin ApiCmds
                             /\ caller = Startup => does = Idle
    PROVE  /\ act' \in [Actors -> Doings] /\ InPlace'
           /\ phase' = [phase EXCEPT !["api"] = "down"] /\ snap' = {} /\ loaded' = loaded
           /\ phase' \in [Components -> {"up", "starting", "down", "snapshotted", "loaded"}]
           /\ phase'["web"] = phase["web"] /\ phase'["api"] = "down"
           /\ \A a \in Actors : act'[a] = IF InApi(a) THEN Idle ELSE IF a = caller THEN does ELSE act[a]
  <1>1. \A a \in Actors : act'[a] = IF InApi(a) THEN Idle ELSE IF a = caller THEN does ELSE act[a]
    BY DEF ApiDies
  <1>2. act' \in [Actors -> Doings]
    BY IdleIsFine DEF ApiDies, Typed, TypeOK
  <1>3. \A a \in Actors : Placed(a, act'[a])
    BY <1>1, IdleIsFine DEF Typed, InPlace
  <1>4. \A a \in Actors : a # Startup => ~InApi(a)'
    BY <1>1, IdleIsFine DEF InApi, ApiCmds
  <1>5. act'[Startup] = Idle
    <2>1. act[Startup].cmd \in {"none", "startup"} /\ (act[Startup].cmd = "none" => act[Startup] = Idle)
      BY Constants DEF Typed, InPlace, Placed, CmdsOf
    <2> QED
      BY <2>1, <1>1, Constants DEF InApi
  <1>6. /\ phase' = [phase EXCEPT !["api"] = "down"] /\ snap' = {} /\ loaded' = loaded
        /\ phase' \in [Components -> {"up", "starting", "down", "snapshotted", "loaded"}]
        /\ phase'["web"] = phase["web"] /\ phase'["api"] = "down"
    BY DEF ApiDies, Typed, TypeOK, Components
  <1> QED
    BY <1>1, <1>2, <1>3, <1>4, <1>5, <1>6 DEF InPlace, Up

\* An operator begins a command.
LEMMA BeginsTyped ==
    ASSUME Typed, NEW a \in Operators, NEW does \in Doings, Placed(a, does),
           does.cmd \in ApiCmds => Up("api"), Begins(a, does)
    PROVE  Typed'
  <1>1. act' \in [Actors -> Doings] /\ InPlace'
    BY MoveTyped, Constants DEF Begins, services
  <1> QED
    BY <1>1 DEF Typed, TypeOK, Begins, services, file

LEMMA FaultType == \A kind : Typed /\ Fault(kind) => faults' \in Nat /\ faults' = faults + 1
  BY DEF Fault, Typed, TypeOK

LEMMA SaveLoadsTyped ==
    ASSUME Typed, NEW a \in Operators, NEW new \in Options,
           SaveLoads(a, new) \/ SecretLoads(a, new)
    PROVE  Typed'
  <1>1. PICK cmd \in {"save", "secret"} :
           /\ Begins(a, [Idle EXCEPT !.cmd = cmd, !.at = "merge", !.read = config, !.new = new])
           /\ cmd = "save" => Up("api")
    BY DEF SaveLoads, SecretLoads
  <1> DEFINE does == [Idle EXCEPT !.cmd = cmd, !.at = "merge", !.read = config, !.new = new]
  <1>2. does \in Doings
    <2>1. new \in Entries /\ config \in [Keys -> Texts \union {Absent, Nothing}]
      BY Constants DEF Typed, TypeOK, Files
    <2> QED
      BY <2>1, IdleIsFine DEF Doings, OfOperators, Places
  <1>3. Placed(a, does)
    BY Constants DEF Placed, Idle, CmdsOf, PlacesOf, OfOperators
  <1>4. does.cmd \in ApiCmds => Up("api")
    BY <1>1 DEF Idle, ApiCmds
  <1> QED
    BY <1>1, <1>2, <1>3, <1>4, BeginsTyped

LEMMA RequestLooksTyped ==
    ASSUME Typed, NEW a \in Operators, NEW targets \in TargetSets, RequestLooks(a, targets)
    PROVE  Typed'
  <1> DEFINE started == Each(targets, [c \in Components |-> Record(c, "running")])
             looks == [Idle EXCEPT !.cmd = "request", !.targets = targets]
  <1>1. targets \in SUBSET Components
    BY DEF TargetSets, Components
  <1>2. started \in Seq(Ops)
    <2>1. [c \in Components |-> Record(c, "running")] \in [Components -> Ops]
      BY OpTypes, Constants DEF Statuses
    <2> QED
      BY <1>1, <2>1, EachType
  <1>3. looks \in Doings /\ looks.cmd = "request" /\ looks.copy = <<>>
    BY <1>1, IdleIsFine DEF Doings, OfOperators, Idle
  <1>4. "request" \in CmdsOf(a) /\ ThenOf("request") = "schedule"
    BY Constants DEF CmdsOf, OfOperators, ThenOf
  <1>5. Placed(a, Works(looks, started, "schedule")) /\ Works(looks, started, "schedule") \in Doings
    BY <1>2, <1>3, <1>4, WorksPlaced, Constants
  <1>6. Up("api") /\ Begins(a, Works(looks, started, "schedule"))
    BY DEF RequestLooks
  <1> HIDE DEF looks, started
  <1> QED
    BY <1>5, <1>6, BeginsTyped

LEMMA OpsStartsTyped ==
    ASSUME Typed, NEW a \in Operators, NEW targets \in TargetSets,
           NEW cmd \in {"ops", "bounce"}, OpsStarts(a, cmd, targets)
    PROVE  Typed'
  <1> DEFINE does == [Idle EXCEPT !.cmd = cmd, !.at = "bounce", !.targets = targets]
  <1>1. does \in Doings
    BY IdleIsFine DEF Doings, OfOperators, Places, TargetSets, Components
  <1>2. Placed(a, does)
    BY Constants DEF Placed, Idle, CmdsOf, PlacesOf, OfOperators
  <1>3. does.cmd \in ApiCmds => Up("api")
    BY DEF Idle, ApiCmds, OpsStarts
  <1> QED
    BY <1>1, <1>2, <1>3, BeginsTyped DEF OpsStarts

\* The first operation of a list, and what is left.
LEMMA ListHeadTail ==
    ASSUME NEW todo \in Seq(Ops), todo # <<>>
    PROVE  /\ Head(todo) \in Ops /\ Tail(todo) \in Seq(Ops)
           /\ 1 \in DOMAIN todo /\ Head(todo) = todo[1]
           /\ \A i \in DOMAIN Tail(todo) : i + 1 \in DOMAIN todo /\ Tail(todo)[i] = todo[i + 1]
           /\ \A i \in DOMAIN todo : i # 1 => i - 1 \in DOMAIN Tail(todo) /\ Tail(todo)[i - 1] = todo[i]
           /\ DOMAIN todo \subseteq Nat
  OBVIOUS

LEMMA TextsAfterType ==
    ASSUME NEW op \in Ops, NEW texts \in Entries, NEW attempts \in [Components -> Statuses]
    PROVE  /\ TextsAfter(op, texts) \in Entries
           /\ AttemptsAfter(op, texts, attempts) \in [Components -> Statuses]
  <1>1. TextsAfter(op, texts) \in Entries
    BY DEF TextsAfter, Ops, Entries, Marked, Reconciled, Cleared
  <1>2. \A t : Trim(t, attempts) \in [Components -> Statuses]
    BY DEF Trim, Statuses
  <1>3. op.on \in Components /\ op.status \in Statuses /\ "none" \in Statuses
    BY DEF Ops, Statuses
  <1> QED
    BY <1>1, <1>2, <1>3 DEF AttemptsAfter

\* What is known of an actor that is doing something.
LEMMA DoesType ==
    ASSUME Typed, NEW a \in Actors
    PROVE  act[a] \in Doings /\ Placed(a, act[a])
  BY DEF Typed, TypeOK, InPlace

LEMMA TakeTyped ==
    ASSUME Typed, NEW a \in Actors, Take(a)
    PROVE  Typed'
  <1>1. PICK readable \in BOOLEAN :
           /\ IF readable THEN UNCHANGED faults ELSE Fault("unread")
           /\ act' = [act EXCEPT ![a].at = "put", ![a].copy =
                         IF readable THEN <<previous, attempt>> ELSE <<NoTexts, NoAttempts>>]
    BY DEF Take
  <1> DEFINE copy == IF readable THEN <<previous, attempt>> ELSE <<NoTexts, NoAttempts>>
             does == [act[a] EXCEPT !.at = "put", !.copy = copy]
  <1>2. copy \in Entries \X [Components -> Statuses] /\ copy # <<>>
    BY Constants DEF Typed, TypeOK
  <1>3. act' = [act EXCEPT ![a] = does]
    BY <1>1
  <1> HIDE DEF copy
  <1>4. does \in Doings
    <2>1. act[a] \in Doings
      BY DoesType
    <2>2. copy \in {<<>>} \union (Entries \X [Components -> Statuses])
      BY <1>2
    <2> QED
      BY <2>1, <2>2 DEF Doings, Places
  <1>5. Placed(a, does)
    <2>1. act[a].at = "take" /\ act[a] \in Doings /\ Placed(a, act[a])
      BY DoesType DEF Take, At
    <2>2. /\ does.cmd = act[a].cmd /\ does.at = "put" /\ does.copy = copy
          /\ does.todo = act[a].todo /\ does.then = act[a].then
      BY <2>1 DEF Doings
    <2>3. act[a].cmd # "none" /\ "put" \in PlacesOf(act[a].cmd)
      BY <2>1 DEF Placed, PlacesOf, CmdsOf, OfOperators
    <2> HIDE DEF does
    <2> QED
      BY <2>1, <2>2, <2>3, <1>2 DEF Placed
  <1>6. does.cmd = act[a].cmd /\ act[a] # Idle
    BY DoesType, IdleIsFine DEF Doings, Take, At
  <1>7. act' \in [Actors -> Doings] /\ InPlace'
    <2> HIDE DEF does
    <2>1. UNCHANGED <<phase, snap>>
      BY DEF Take, services
    <2> QED
      BY <1>3, <1>4, <1>5, <1>6, <2>1, MoveTyped DEF Typed, InPlace, InApi, ApiCmds
  <1>8. faults' \in Nat
    BY <1>1, FaultType DEF Typed, TypeOK
  <1> QED
    BY <1>7, <1>8 DEF Typed, TypeOK, Take, services, file

LEMMA PutTyped ==
    ASSUME Typed, NEW a \in Actors, Put(a)
    PROVE  Typed'
  <1> DEFINE op == Head(act[a].todo)
             texts == act[a].copy[1]
             attempts == act[a].copy[2]
             rest == Tail(act[a].todo)
             does == [act[a] EXCEPT !.todo = rest, !.copy = <<>>,
                                    !.at = IF rest = <<>> THEN act[a].then ELSE "take"]
  <1>1. act[a].at = "put" /\ act[a] \in Doings /\ Placed(a, act[a]) /\ act[a].cmd # "none"
    BY DoesType, IdleIsFine DEF Put, At, Placed
  <1>2. act[a].todo \in Seq(Ops) /\ act[a].todo # <<>>
    BY <1>1 DEF Placed, Doings
  <1>3. act[a].copy \in Entries \X [Components -> Statuses]
    BY <1>1 DEF Placed, Doings
  <1>4. op \in Ops /\ rest \in Seq(Ops) /\ texts \in Entries /\ attempts \in [Components -> Statuses]
    BY <1>2, <1>3, ListHeadTail
  <1>5. act' = [act EXCEPT ![a] = does]
    BY IdleIsFine DEF Put
  <1>6. does \in Doings
    BY <1>1, <1>4 DEF Doings, Places
  <1>7. /\ does.cmd = act[a].cmd /\ does.todo = rest /\ does.copy = <<>>
        /\ does.at = (IF rest = <<>> THEN act[a].then ELSE "take") /\ does.then = act[a].then
    BY <1>1 DEF Doings
  <1>8. /\ act[a].then = ThenOf(act[a].cmd) /\ act[a].then \in PlacesOf(act[a].cmd)
        /\ act[a].then \notin {"take", "put", "write"} /\ "take" \in PlacesOf(act[a].cmd)
    BY <1>1 DEF Placed, ThenOf, PlacesOf, CmdsOf, OfOperators
  <1> HIDE DEF does
  <1>9. Placed(a, does)
    <2> HIDE DEF rest
    <2> QED
      BY <1>1, <1>7, <1>8 DEF Placed
  <1>10. act' \in [Actors -> Doings] /\ InPlace'
    <2>1. UNCHANGED <<phase, snap>> /\ act[a] # Idle
      BY <1>1, IdleIsFine DEF Put, services
    <2> QED
      BY <1>5, <1>6, <1>7, <1>9, <2>1, MoveTyped DEF Typed, InPlace, InApi, ApiCmds
  <1>11. previous' \in Entries /\ attempt' \in [Components -> Statuses] /\ faults' \in Nat
    <2> HIDE DEF op, texts, attempts
    <2>1. \/ previous' = TextsAfter(op, texts) /\ attempt' = AttemptsAfter(op, texts, attempts)
             /\ UNCHANGED faults
          \/ Fault("unwritten") /\ UNCHANGED file
          \/ UNCHANGED <<file, faults>>
      BY DEF Put, op, texts, attempts
    <2> QED
      BY <2>1, <1>4, TextsAfterType, FaultType DEF file, Typed, TypeOK
  <1>12. unannounced' \subseteq {"web"}
    BY DEF Put, Typed, TypeOK
  <1> QED
    BY <1>10, <1>11, <1>12 DEF Typed, TypeOK, Put, services

\* An actor is done.
LEMMA ReturnTyped ==
    ASSUME Typed, NEW a \in Actors, Return(a), UNCHANGED <<config, file, services, unannounced>>,
           faults' \in Nat
    PROVE  Typed'
  <1>1. act' \in [Actors -> Doings] /\ InPlace'
    BY MoveTyped, IdleIsFine DEF Return, services, ApiCmds
  <1> QED
    BY <1>1 DEF Typed, TypeOK, services, file

LEMMA SaveMergesTyped ==
    ASSUME Typed, NEW a \in Actors, SaveMerges(a)
    PROVE  Typed'
  <1> DEFINE does == [act[a] EXCEPT !.text = Written(config, act[a].new), !.at = "write"]
  <1>1. act[a] \in Doings /\ Placed(a, act[a]) /\ act[a].at = "merge"
    BY DoesType DEF SaveMerges, At
  <1>2. Written(config, act[a].new) \in Files
    BY <1>1 DEF Typed, TypeOK, Written, Files, Doings, Entries
  <1>3. Written(config, act[a].new) \in [Keys -> Texts \union {Absent, Nothing}]
    BY <1>2 DEF Files
  <1>4. does \in Doings
    BY <1>1, <1>3 DEF Doings, Places
  <1>5. act[a].cmd \in {"save", "secret"}
    BY <1>1 DEF Placed, CmdsOf, OfOperators, PlacesOf
  <1>6. /\ does.cmd = act[a].cmd /\ does.at = "write" /\ does.copy = act[a].copy
        /\ does.todo = act[a].todo /\ does.then = act[a].then
        /\ does.text = Written(config, act[a].new)
    BY <1>1 DEF Doings
  <1>7. act' = [act EXCEPT ![a] = does] /\ UNCHANGED <<phase, snap>>
    BY DEF SaveMerges, services
  <1> HIDE DEF does
  <1>8. Placed(a, does)
    BY <1>1, <1>2, <1>5, <1>6 DEF Placed, PlacesOf
  <1>9. act' \in [Actors -> Doings] /\ InPlace'
    <2>1. act[a] # Idle
      BY <1>1, IdleIsFine
    <2> QED
      BY <1>4, <1>6, <1>7, <1>8, <2>1, MoveTyped DEF Typed, InPlace, InApi, ApiCmds
  <1> QED
    BY <1>9 DEF Typed, TypeOK, SaveMerges, services, file

LEMMA DetailType ==
    ASSUME NEW read \in [Keys -> Texts \union {Absent, Nothing}], NEW new \in Entries,
           NEW always
    PROVE  Detail(read, new, always) \in Entries
  <1>1. ASSUME NEW k \in Keys
        PROVE  Shown(k, read[k]) \in Texts \union {Nothing}
    BY PendingAssumption DEF Shown
  <1> QED
    BY <1>1 DEF Detail, Entries

LEMMA OnlyType ==
    ASSUME NEW c \in Components, NEW texts \in Entries
    PROVE  Only(c, texts) \in Entries
  BY DEF Only, Entries

Marks(changes) == [c \in Components |-> Mark(c, Only(c, changes))]
Backs(new)     == [c \in Components |-> Reconcile(c, Only(c, new))]

LEMMA MarkFirstType ==
    ASSUME NEW new \in Entries, NEW changes \in Entries
    PROVE  /\ Marks(changes) \in [Components -> Ops]
           /\ Backs(new) \in [Components -> Ops]
           /\ MarkFirst(new, changes) = EachGiven(Marks(changes)) \o EachGiven(Backs(new))
           /\ MarkFirst(new, changes) \in Seq(Ops)
  <1>1. Marks(changes) \in [Components -> Ops] /\ Backs(new) \in [Components -> Ops]
    BY OnlyType, OpTypes, Constants DEF Marks, Backs, Statuses
  <1>2. MarkFirst(new, changes) = EachGiven(Marks(changes)) \o EachGiven(Backs(new))
    BY DEF MarkFirst, Marks, Backs
  <1> QED
    BY <1>1, <1>2, EachGivenType, ConcatProperties

LEMMA SaveWritesTyped ==
    ASSUME Typed, NEW a \in Actors, SaveWrites(a)
    PROVE  Typed'
  <1> DEFINE changes == Detail(act[a].read, act[a].new, Cmd(a, "secret"))
             does == Works(act[a], MarkFirst(act[a].new, changes), "idle")
  <1>1. act[a] \in Doings /\ Placed(a, act[a]) /\ act[a].at = "write"
    BY DoesType DEF SaveWrites, At
  <1>2. act[a].cmd \in {"save", "secret"} /\ act[a].copy = <<>> /\ act[a].text \in Files
        /\ act[a].cmd \in CmdsOf(a)
    BY <1>1 DEF Placed, CmdsOf, OfOperators, PlacesOf
  <1>3. changes \in Entries
    BY <1>1, DetailType DEF Doings
  <1>4. MarkFirst(act[a].new, changes) \in Seq(Ops)
    <2> HIDE DEF changes
    <2> QED
      BY <1>1, <1>3, MarkFirstType DEF Doings
  <1>5. Placed(a, does) /\ does \in Doings /\ does.cmd = act[a].cmd
    <2>1. "idle" = ThenOf(act[a].cmd) /\ "idle" \in Places
      BY <1>2 DEF ThenOf, Places
    <2> HIDE DEF changes
    <2> QED
      BY <1>1, <1>2, <1>4, <2>1, WorksPlaced, WorksType
  <1>6. act' = [act EXCEPT ![a] = does] /\ UNCHANGED <<phase, snap>> /\ config' = act[a].text
    BY DEF SaveWrites, services
  <1> HIDE DEF does
  <1>7. act' \in [Actors -> Doings] /\ InPlace'
    <2>1. act[a] # Idle
      BY <1>1, IdleIsFine
    <2> QED
      BY <1>5, <1>6, <2>1, MoveTyped DEF Typed, InPlace, InApi, ApiCmds
  <1> QED
    BY <1>2, <1>6, <1>7 DEF Typed, TypeOK, SaveWrites, services, file

\* What the timer is given to do.
LEMMA ScheduledType ==
    ASSUME NEW targets \in SUBSET Components
    PROVE  LET does == [Idle EXCEPT !.cmd = "timer", !.at = "restart", !.targets = targets]
           IN  /\ does \in Doings /\ Placed(Timer, does) /\ does.todo = <<>> /\ does.cmd = "timer"
               /\ does.at = "restart"
  <1>1. Timer # Startup
    BY Constants
  <1> QED
    BY <1>1, IdleIsFine DEF Doings, Places, Placed, CmdsOf, PlacesOf, Idle, OfOperators

LEMMA RequestSchedulesTyped ==
    ASSUME Typed, NEW a \in Actors, RequestSchedules(a)
    PROVE  Typed'
  <1> DEFINE does == [Idle EXCEPT !.cmd = "timer", !.at = "restart", !.targets = act[a].targets]
  <1>1. act[a] \in Doings /\ Placed(a, act[a]) /\ act[a].at = "schedule"
    BY DoesType DEF RequestSchedules, At
  <1>2. act[a].cmd = "request" /\ a \in Operators /\ a # Timer /\ a # Startup
    BY <1>1 DEF Placed, CmdsOf, PlacesOf, OfOperators, Actors
  <1>3. does \in Doings /\ Placed(Timer, does) /\ does.cmd = "timer"
    BY <1>1, ScheduledType DEF Doings
  <1>4. act' = [act EXCEPT ![a] = Idle, ![Timer] = does]
    BY DEF RequestSchedules
  <1> HIDE DEF does
  <1>5. /\ act' \in [Actors -> Doings]
        /\ \A b \in Actors : act'[b] = IF b = a THEN Idle ELSE IF b = Timer THEN does ELSE act[b]
    BY <1>2, <1>3, <1>4, IdleIsFine, Constants DEF Typed, TypeOK
  <1>6. Up("api")
    BY <1>2 DEF Typed, InPlace, InApi
  <1>7. InPlace'
    <2>1. phase' = phase /\ snap' = snap
      BY DEF RequestSchedules, services
    <2>2. \A b \in Actors : Placed(b, act'[b])
      BY <1>3, <1>5, IdleIsFine DEF Typed, InPlace
    <2>3. \A b \in Actors : b # Startup /\ InApi(b)' => Up("api")'
      BY <2>1, <1>6 DEF Up
    <2>4. act'[Startup] # Idle => phase'["api"] = "loaded"
      BY <2>1, <1>2, <1>5, Constants DEF Typed, InPlace
    <2> QED
      BY <2>1, <2>2, <2>3, <2>4 DEF Typed, InPlace, Up
  <1> QED
    BY <1>5, <1>7 DEF Typed, TypeOK, RequestSchedules, services, file

LEMMA ClearsType ==
    /\ [c \in Components |-> Clear(c, Of(c))] \in [Components -> Ops]
  BY OpTypes, Constants DEF Statuses

\* What an operator in the middle of a restart is doing.
LEMMA BouncerType ==
    ASSUME Typed, NEW a \in Actors, act[a].at = "bounce"
    PROVE  /\ act[a] \in Doings /\ a \in Operators /\ a # Timer /\ a # Startup
           /\ act[a].cmd \in {"ops", "bounce"} /\ act[a].cmd \in CmdsOf(a)
           /\ act[a].todo = <<>> /\ act[a].copy = <<>> /\ act[a] # Idle
           /\ act[a].asked \in SUBSET Components /\ act[a].targets \in SUBSET Components
  <1>1. act[a] \in Doings /\ Placed(a, act[a])
    BY DoesType
  <1> QED
    BY <1>1, IdleIsFine DEF Placed, CmdsOf, PlacesOf, OfOperators, Actors, Doings

LEMMA OpsEndsTyped ==
    ASSUME Typed, NEW a \in Actors, OpsEnds(a)
    PROVE  Typed'
  <1> DEFINE clears == [c \in Components |-> Clear(c, Of(c))]
             does == IF act[a].ok THEN Works(act[a], Each(act[a].asked, clears), "idle") ELSE Idle
  <1>1. act[a].at = "bounce"
    BY DEF OpsEnds, At
  <1>2. Each(act[a].asked, clears) \in Seq(Ops)
    BY <1>1, BouncerType, ClearsType, EachType
  <1>3. "idle" = ThenOf(act[a].cmd)
    BY <1>1, BouncerType DEF ThenOf
  <1>4. act' = [act EXCEPT ![a] = does] /\ UNCHANGED <<phase, snap>>
    BY DEF OpsEnds, services
  <1>5. does \in Doings /\ Placed(a, does) /\ (does.cmd = act[a].cmd \/ does.cmd = "none")
    <2> HIDE DEF clears
    <2>0. /\ act[a] \in Doings /\ act[a].cmd \in CmdsOf(a) /\ act[a].cmd # "none"
          /\ act[a].copy = <<>> /\ "idle" \in Places
      BY <1>1, BouncerType DEF Places
    <2>1. /\ Works(act[a], Each(act[a].asked, clears), "idle") \in Doings
          /\ Placed(a, Works(act[a], Each(act[a].asked, clears), "idle"))
          /\ Works(act[a], Each(act[a].asked, clears), "idle").cmd = act[a].cmd
      BY <1>2, <1>3, <2>0, WorksPlaced, WorksType
    <2> QED
      BY <2>1, IdleIsFine
  <1> HIDE DEF does
  <1>6. act' \in [Actors -> Doings] /\ InPlace'
    BY <1>1, <1>4, <1>5, BouncerType, MoveTyped DEF Typed, InPlace, InApi, ApiCmds
  <1> QED
    BY <1>6 DEF Typed, TypeOK, OpsEnds, services, file

\* The web process is replaced.
LEMMA WebRestartsTyped ==
    ASSUME Typed, NEW a \in Actors, NEW does \in Doings, Placed(a, does), a # Startup,
           does.cmd \in ApiCmds => Up("api"), WebRestarts(a, does)
    PROVE  /\ act' \in [Actors -> Doings] /\ InPlace'
           /\ phase' \in [Components -> {"up", "starting", "down", "snapshotted", "loaded"}]
           /\ phase'["web"] = "starting" /\ phase'["api"] = phase["api"]
           /\ loaded' = loaded /\ snap' = snap
           /\ \A b \in Actors : act'[b] = IF b = a THEN does ELSE act[b]
  <1>1. /\ phase' \in [Components -> {"up", "starting", "down", "snapshotted", "loaded"}]
        /\ phase'["web"] = "starting" /\ phase'["api"] = phase["api"]
    BY DEF WebRestarts, Typed, TypeOK, Components
  <1>2. /\ act' \in [Actors -> Doings]
        /\ \A b \in Actors : act'[b] = IF b = a THEN does ELSE act[b]
        /\ loaded' = loaded /\ snap' = snap
    BY DEF WebRestarts, Typed, TypeOK
  <1>3. \A b \in Actors : Placed(b, act'[b])
    BY <1>2 DEF Typed, InPlace
  <1>4. \A b \in Actors : b # Startup /\ InApi(b)' => Up("api")'
    BY <1>1, <1>2 DEF Typed, InPlace, InApi, Up, ApiCmds
  <1>5. act'[Startup] # Idle => phase'["api"] = "loaded"
    BY <1>1, <1>2, Constants DEF Typed, InPlace
  <1>6. Up("api")' => snap' = {}
    BY <1>1, <1>2 DEF Typed, InPlace, Up
  <1> QED
    BY <1>1, <1>2, <1>3, <1>4, <1>5, <1>6 DEF InPlace

LEMMA OpsRestartsTyped ==
    ASSUME Typed, NEW a \in Actors, NEW outcome \in Outcomes, OpsRestarts(a, outcome)
    PROVE  Typed'
  <1> DEFINE c == OpsTarget(act[a].targets)
             next == [act[a] EXCEPT !.targets = @ \ {c}, !.asked = @ \union {c},
                                    !.ok = @ /\ outcome = "restarted"]
  <1>1. act[a].at = "bounce"
    BY DEF OpsRestarts, At
  <1>2. c \in Components
    BY DEF OpsTarget, Components
  <1>3. /\ next \in Doings
        /\ next.cmd = act[a].cmd /\ next.at = "bounce" /\ next.todo = <<>> /\ next.copy = <<>>
    BY <1>1, <1>2, BouncerType DEF Doings
  <1> HIDE DEF next
  <1>4. Placed(a, next)
    BY <1>1, <1>3, BouncerType DEF Placed, PlacesOf
  <1>5. \/ act' = [act EXCEPT ![a] = next] /\ UNCHANGED <<services, unannounced>>
        \/ WebRestarts(a, next) /\ unannounced' \subseteq {"web"}
        \/ ApiDies(a, next) /\ UNCHANGED unannounced
    <2>1. \/ act' = [act EXCEPT ![a] = next] /\ UNCHANGED <<services, unannounced>>
          \/ WebRestarts(a, next) /\ unannounced' = unannounced \union {c} /\ c = "web"
          \/ ApiDies(a, next) /\ UNCHANGED unannounced
      BY DEF OpsRestarts, next
    <2> QED
      BY <2>1 DEF Typed, TypeOK
  <1>6. UNCHANGED <<config, previous, attempt, faults>>
    BY DEF OpsRestarts, file
  <1>7. act[a].cmd \in ApiCmds => Up("api")
    BY <1>1, BouncerType DEF Typed, InPlace, InApi, ApiCmds
  <1>8. CASE act' = [act EXCEPT ![a] = next] /\ UNCHANGED <<services, unannounced>>
    <2>1. act' \in [Actors -> Doings] /\ InPlace'
      BY <1>1, <1>3, <1>4, <1>7, <1>8, BouncerType, MoveTyped DEF services
    <2> QED
      BY <2>1, <1>6, <1>8 DEF Typed, TypeOK, services
  <1>9. CASE WebRestarts(a, next) /\ unannounced' \subseteq {"web"}
    <2>1. a # Startup /\ (next.cmd \in ApiCmds => Up("api"))
      BY <1>1, <1>3, <1>7, BouncerType
    <2>2. /\ act' \in [Actors -> Doings] /\ InPlace'
          /\ phase' \in [Components -> {"up", "starting", "down", "snapshotted", "loaded"}]
          /\ phase'["web"] = "starting" /\ phase'["api"] = phase["api"]
          /\ loaded' = loaded /\ snap' = snap
      BY <1>3, <1>4, <1>9, <2>1, WebRestartsTyped
    <2> QED
      BY <2>2, <1>6, <1>9 DEF Typed, TypeOK
  <1>10. CASE ApiDies(a, next) /\ UNCHANGED unannounced
    <2>1. ~InApi(a) => next.cmd \notin ApiCmds /\ a # Startup
      BY <1>1, <1>3, BouncerType DEF InApi, ApiCmds
    <2>2. /\ act' \in [Actors -> Doings] /\ InPlace'
          /\ phase' \in [Components -> {"up", "starting", "down", "snapshotted", "loaded"}]
          /\ phase'["web"] = phase["web"] /\ phase'["api"] = "down"
          /\ loaded' = loaded /\ snap' = {}
      BY <1>3, <1>4, <1>10, <2>1, DiesTyped
    <2> QED
      BY <2>2, <1>6, <1>10 DEF Typed, TypeOK
  <1> QED
    BY <1>5, <1>8, <1>9, <1>10

\* What the timer is doing between two restarts.
LEMMA TimerType ==
    ASSUME Typed, act[Timer].at = "restart"
    PROVE  /\ act[Timer] \in Doings /\ act[Timer].cmd = "timer"
           /\ act[Timer].todo = <<>> /\ act[Timer].copy = <<>> /\ act[Timer] # Idle
           /\ act[Timer].targets \in SUBSET Components /\ Up("api") /\ act[Startup] = Idle
  <1>1. act[Timer] \in Doings /\ Placed(Timer, act[Timer])
    BY DoesType, Constants
  <1>2. act[Timer].cmd = "timer" /\ act[Timer].todo = <<>> /\ act[Timer].copy = <<>>
    BY <1>1 DEF Placed, CmdsOf, PlacesOf
  <1>3. Up("api")
    BY <1>2, Constants DEF Typed, InPlace, InApi
  <1> QED
    BY <1>1, <1>2, <1>3, IdleIsFine DEF Typed, InPlace, Up, Doings

LEMMA ReportedType ==
    ASSUME NEW c \in Components, NEW outcome \in Outcomes
    PROVE  /\ Reported(c, outcome) \in Seq(Ops) /\ Reported(c, outcome) # <<>>
           /\ \A i \in DOMAIN Reported(c, outcome) :
                 \/ Reported(c, outcome)[i].do = "record"
                 \/ Reported(c, outcome)[i] = Clear(c, Of(c)) /\ outcome = "restarted"
           /\ outcome = "restarted" =>
                 \E i \in DOMAIN Reported(c, outcome) : Reported(c, outcome)[i] = Clear(c, Of(c))
  <1>1. Record(c, "succeeded") \in Ops /\ Record(c, "failed") \in Ops /\ Clear(c, Of(c)) \in Ops
    BY OpTypes, Constants DEF Statuses
  <1>2. Record(c, "succeeded").do = "record" /\ Record(c, "failed").do = "record"
    BY DEF Record
  <1> DEFINE R == Record(c, "succeeded")
             F == Record(c, "failed")
             C == Clear(c, Of(c))
  <1>3. CASE outcome = "restarted"
    <2>1. Reported(c, outcome) = <<R, C>>
      BY <1>3 DEF Reported
    <2>2. R.do = "record" /\ R \in Ops /\ C \in Ops
      BY <1>1, <1>2
    <2> HIDE DEF R, C
    <2>3. <<R, C>> \in Seq(Ops) /\ <<R, C>> # <<>> /\ DOMAIN <<R, C>> = {1, 2}
          /\ <<R, C>>[1] = R /\ <<R, C>>[2] = C
      BY <2>2
    <2>4. \A i \in {1, 2} : <<R, C>>[i].do = "record" \/ <<R, C>>[i] = C
      BY <2>2, <2>3
    <2> QED
      BY <2>1, <2>3, <2>4, <1>3 DEF C
  <1>4. CASE outcome # "restarted"
    <2>1. Reported(c, outcome) = <<F>>
      BY <1>4 DEF Reported
    <2>2. F.do = "record" /\ F \in Ops
      BY <1>1, <1>2
    <2> HIDE DEF F
    <2>3. <<F>> \in Seq(Ops) /\ <<F>> # <<>> /\ \A i \in DOMAIN <<F>> : <<F>>[i] = F
      BY <2>2
    <2> QED
      BY <2>1, <2>2, <2>3, <1>4
  <1> QED
    BY <1>3, <1>4

LEMMA TimerRestartsTyped ==
    ASSUME Typed, NEW outcome \in Outcomes, TimerRestarts(outcome)
    PROVE  Typed'
  <1> DEFINE c == Target(act[Timer].targets)
             rest == [act[Timer] EXCEPT !.targets = @ \ {c}]
             next == Works(rest, Reported(c, outcome), "restart")
  <1>1. act[Timer].at = "restart"
    BY DEF TimerRestarts, At
  <1>2. c \in Components
    BY DEF Target, Components
  <1>3. rest \in Doings /\ rest.cmd = "timer" /\ rest.copy = <<>>
    BY <1>1, TimerType DEF Doings
  <1>4. Reported(c, outcome) \in Seq(Ops)
    BY <1>2, ReportedType
  <1>5. next \in Doings /\ Placed(Timer, next) /\ next.cmd = "timer"
    <2>1. "timer" \in CmdsOf(Timer) /\ ThenOf("timer") = "restart" /\ "restart" \in Places
      BY DEF CmdsOf, ThenOf, Places
    <2> HIDE DEF rest
    <2> QED
      BY <1>3, <1>4, <2>1, WorksPlaced, WorksType, Constants
  <1> HIDE DEF next
  <1>6. \/ act' = [act EXCEPT ![Timer] = next] /\ UNCHANGED <<services, unannounced>>
        \/ WebRestarts(Timer, next) /\ unannounced' \subseteq {"web"}
        \/ ApiDies(Timer, Idle) /\ UNCHANGED unannounced
    <2>1. \/ act' = [act EXCEPT ![Timer] = next] /\ UNCHANGED <<services, unannounced>>
          \/ /\ WebRestarts(Timer, next) /\ c = "web"
             /\ unannounced' = IF outcome = "restarted" THEN unannounced ELSE unannounced \union {c}
          \/ ApiDies(Timer, Idle) /\ UNCHANGED unannounced
      BY DEF TimerRestarts, next
    <2> QED
      BY <2>1 DEF Typed, TypeOK
  <1>7. UNCHANGED <<config, previous, attempt, faults>>
    BY DEF TimerRestarts, file
  <1>8. CASE act' = [act EXCEPT ![Timer] = next] /\ UNCHANGED <<services, unannounced>>
    <2>1. act' \in [Actors -> Doings] /\ InPlace'
      BY <1>1, <1>5, <1>8, TimerType, MoveTyped, Constants DEF services
    <2> QED
      BY <2>1, <1>7, <1>8 DEF Typed, TypeOK, services
  <1>9. CASE WebRestarts(Timer, next) /\ unannounced' \subseteq {"web"}
    <2>2. /\ act' \in [Actors -> Doings] /\ InPlace'
          /\ phase' \in [Components -> {"up", "starting", "down", "snapshotted", "loaded"}]
          /\ phase'["web"] = "starting" /\ phase'["api"] = phase["api"]
          /\ loaded' = loaded /\ snap' = snap
      BY <1>1, <1>5, <1>9, TimerType, WebRestartsTyped, Constants
    <2> QED
      BY <2>2, <1>7, <1>9 DEF Typed, TypeOK
  <1>10. CASE ApiDies(Timer, Idle) /\ UNCHANGED unannounced
    <2>1. InApi(Timer)
      BY <1>1, TimerType DEF InApi
    <2>2. /\ act' \in [Actors -> Doings] /\ InPlace'
          /\ phase' \in [Components -> {"up", "starting", "down", "snapshotted", "loaded"}]
          /\ phase'["web"] = phase["web"] /\ phase'["api"] = "down"
          /\ loaded' = loaded /\ snap' = {}
      BY <1>10, <2>1, DiesTyped, Constants
    <2> QED
      BY <2>2, <1>7, <1>10 DEF Typed, TypeOK
  <1> QED
    BY <1>6, <1>8, <1>9, <1>10

LEMMA StartsTyped ==
    ASSUME Typed, WebLoads \/ ApiSnapshots \/ ApiLoads \/ ApiRefuses \/ ApiClears \/ ApiServes
    PROVE  Typed'
  <1>1. CASE WebLoads
    <2>1. loaded' \in Files
      BY <1>1 DEF WebLoads, Typed, TypeOK, Files
    <2>2. /\ phase' \in [Components -> {"up", "starting", "down", "snapshotted", "loaded"}]
          /\ phase'["web"] = "up" /\ phase'["api"] = phase["api"]
      BY <1>1 DEF WebLoads, Typed, TypeOK, Components
    <2>3. InPlace'
      BY <1>1, <2>2 DEF WebLoads, Typed, InPlace, InApi, Up
    <2> QED
      BY <1>1, <2>1, <2>2, <2>3 DEF WebLoads, Typed, TypeOK, file
  <1>2. CASE ApiSnapshots
    <2>1. snap' \subseteq Of("api") /\ faults' \in Nat
      BY <1>2, FaultType DEF ApiSnapshots, Awaiting, Typed, TypeOK
    <2>2. /\ phase' \in [Components -> {"up", "starting", "down", "snapshotted", "loaded"}]
          /\ phase'["api"] = "snapshotted" /\ phase'["web"] = phase["web"]
      BY <1>2 DEF ApiSnapshots, Typed, TypeOK, Components
    <2>3. InPlace'
      BY <1>2, <2>2 DEF ApiSnapshots, Typed, InPlace, InApi, Up
    <2> QED
      BY <1>2, <2>1, <2>2, <2>3 DEF ApiSnapshots, Typed, TypeOK, file
  <1>3. CASE ApiLoads
    <2>1. loaded' \in Files
      BY <1>3 DEF ApiLoads, Typed, TypeOK, Files
    <2>2. /\ phase' \in [Components -> {"up", "starting", "down", "snapshotted", "loaded"}]
          /\ phase'["api"] = "loaded" /\ phase'["web"] = phase["web"]
      BY <1>3 DEF ApiLoads, Typed, TypeOK, Components
    <2>3. InPlace'
      BY <1>3, <2>2 DEF ApiLoads, Typed, InPlace, InApi, Up
    <2> QED
      BY <1>3, <2>1, <2>2, <2>3 DEF ApiLoads, Typed, TypeOK, file
  <1>4. CASE ApiRefuses
    <2>1. ~InApi(Startup)
      BY <1>4, IdleIsFine DEF ApiRefuses, InApi
    <2>2. /\ act' \in [Actors -> Doings] /\ InPlace'
          /\ phase' \in [Components -> {"up", "starting", "down", "snapshotted", "loaded"}]
          /\ phase'["web"] = phase["web"] /\ phase'["api"] = "down"
          /\ loaded' = loaded /\ snap' = {}
      BY <1>4, IdleIsFine, DiesTyped, Constants DEF ApiRefuses, ApiCmds
    <2> QED
      BY <1>4, <2>2, FaultType DEF ApiRefuses, Typed, TypeOK, file
  <1>5. CASE ApiClears
    <2> DEFINE starts == [Idle EXCEPT !.cmd = "startup"]
               does == Works(starts, <<Clear("api", snap)>>, "serve")
    <2>1. starts \in Doings /\ starts.cmd = "startup" /\ starts.copy = <<>>
      BY IdleIsFine DEF Doings, Idle
    <2>2. Clear("api", snap) \in Ops
      BY OpTypes DEF Typed, TypeOK, Of, Components, NoTexts, Clear, Ops, Entries, Statuses
    <2>3. <<Clear("api", snap)>> \in Seq(Ops)
      BY <2>2
    <2>4. does \in Doings /\ Placed(Startup, does)
      <3>1. "startup" \in CmdsOf(Startup) /\ ThenOf("startup") = "serve"
        BY Constants DEF CmdsOf, ThenOf
      <3> HIDE DEF starts
      <3> QED
        BY <2>1, <2>3, <3>1, WorksPlaced, Constants
    <2>5. act' = [act EXCEPT ![Startup] = does] /\ UNCHANGED <<phase, snap>> /\ phase["api"] = "loaded"
      BY <1>5 DEF ApiClears, services
    <2> HIDE DEF does
    <2>6. act' \in [Actors -> Doings] /\ InPlace'
      BY <2>4, <2>5, MoveTyped, Constants
    <2> QED
      BY <1>5, <2>6 DEF ApiClears, Typed, TypeOK, file, services
  <1>6. CASE ApiServes
    <2>1. /\ phase' \in [Components -> {"up", "starting", "down", "snapshotted", "loaded"}]
          /\ phase'["api"] = "up" /\ phase'["web"] = phase["web"]
      BY <1>6 DEF ApiServes, Typed, TypeOK, Components
    <2>2. /\ act' \in [Actors -> Doings]
          /\ \A b \in Actors : act'[b] = IF b = Startup THEN Idle ELSE act[b]
      BY <1>6, IdleIsFine DEF ApiServes, Return, Typed, TypeOK
    <2>3. InPlace'
      BY <1>6, <2>1, <2>2, IdleIsFine, Constants DEF ApiServes, Typed, InPlace, InApi, Up
    <2> QED
      BY <1>6, <2>1, <2>2, <2>3 DEF ApiServes, Typed, TypeOK, file
  <1> QED
    BY <1>1, <1>2, <1>3, <1>4, <1>5, <1>6

LEMMA DisturbTyped ==
    ASSUME Typed, Disturb
    PROVE  Typed'
  <1>1. CASE WebReplaced
    <2>1. /\ phase' \in [Components -> {"up", "starting", "down", "snapshotted", "loaded"}]
          /\ phase'["web"] = "starting" /\ phase'["api"] = phase["api"]
      BY <1>1 DEF WebReplaced, Typed, TypeOK, Components
    <2>2. InPlace'
      BY <1>1, <2>1 DEF WebReplaced, Typed, InPlace, InApi, Up
    <2> QED
      BY <1>1, <2>1, <2>2 DEF WebReplaced, Typed, TypeOK, file
  <1>2. CASE ApiReplaced
    <2>1. act[Startup] = Idle /\ ~InApi(Startup)
      BY <1>2, IdleIsFine DEF ApiReplaced, Up, Typed, InPlace, InApi
    <2>2. faults' \in Nat
      BY <1>2, FaultType DEF ApiReplaced, Typed, TypeOK
    <2>3. /\ act' \in [Actors -> Doings] /\ InPlace'
          /\ phase' \in [Components -> {"up", "starting", "down", "snapshotted", "loaded"}]
          /\ phase'["web"] = phase["web"] /\ phase'["api"] = "down"
          /\ loaded' = loaded /\ snap' = {}
      BY <1>2, IdleIsFine, DiesTyped, Constants DEF ApiReplaced, ApiCmds
    <2> QED
      BY <1>2, <2>2, <2>3 DEF ApiReplaced, Typed, TypeOK, file
  <1>3. CASE \E a \in Operators : CliDies(a)
    BY <1>3, ReturnTyped, FaultType, Constants DEF CliDies
  <1> QED
    BY <1>1, <1>2, <1>3 DEF Disturb

LEMMA NextTyped ==
    ASSUME Typed, [Next]_vars
    PROVE  Typed'
  <1>1. CASE \E a \in Operators : Begin(a)
    BY <1>1, SaveLoadsTyped, RequestLooksTyped, OpsStartsTyped DEF Begin
  <1>2. CASE \E a \in Actors : Proceed(a)
    <2>1. PICK a \in Actors : Proceed(a)
      BY <1>2
    <2>2. CASE Take(a) \/ Put(a)
      BY <2>2, TakeTyped, PutTyped
    <2>3. CASE Returns(a) \/ SaveRefused(a)
      BY <2>3, ReturnTyped DEF Returns, SaveRefused, Typed, TypeOK
    <2>4. CASE SaveMerges(a) \/ SaveWrites(a)
      BY <2>4, SaveMergesTyped, SaveWritesTyped
    <2>5. CASE RequestSchedules(a) \/ OpsEnds(a) \/ \E outcome \in Outcomes : OpsRestarts(a, outcome)
      BY <2>5, RequestSchedulesTyped, OpsEndsTyped, OpsRestartsTyped
    <2> QED
      BY <2>1, <2>2, <2>3, <2>4, <2>5 DEF Proceed
  <1>3. CASE Timers
    BY <1>3, ReturnTyped, TimerRestartsTyped, Constants DEF Timers, TimerReturns, Typed, TypeOK
  <1>4. CASE Starts
    BY <1>4, StartsTyped DEF Starts
  <1>5. CASE Disturb
    BY <1>5, DisturbTyped
  <1>6. CASE UNCHANGED vars
    BY <1>6 DEF vars, file, services, Typed, TypeOK, InPlace, InApi, Up
  <1> QED
    BY <1>1, <1>2, <1>3, <1>4, <1>5, <1>6 DEF Next

LEMMA InitTyped == Init => Typed
  <1> SUFFICES ASSUME Init
               PROVE  Typed
    OBVIOUS
  <1>1. TypeOK
    BY Constants, IdleIsFine DEF Init, TypeOK, Files, Components
  <1>2. InPlace
    BY Constants, IdleIsFine DEF Init, InPlace, InApi, Up, Components
  <1> QED
    BY <1>1, <1>2 DEF Typed

-----------------------------------------------------------------------------
(* What the notice and the services are going to be                          *)

Lists(a, op) == \E i \in DOMAIN act[a].todo : act[a].todo[i] = op

LEMMA ToDoIs ==
    ASSUME NEW do
    PROVE  /\ \A op : op \in ToDo(do) <=> op.do = do /\ \E a \in Actors : Lists(a, op)
           /\ \A op : op \in ToDo(do)' <=> op.do = do /\ \E a \in Actors : Lists(a, op)'
  BY DEF ToDo, Lists

\* What no actor lists anew and none ceases to list stays to be done.
LEMMA SameToDo ==
    ASSUME NEW do,
           \A a \in Actors : \A op : op.do = do => (Lists(a, op) <=> Lists(a, op)')
    PROVE  ToDo(do)' = ToDo(do)
  <1>1. \A op : op \in ToDo(do) <=> op \in ToDo(do)'
    BY ToDoIs
  <1> QED
    BY <1>1

LEMMA ComingType == TypeOK => Coming \in Files
  BY DEF TypeOK, Coming, Files

LEMMA ToDoType ==
    ASSUME Typed, NEW do, NEW op \in ToDo(do)
    PROVE  op \in Ops /\ op.do = do
  <1>1. PICK a \in Actors : Lists(a, op)
    BY ToDoIs
  <1>2. act[a].todo \in Seq(Ops)
    BY DoesType DEF Doings
  <1> QED
    BY <1>1, <1>2, ToDoIs DEF Lists

LEMMA MarkedAsType ==
    ASSUME Typed, NEW k \in Keys
    PROVE  MarkedAs(k) \in Texts \union {Nothing}
  <1>1. previous[k] \in Texts \union {Nothing}
    BY DEF Typed, TypeOK, Entries
  <1>2. \A op \in ToDo("mark") : op.texts[k] \in Texts \union {Nothing}
    BY ToDoType DEF Ops, Entries
  <1>3. (\E op \in ToDo("mark") : op.texts[k] # Nothing) =>
           (CHOOSE op \in ToDo("mark") : op.texts[k] # Nothing) \in ToDo("mark")
    OBVIOUS
  <1> QED
    BY <1>1, <1>2, <1>3 DEF MarkedAs

LEMMA DueType == Typed => Due \in Entries
  BY MarkedAsType DEF Due, Entries

LEMMA DueIs ==
    /\ \A k \in Keys : Due[k] = IF Retired(k) THEN Nothing ELSE MarkedAs(k)
    /\ \A k \in Keys : Due'[k] = IF Retired(k)' THEN Nothing ELSE MarkedAs(k)'
  BY DEF Due

\* An option that is not marked is what is on record.
LEMMA NotMarked ==
    ASSUME NEW k \in Keys
    PROVE  /\ (\A op \in ToDo("mark") : op.texts[k] = Nothing) => MarkedAs(k) = previous[k]
           /\ (\A op \in ToDo("mark")' : op.texts[k] = Nothing) => MarkedAs(k)' = previous'[k]
  BY DEF MarkedAs

\* Nothing that matters to an option has changed.
LEMMA DueSame ==
    ASSUME ToDo("mark")' = ToDo("mark"), ToDo("reconcile")' = ToDo("reconcile"),
           ToDo("clear")' = ToDo("clear"), NEW k \in Keys, previous'[k] = previous[k],
           ((phase'["api"] = "down" /\ Reader[k] = "api") \/ k \in snap')
           <=> ((phase["api"] = "down" /\ Reader[k] = "api") \/ k \in snap)
    PROVE  Due'[k] = Due[k]
  <1>1. MarkedAs(k)' = MarkedAs(k)
    BY DEF MarkedAs
  <1>2. Retired(k)' <=> Retired(k)
    BY <1>1 DEF Retired
  <1> QED
    BY <1>1, <1>2, DueIs

-----------------------------------------------------------------------------
(* What a step comes to                                                      *)

Same(k)      == Coming'[k] = Coming[k] /\ Due'[k] = Due[k]
Restarted(k) == Coming'[k] = config[k] /\ Due'[k] = Nothing

Stutter == config' = config /\ unannounced' = unannounced /\ \A k \in Keys : Same(k)

IsSave == unannounced' = unannounced /\ \E new \in Updates, always \in BOOLEAN : Promise!Save(new, always)

IsRestart(c) ==
    /\ config' = config /\ unannounced' = unannounced
    /\ \A k \in Keys : IF Reader[k] = c THEN Restarted(k) ELSE Same(k)

\* The web service is restarted behind the notice's back, or has been and this step does not tell.
Behind ==
    /\ config' = config /\ unannounced \subseteq unannounced' /\ "web" \in unannounced'
    /\ \A k \in Of("web") : Coming'[k] \in {Coming[k], config[k]}
    /\ (\A k \in Of("api") : Same(k)) \/ (\A k \in Of("api") : Restarted(k))

\* The notice is cleared after a restart of the web service.
Announces ==
    /\ config' = config /\ unannounced' \subseteq unannounced /\ \A k \in Keys : Same(k)
    /\ \A k \in Keys : Reader[k] \in unannounced \ unannounced' => Coming[k] = config[k] /\ Due[k] = Nothing

Plain == Stutter \/ (\E c \in Components : IsRestart(c)) \/ Behind \/ Announces

\* RestartNotice has the operators of RestartPending under names of its own.
LEMMA PromiseIs ==
    /\ \A k, text : Promise!Value(k, text) = Value(k, text)
    /\ \A k : Promise!Agrees(k) <=> Value(k, config[k]) = Value(k, Coming[k])
    /\ \A k : Promise!Agrees(k)' <=> Value(k, config'[k]) = Value(k, Coming'[k])
    /\ Promise!Updates = Updates /\ Promise!Components = Components
  BY DEF Promise!Value, Value, Promise!Agrees, Promise!Updates, Updates, Promise!Components, Components,
     Promise!Absent, Absent, Promise!Nothing, Nothing

LEMMA KeySame ==
    ASSUME NEW k, KeyOK(k), config'[k] = config[k], Same(k)
    PROVE  KeyOK(k)'
  BY PromiseIs DEF KeyOK, Same

LEMMA KeyRestarted ==
    ASSUME NEW k, config'[k] = config[k], Restarted(k)
    PROVE  KeyOK(k)'
  BY PromiseIs DEF KeyOK, Restarted

\* What a save does to one option.
SavedAs(k, new, always) ==
    LET marked == IF Due[k] # Nothing THEN Due[k]
                  ELSE IF new[k] # Nothing /\ (always \/ Changes(k, config[k], new[k]))
                       THEN Shown(k, config[k]) ELSE Nothing
    IN  /\ config'[k] = IF new[k] = Nothing THEN config[k] ELSE new[k]
        /\ Due'[k] = IF new[k] = marked THEN Nothing ELSE marked
        /\ Coming'[k] = Coming[k]

LEMMA PromiseSave ==
    ASSUME NEW new, NEW always, Promise!Save(new, always), NEW k \in Keys
    PROVE  SavedAs(k, new, always)
  BY DEF Promise!Save, SavedAs, Promise!Written, Promise!Reconciled, Promise!Marked, Promise!Detail,
     Promise!Changes, Changes, Promise!Shown, Shown, Promise!Nothing, Nothing, Promise!Absent, Absent

LEMMA SavePromise ==
    ASSUME NEW new, NEW always, config' = Written(config, new),
           \A k \in Keys : SavedAs(k, new, always)
    PROVE  Promise!Save(new, always)
  <1>1. config' = Promise!Written(config, new)
    BY DEF Written, Promise!Written, Promise!Nothing, Nothing
  <1>2. Coming' = Coming
    BY DEF SavedAs, Coming
  <1>3. ASSUME NEW k \in Keys
        PROVE  Due'[k] = Promise!Reconciled(Promise!Marked(Due, Promise!Detail(config, new, always)), new)[k]
    BY <1>3 DEF SavedAs, Promise!Reconciled, Promise!Marked, Promise!Detail,
       Promise!Changes, Changes, Promise!Shown, Shown, Promise!Nothing, Nothing, Promise!Absent, Absent
  <1>4. Due' = [k \in Keys |-> Due'[k]]
    BY DEF Due
  <1>5. Due' = Promise!Reconciled(Promise!Marked(Due, Promise!Detail(config, new, always)), new)
    BY <1>3, <1>4 DEF Promise!Reconciled
  <1> QED
    BY <1>1, <1>2, <1>5 DEF Promise!Save

\* A save keeps the promise of an option: that the text on record means what
\* the service has loaded is what entitles the revert to retire it.
LEMMA KeySaved ==
    ASSUME Typed, NEW k \in Keys, KeyOK(k), NEW new \in Updates, NEW always \in BOOLEAN,
           SavedAs(k, new, always)
    PROVE  KeyOK(k)'
  <1>1. Coming'[k] = Coming[k]
    BY DEF SavedAs
  <1>2. /\ Due[k] \in Texts \union {Nothing}
        /\ config[k] \in Texts \union {Absent}
        /\ new[k] \in Texts \union {Nothing}
        /\ new[k] # Nothing => Means[new[k]] = new[k]
    BY DueType DEF Typed, TypeOK, Entries, Files, Updates
  <1>3. /\ Value(k, config[k]) # Value(k, Coming[k]) => Due[k] # Nothing
        /\ Due[k] # Nothing => Value(k, Due[k]) = Value(k, Coming[k]) /\ Due[k] # config[k]
    BY PromiseIs DEF KeyOK
  <1>4. CASE new[k] = Nothing
    <2>1. config'[k] = config[k] /\ Due'[k] = Due[k]
      BY <1>4 DEF SavedAs
    <2> QED
      BY <1>1, <1>3, <2>1, PromiseIs DEF KeyOK
  <1>5. CASE new[k] # Nothing
    <2> DEFINE marked == IF Due[k] # Nothing THEN Due[k]
                         ELSE IF always \/ Changes(k, config[k], new[k])
                              THEN Shown(k, config[k]) ELSE Nothing
    <2>1. /\ config'[k] = new[k]
          /\ Due'[k] = IF new[k] = marked THEN Nothing ELSE marked
      BY <1>5 DEF SavedAs
    <2>2. Value(k, new[k]) = new[k]
      BY <1>2, <1>5, PendingAssumption DEF Value
    <2>3. marked # Nothing => Value(k, marked) = Value(k, Coming[k])
      <3>1. Value(k, Shown(k, config[k])) = Value(k, config[k])
        BY <1>2, PendingAssumption DEF Value, Shown
      <3> QED
        BY <3>1, <1>3
    <2>4. marked = Nothing => new[k] = Value(k, Coming[k])
      <3>1. SUFFICES ASSUME marked = Nothing
                     PROVE  new[k] = Value(k, config[k])
        BY <1>3
      <3>2. Shown(k, config[k]) # Nothing
        BY <1>2, PendingAssumption DEF Shown
      <3>3. ~Changes(k, config[k], new[k])
        BY <3>1, <3>2
      <3> QED
        BY <3>3, <1>2, <1>5, PendingAssumption DEF Changes, Value
    <2>5. Due'[k] # Nothing => Due'[k] # config'[k]
      BY <2>1, <1>5
    <2> HIDE DEF marked
    <2> QED
      BY <1>1, <1>5, <2>1, <2>2, <2>3, <2>4, <2>5, PromiseIs DEF KeyOK
  <1> QED
    BY <1>4, <1>5

LEMMA AnnouncedIs ==
    /\ \A k : k \in Announced <=> k \in Keys /\ Reader[k] \notin unannounced
    /\ \A k : k \in Announced' <=> k \in Keys /\ Reader[k] \notin unannounced'
  BY DEF Announced

\* Whatever a step comes to, the facts about the notice are kept.
LEMMA SaveKeeps ==
    ASSUME Typed, Kept, IsSave
    PROVE  Kept'
  <1>1. PICK new \in Updates, always \in BOOLEAN : Promise!Save(new, always)
    BY DEF IsSave
  <1>2. ASSUME NEW k \in Announced'
        PROVE  KeyOK(k)'
    <2>1. k \in Announced /\ k \in Keys
      BY AnnouncedIs DEF IsSave
    <2> QED
      BY <1>1, <2>1, PromiseSave, KeySaved DEF Kept
  <1> QED
    BY <1>2 DEF Kept

LEMMA PlainKeeps ==
    ASSUME Kept, Plain
    PROVE  Kept'
  <1>1. ASSUME NEW k \in Announced'
        PROVE  KeyOK(k)'
    <2>1. k \in Keys /\ Reader[k] \notin unannounced' /\ config' = config /\ Reader[k] \in Components
      BY AnnouncedIs, Constants DEF Plain, Stutter, IsRestart, Behind, Announces
    <2>2. CASE Stutter
      BY <2>1, <2>2, AnnouncedIs, KeySame DEF Kept, Stutter
    <2>3. CASE \E c \in Components : IsRestart(c)
      BY <2>1, <2>3, AnnouncedIs, KeySame, KeyRestarted DEF Kept, IsRestart
    <2>4. CASE Behind
      <3>1. k \in Of("api") /\ k \in Announced
        BY <2>1, <2>4, AnnouncedIs DEF Behind, Of, Components
      <3> QED
        BY <2>1, <2>4, <3>1, KeySame, KeyRestarted DEF Behind, Kept
    <2>5. CASE Announces
      <3>1. Same(k)
        BY <2>1, <2>5 DEF Announces
      <3>2. CASE Reader[k] \in unannounced
        BY <2>1, <2>5, <3>1, <3>2, KeyRestarted DEF Announces, Same, Restarted
      <3>3. CASE Reader[k] \notin unannounced
        BY <2>1, <3>1, <3>3, AnnouncedIs, KeySame DEF Kept
      <3> QED
        BY <3>2, <3>3
    <2> QED
      BY <2>2, <2>3, <2>4, <2>5 DEF Plain
  <1> QED
    BY <1>1 DEF Kept

LEMMA PlainFresh ==
    ASSUME Plain
    PROVE  /\ config' = config
           /\ \A k \in Keys : Coming'[k] \in {Coming[k], config[k]}
           /\ \A c \in Components : Fresh(c) => Fresh(c)'
  <1>1. config' = config
    BY DEF Plain, Stutter, IsRestart, Behind, Announces
  <1>2. ASSUME NEW k \in Keys
        PROVE  Coming'[k] \in {Coming[k], config[k]}
    <2>1. k \in Of("api") \/ k \in Of("web")
      BY Constants DEF Of, Components
    <2> QED
      BY <2>1 DEF Plain, Stutter, IsRestart, Behind, Announces, Same, Restarted
  <1>3. ASSUME NEW c \in Components, Fresh(c)
        PROVE  Fresh(c)'
    <2>1. \A k \in Of(c) : Coming'[k] = config'[k]
      BY <1>1, <1>2, <1>3, Constants DEF Fresh
    <2> QED
      BY <2>1 DEF Fresh
  <1> QED
    BY <1>1, <1>2, <1>3

-----------------------------------------------------------------------------
(* What a step leaves alone                                                  *)

LEMMA IdleIsRight == Right(Idle) /\ Right(Idle)'
  BY IdleIsFine DEF Right, SaveIsCurrent, TodoIsRight, AskedIsFresh

\* An actor that does not move remains in the right.
LEMMA Carry ==
    ASSUME Typed, Undisturbed, Plain, NEW b \in Actors,
           act'[b] \in {act[b], Idle},
           act[b].at = "bounce" => unannounced \subseteq unannounced',
           b = Startup /\ act'[b] # Idle => snap' = snap,
           act'[b] # Idle /\ act[b].cmd \in {"save", "secret"} => Up("web")'
    PROVE  Right(act[b])'
  <1>1. CASE act'[b] = Idle
    BY <1>1, IdleIsRight
  <1>2. CASE act'[b] = act[b] /\ act[b] # Idle
    <2> DEFINE does == act[b]
    <2>1. does \in Doings /\ Right(does) /\ Placed(b, does)
      BY DoesType DEF Undisturbed
    <2>2. config' = config
      BY PlainFresh
    <2>3. SaveIsCurrent(act[b])'
      BY <1>2, <2>1, <2>2 DEF Right, SaveIsCurrent
    <2>4. \A op : op \in Ops /\ Clears(op) => Clears(op)'
      BY PlainFresh DEF Clears, Ops
    <2>5. \A i \in DOMAIN does.todo : does.todo[i] \in Ops
      BY <2>1 DEF Doings
    <2>6. does.cmd = "startup" => snap' = snap
      BY <1>2, <2>1 DEF Placed, CmdsOf, OfOperators
    <2>7. TodoIsRight(act[b])'
      <3>1. TodoIsRight(does)
        BY <2>1 DEF Right
      <3>2. Orderly(does.todo) => Orderly(act[b].todo)'
        BY <1>2 DEF Orderly
      <3>3. \A op : Concerns(op) => Concerns(op)'
        BY DEF Concerns
      <3>4. act'[b] = does
        BY <1>2
      <3> HIDE DEF does
      <3> QED
        BY <2>4, <2>5, <2>6, <3>1, <3>2, <3>3, <3>4 DEF TodoIsRight
    <2>8. AskedIsFresh(act[b])'
      <3>1. does.asked \in SUBSET Components
        BY <2>1 DEF Doings
      <3> QED
        BY <1>2, <2>1, <3>1, PlainFresh DEF Right, AskedIsFresh
    <2> QED
      BY <2>3, <2>7, <2>8 DEF Right
  <1> QED
    BY <1>1, <1>2

LEMMA WorkStays ==
    ASSUME OneAtWork, \A b \in Actors \ {Startup} : act'[b] # Idle => act[b] # Idle
    PROVE  OneAtWork'
  BY DEF OneAtWork

LEMMA CopyStays ==
    ASSUME CopyIsCurrent, UNCHANGED file, \A b \in Actors : act'[b].at = "put" => act'[b] = act[b]
    PROVE  CopyIsCurrent'
  BY DEF CopyIsCurrent, At

LEMMA StartStays ==
    ASSUME StartIsRecorded, UNCHANGED <<snap, previous>>,
           act'[Startup].at = "serve" => act[Startup].at = "serve"
    PROVE  StartIsRecorded'
  BY DEF StartIsRecorded, At

\* An actor moves, and the files, the services and what is still to be recorded
\* stay as they are.
LEMMA MoveKeeps ==
    ASSUME Typed, Undisturbed, NEW a \in Actors, NEW does \in Doings,
           act' = [act EXCEPT ![a] = does],
           UNCHANGED <<config, loaded, phase, snap, previous, attempt, unannounced>>,
           \A k \in Keys : Due'[k] = Due[k],
           Right(does), OneAtWork', CopyIsCurrent',
           a = Startup /\ does.at = "serve" => act[a].at = "serve"
    PROVE  Undisturbed' /\ Stutter
  <1>1. \A b \in Actors : act'[b] = IF b = a THEN does ELSE act[b]
    BY DEF Typed, TypeOK
  <1>2. Coming' = Coming
    BY DEF Coming
  <1>3. Stutter
    BY <1>2 DEF Stutter, Same
  <1>4. ASSUME NEW b \in Actors
        PROVE  Right(act[b])'
    <2>1. CASE b # a
      <3>1. act'[b] = act[b] /\ Plain
        BY <1>1, <1>3, <2>1 DEF Plain
      <3>2. Right(act[b])
        BY DEF Undisturbed
      <3>3. act[b].cmd \in {"save", "secret"} => Up("web")'
        BY <3>2 DEF Right, SaveIsCurrent, Up
      <3> QED
        BY <3>1, <3>3, Carry
    <2>2. CASE b = a
      <3>1. act'[b] = does
        BY <1>1, <2>2
      <3>2. \A c : Fresh(c) <=> Fresh(c)'
        BY <1>2 DEF Fresh
      <3>3. SaveIsCurrent(act[b])'
        BY <3>1 DEF Right, SaveIsCurrent, Up
      <3>4. TodoIsRight(act[b])'
        <4>1. \A op : Clears(op) <=> Clears(op)'
          BY <3>2 DEF Clears
        <4>2. \A op : Concerns(op) <=> Concerns(op)'
          BY DEF Concerns
        <4>3. Orderly(does.todo) <=> Orderly(act[b].todo)'
          BY <3>1 DEF Orderly
        <4> QED
          BY <3>1, <4>1, <4>2, <4>3 DEF Right, TodoIsRight
      <3>5. AskedIsFresh(act[b])'
        BY <3>1, <3>2 DEF Right, AskedIsFresh
      <3> QED
        BY <3>3, <3>4, <3>5 DEF Right
    <2> QED
      BY <2>1, <2>2
  <1>5. StartIsRecorded'
    BY <1>1, StartStays, Constants DEF Undisturbed
  <1>6. Kept'
    BY <1>3, PlainKeeps DEF Plain, Undisturbed
  <1> QED
    BY <1>3, <1>4, <1>5, <1>6 DEF Undisturbed

\* The lists say the same of the options.
LEMMA MoveDue ==
    ASSUME Typed, NEW a \in Actors, NEW does, act' = [act EXCEPT ![a] = does],
           UNCHANGED <<phase, snap, previous>>,
           \A op : op.do # "record" => (Lists(a, op) <=> \E i \in DOMAIN does.todo : does.todo[i] = op)
    PROVE  \A k \in Keys : Due'[k] = Due[k]
  <1>1. \A b \in Actors : act'[b] = IF b = a THEN does ELSE act[b]
    BY DEF Typed, TypeOK
  <1>2. \A b \in Actors : \A op : op.do # "record" => (Lists(b, op) <=> Lists(b, op)')
    BY <1>1 DEF Lists
  <1>3. \A do \in {"mark", "reconcile", "clear"} : ToDo(do)' = ToDo(do)
    BY <1>2, SameToDo
  <1> QED
    BY <1>3, DueSame

LEMMA NothingListed ==
    ASSUME NEW a, act[a].todo = <<>>
    PROVE  \A op : ~Lists(a, op)
  BY DEF Lists

\* When everything has settled, an operator begins.
LEMMA BeginsKeeps ==
    ASSUME Patient, Typed, Undisturbed, NEW a \in Operators, NEW does \in Doings, Begins(a, does),
           Right(does), does.at # "put", \A i \in DOMAIN does.todo : does.todo[i].do = "record"
    PROVE  Undisturbed' /\ Stutter
  <1>1. Quiet /\ act' = [act EXCEPT ![a] = does]
        /\ UNCHANGED <<config, loaded, phase, snap, previous, attempt, unannounced>>
    BY DEF Begins, file, services
  <1>2. a \in Actors /\ a # Startup
    BY Constants
  <1>3. \A b \in Actors : act'[b] = IF b = a THEN does ELSE Idle
    BY <1>1 DEF Quiet, Typed, TypeOK
  <1>4. OneAtWork'
    BY <1>3 DEF OneAtWork
  <1>5. CopyIsCurrent'
    BY <1>3, IdleIsFine DEF CopyIsCurrent, At
  <1>6. \A k \in Keys : Due'[k] = Due[k]
    <2>1. \A op : ~Lists(a, op)
      BY <1>1, <1>2, IdleIsFine, NothingListed DEF Quiet
    <2> QED
      BY <1>1, <1>2, <2>1, MoveDue
  <1> QED
    BY <1>1, <1>2, <1>4, <1>5, <1>6, MoveKeeps

LEMMA SaveLoadsKeeps ==
    ASSUME Patient, Typed, Undisturbed, NEW a \in Operators, NEW new \in Options,
           SaveLoads(a, new) \/ SecretLoads(a, new)
    PROVE  Undisturbed' /\ Stutter
  <1>1. PICK cmd \in {"save", "secret"} :
           /\ Begins(a, [Idle EXCEPT !.cmd = cmd, !.at = "merge", !.read = config, !.new = new])
           /\ cmd = "secret" => \E k \in SecretKeys : {j \in Keys : new[j] # Nothing} = {k}
    BY DEF SaveLoads, SecretLoads
  <1> DEFINE does == [Idle EXCEPT !.cmd = cmd, !.at = "merge", !.read = config, !.new = new]
  <1>2. does \in Doings
    <2>1. new \in Entries /\ config \in [Keys -> Texts \union {Absent, Nothing}]
      BY Constants DEF Typed, TypeOK, Files
    <2> QED
      BY <2>1, IdleIsFine DEF Doings, OfOperators, Places
  <1>3. /\ does.cmd = cmd /\ does.at = "merge" /\ does.read = config /\ does.new = new
        /\ does.todo = <<>>
    BY DEF Idle
  <1>4. Up("web")
    BY <1>1 DEF Begins, Quiet, Components
  <1>5. cmd = "secret" => \A k \in Of("api") : new[k] = Nothing
    BY <1>1, ActivationAssumption DEF Of
  <1>6. Right(does)
    <2> HIDE DEF does
    <2> QED
      BY <1>3, <1>4, <1>5 DEF Right, SaveIsCurrent, TodoIsRight, AskedIsFresh, Orderly
  <1>7. Begins(a, does)
    BY <1>1
  <1> HIDE DEF does
  <1> QED
    BY <1>2, <1>3, <1>6, <1>7, BeginsKeeps

LEMMA RequestLooksKeeps ==
    ASSUME Patient, Typed, Undisturbed, NEW a \in Operators, NEW targets \in TargetSets,
           RequestLooks(a, targets)
    PROVE  Undisturbed' /\ Stutter
  <1> DEFINE runs == [c \in Components |-> Record(c, "running")]
             started == Each(targets, runs)
             looks == [Idle EXCEPT !.cmd = "request", !.targets = targets]
             does == Works(looks, started, "schedule")
  <1>1. targets \in SUBSET Components
    BY DEF TargetSets, Components
  <1>2. runs \in [Components -> Ops] /\ \A c \in Components : runs[c].do = "record"
    BY OpTypes, Constants DEF Statuses, Record
  <1>3. started \in Seq(Ops) /\ \A i \in DOMAIN started : started[i].do = "record"
    <2> HIDE DEF runs
    <2> QED
      BY <1>1, <1>2, EachType
  <1>4. looks \in Doings /\ looks.cmd = "request"
    BY <1>1, IdleIsFine DEF Doings, OfOperators, Idle
  <1>5. /\ does \in Doings /\ does.cmd = "request" /\ does.todo = started
        /\ does.at \in {"schedule", "take"}
    <2> HIDE DEF looks, started
    <2>1. "schedule" \in Places
      BY DEF Places
    <2> QED
      BY <1>3, <1>4, <2>1, WorksType
  <1>6. Begins(a, does)
    BY DEF RequestLooks
  <1> HIDE DEF does, started
  <1>7. Right(does)
    BY <1>3, <1>5 DEF Right, SaveIsCurrent, TodoIsRight, AskedIsFresh
  <1> QED
    BY <1>3, <1>5, <1>6, <1>7, BeginsKeeps

LEMMA OpsStartsKeeps ==
    ASSUME Patient, Typed, Undisturbed, NEW a \in Operators, NEW targets \in TargetSets,
           NEW cmd \in {"ops", "bounce"}, OpsStarts(a, cmd, targets)
    PROVE  Undisturbed' /\ Stutter
  <1> DEFINE does == [Idle EXCEPT !.cmd = cmd, !.at = "bounce", !.targets = targets]
  <1>1. does \in Doings
    BY IdleIsFine DEF Doings, OfOperators, Places, TargetSets, Components
  <1>2. does.cmd = cmd /\ does.at = "bounce" /\ does.todo = <<>> /\ does.asked = {}
    BY DEF Idle
  <1>3. Begins(a, does)
    BY DEF OpsStarts
  <1> HIDE DEF does
  <1>4. Right(does)
    BY <1>2 DEF Right, SaveIsCurrent, TodoIsRight, AskedIsFresh
  <1> QED
    BY <1>1, <1>2, <1>3, <1>4, BeginsKeeps

LEMMA TakeKeeps ==
    ASSUME Spaced, Typed, Undisturbed, NEW a \in Actors, Take(a), faults = 0, faults' = 0
    PROVE  Undisturbed' /\ Stutter
  <1> DEFINE does == [act[a] EXCEPT !.at = "put", !.copy = <<previous, attempt>>]
  <1>1. act' = [act EXCEPT ![a] = does]
    <2>1. PICK readable \in BOOLEAN :
             /\ IF readable THEN UNCHANGED faults ELSE Fault("unread")
             /\ act' = [act EXCEPT ![a].at = "put", ![a].copy =
                           IF readable THEN <<previous, attempt>> ELSE <<NoTexts, NoAttempts>>]
      BY DEF Take
    <2>2. readable
      BY <2>1 DEF Fault
    <2> QED
      BY <2>1, <2>2
  <1>2. UNCHANGED <<config, loaded, phase, snap, previous, attempt, unannounced>>
    BY DEF Take, file, services
  <1>3. act[a] \in Doings /\ Placed(a, act[a]) /\ act[a].at = "take" /\ act[a] # Idle
    BY DoesType, IdleIsFine DEF Take, At
  <1>4. does \in Doings
    <2>1. <<previous, attempt>> \in Entries \X [Components -> Statuses]
      BY DEF Typed, TypeOK
    <2> QED
      BY <1>3, <2>1 DEF Doings, Places
  <1>5. /\ does.cmd = act[a].cmd /\ does.at = "put" /\ does.todo = act[a].todo
        /\ does.new = act[a].new /\ does.copy = <<previous, attempt>>
    BY <1>3 DEF Doings
  <1>6. \A b \in Actors : act[b].at # "put"
    BY DEF Take, LockFree, At
  <1> HIDE DEF does
  <1>7. \A b \in Actors : act'[b] = IF b = a THEN does ELSE act[b]
    BY <1>1 DEF Typed, TypeOK
  <1>8. Right(does)
    <2>1. Right(act[a])
      BY DEF Undisturbed
    <2> QED
      BY <1>5, <2>1 DEF Right, SaveIsCurrent, TodoIsRight, AskedIsFresh
  <1>9. OneAtWork'
    BY <1>3, <1>7, WorkStays DEF Undisturbed
  <1>10. CopyIsCurrent'
    BY <1>2, <1>5, <1>6, <1>7 DEF CopyIsCurrent, At, file
  <1>11. \A k \in Keys : Due'[k] = Due[k]
    BY <1>1, <1>2, <1>5, MoveDue DEF Lists
  <1> QED
    BY <1>1, <1>2, <1>4, <1>5, <1>8, <1>9, <1>10, <1>11, MoveKeeps

\* An actor with nothing left to do is done.
LEMMA ReturnKeeps ==
    ASSUME Typed, Undisturbed, NEW a \in Actors, Return(a), act[a].todo = <<>>,
           UNCHANGED <<config, file, services, unannounced>>
    PROVE  Undisturbed' /\ Stutter
  <1>1. /\ act' = [act EXCEPT ![a] = Idle]
        /\ UNCHANGED <<config, loaded, phase, snap, previous, attempt, unannounced>>
    BY DEF Return, file, services
  <1>2. \A b \in Actors : act'[b] = IF b = a THEN Idle ELSE act[b]
    BY <1>1 DEF Typed, TypeOK
  <1>3. OneAtWork'
    BY <1>2, WorkStays DEF Undisturbed
  <1>4. CopyIsCurrent'
    BY <1>1, <1>2, IdleIsFine, CopyStays DEF Undisturbed, file
  <1>5. \A k \in Keys : Due'[k] = Due[k]
    <2>1. \A op : ~Lists(a, op)
      BY NothingListed
    <2>2. DOMAIN Idle.todo = {}
      BY IdleIsFine
    <2> QED
      BY <1>1, <2>1, <2>2, MoveDue
  <1> QED
    BY <1>1, <1>3, <1>4, <1>5, IdleIsFine, IdleIsRight, MoveKeeps

LEMMA SaveMergesKeeps ==
    ASSUME Typed, Undisturbed, NEW a \in Actors, SaveMerges(a)
    PROVE  Undisturbed' /\ Stutter
  <1> DEFINE does == [act[a] EXCEPT !.text = Written(config, act[a].new), !.at = "write"]
  <1>1. act[a] \in Doings /\ Placed(a, act[a]) /\ act[a].at = "merge" /\ act[a] # Idle
    BY DoesType, IdleIsFine DEF SaveMerges, At
  <1>2. act' = [act EXCEPT ![a] = does]
        /\ UNCHANGED <<config, loaded, phase, snap, previous, attempt, unannounced>>
    BY DEF SaveMerges, file, services
  <1>3. Written(config, act[a].new) \in [Keys -> Texts \union {Absent, Nothing}]
    BY <1>1 DEF Typed, TypeOK, Written, Files, Doings, Entries
  <1>4. does \in Doings
    BY <1>1, <1>3 DEF Doings, Places
  <1>5. /\ does.cmd = act[a].cmd /\ does.at = "write" /\ does.todo = act[a].todo
        /\ does.text = Written(config, act[a].new) /\ does.new = act[a].new /\ does.read = act[a].read
    BY <1>1 DEF Doings
  <1> HIDE DEF does
  <1>6. \A b \in Actors : act'[b] = IF b = a THEN does ELSE act[b]
    BY <1>2 DEF Typed, TypeOK
  <1>7. Right(does)
    <2>1. Right(act[a])
      BY DEF Undisturbed
    <2> QED
      BY <1>1, <1>5, <2>1 DEF Right, SaveIsCurrent, TodoIsRight, AskedIsFresh
  <1>8. OneAtWork'
    BY <1>1, <1>6, WorkStays DEF Undisturbed
  <1>9. CopyIsCurrent'
    BY <1>2, <1>5, <1>6, CopyStays DEF Undisturbed, file
  <1>10. \A k \in Keys : Due'[k] = Due[k]
    BY <1>2, <1>5, MoveDue DEF Lists
  <1> QED
    BY <1>2, <1>4, <1>5, <1>7, <1>8, <1>9, <1>10, MoveKeeps

-----------------------------------------------------------------------------
(* An operation on the notice is carried out                                 *)

\* Who does what, when someone is at work.
LEMMA OthersList ==
    ASSUME Typed, Undisturbed, NEW a \in Actors \ {Startup}, act[a] # Idle,
           NEW b \in Actors, NEW op, Lists(b, op)
    PROVE  \/ b = a
           \/ b = Startup /\ op.do = "clear" /\ op.on = "api" /\ op.keys = snap
              /\ act[a].cmd \notin ApiCmds /\ phase["api"] = "loaded"
  <1>1. act[b] # Idle
    BY IdleIsFine DEF Lists
  <1>2. CASE b # Startup
    BY <1>1, <1>2 DEF Undisturbed, OneAtWork
  <1>3. CASE b = Startup
    <2>1. phase["api"] = "loaded"
      BY <1>1, <1>3 DEF Typed, InPlace
    <2>2. act[a].cmd \notin ApiCmds
      BY <2>1 DEF Typed, InPlace, InApi, Up, ApiCmds
    <2>3. act[b].cmd = "startup"
      BY <1>1, <1>3, DoesType, Constants DEF Placed, CmdsOf
    <2>4. TodoIsRight(act[b])
      BY DEF Undisturbed, Right
    <2> QED
      BY <1>3, <2>1, <2>2, <2>3, <2>4 DEF TodoIsRight, Lists
  <1> QED
    BY <1>2, <1>3

\* What an actor that has just read the notice is about to do to it.
LEMMA HeadIs ==
    ASSUME Typed, Undisturbed, NEW a \in Actors, act[a].at = "put"
    PROVE  LET op == Head(act[a].todo)
           IN  /\ act[a] \in Doings /\ Placed(a, act[a]) /\ act[a] # Idle
               /\ act[a].todo \in Seq(Ops) /\ act[a].todo # <<>>
               /\ op \in Ops /\ Lists(a, op)
               /\ \/ op.do = "record" /\ (a = Startup => FALSE)
                  \/ /\ op.do \in {"mark", "reconcile"} /\ Concerns(op)
                     /\ act[a].cmd \in {"save", "secret"} /\ a # Startup
                     /\ act[a].cmd = "secret" => op.on = "web"
                  \/ /\ op.do = "clear" /\ Clears(op)
                     /\ act[a].cmd \in {"ops", "bounce", "timer"} /\ a # Startup
                  \/ op.do = "clear" /\ op.on = "api" /\ op.keys = snap /\ a = Startup
               /\ act[a].cmd \in {"save", "secret"} => Orderly(act[a].todo)
  <1> DEFINE op == Head(act[a].todo)
  <1>1. act[a] \in Doings /\ Placed(a, act[a]) /\ act[a] # Idle
    BY DoesType, IdleIsFine
  <1>2. act[a].todo \in Seq(Ops) /\ act[a].todo # <<>>
    BY <1>1 DEF Placed, Doings
  <1>3. op \in Ops /\ Lists(a, op) /\ 1 \in DOMAIN act[a].todo /\ op = act[a].todo[1]
    BY <1>2, ListHeadTail DEF Lists
  <1>4. act[a].cmd \in {"save", "secret", "request", "ops", "bounce", "timer", "startup"}
        /\ (a = Startup <=> act[a].cmd = "startup")
    BY <1>1, Constants DEF Placed, CmdsOf, OfOperators
  <1>5. TodoIsRight(act[a])
    BY DEF Undisturbed, Right
  <1> HIDE DEF op
  <1>6. /\ act[a].cmd \in {"save", "secret"} =>
             Concerns(op) /\ (act[a].cmd = "secret" => op.on = "web") /\ Orderly(act[a].todo)
        /\ act[a].cmd \in {"ops", "bounce", "timer"} => op.do = "record" \/ Clears(op)
        /\ act[a].cmd = "startup" => op.do = "clear" /\ op.on = "api" /\ op.keys = snap
        /\ act[a].cmd = "request" => op.do = "record"
    BY <1>3, <1>5 DEF TodoIsRight
  <1>7. (Concerns(op) => op.do \in {"mark", "reconcile"}) /\ (Clears(op) => op.do = "clear")
    BY DEF Concerns, Clears
  <1> QED
    BY <1>1, <1>2, <1>3, <1>4, <1>6, <1>7 DEF op

\* What the operation does to the notice: writing it or not comes to the same.
LEMMA PutIs ==
    ASSUME Typed, Undisturbed, NEW a \in Actors, Put(a), faults = 0, faults' = 0
    PROVE  LET op   == Head(act[a].todo)
               rest == Tail(act[a].todo)
               does == act'[a]
           IN  /\ act[a].at = "put"
               /\ previous' = TextsAfter(op, previous)
               /\ unannounced' = IF op.do = "clear" THEN unannounced \ {op.on} ELSE unannounced
               /\ UNCHANGED <<config, loaded, phase, snap>>
               /\ \A b \in Actors : b # a => act'[b] = act[b]
               /\ does.cmd = act[a].cmd /\ does.todo = rest /\ does.new = act[a].new
               /\ does.at = IF rest = <<>> THEN ThenOf(act[a].cmd) ELSE "take"
  <1> DEFINE op == Head(act[a].todo)
             rest == Tail(act[a].todo)
             does == [act[a] EXCEPT !.todo = rest, !.copy = <<>>,
                                    !.at = IF rest = <<>> THEN act[a].then ELSE "take"]
  <1>1. act[a].at = "put"
    BY DEF Put, At
  <1>2. act[a] \in Doings /\ Placed(a, act[a])
    BY DoesType
  <1>3. act' = [act EXCEPT ![a] = does]
    BY IdleIsFine DEF Put
  <1>4. /\ does.cmd = act[a].cmd /\ does.todo = rest /\ does.new = act[a].new
        /\ does.at = IF rest = <<>> THEN act[a].then ELSE "take"
    BY <1>2 DEF Doings
  <1>5. act[a].then = ThenOf(act[a].cmd)
    BY <1>1, <1>2 DEF Placed
  <1>6. act[a].copy = <<previous, attempt>>
    BY <1>1 DEF Undisturbed, CopyIsCurrent, At, file
  <1>7. previous \in Entries
    BY DEF Typed, TypeOK
  <1>8. previous' = TextsAfter(op, previous)
    <2>1. act[a].copy[1] = previous
      BY <1>6
    <2>2. \/ previous' = TextsAfter(op, previous)
          \/ ~Writes(op, previous) /\ previous' = previous
      <3>1. ~Fault("unwritten")
        BY DEF Fault
      <3> QED
        BY <2>1, <3>1 DEF Put, file
    <2>3. CASE ~Writes(op, previous)
      <3>1. op.do # "mark" /\ \A k \in Of(op.on) : previous[k] = Nothing
        BY <2>3 DEF Writes, Awaiting
      <3>2. op \in Ops /\ (\A k \in op.keys : op.do = "clear" => previous[k] = Nothing)
            /\ (\A k \in Keys : op.do = "reconcile" /\ op.texts[k] # Nothing => previous[k] = Nothing)
        <4>1. /\ op.do = "clear" => op.keys \subseteq Of(op.on)
              /\ op.do = "reconcile" => \A k \in Keys : op.texts[k] # Nothing => k \in Of(op.on)
          <5> HIDE DEF op
          <5> QED
            BY <1>1, HeadIs DEF op, Clears, Concerns, Typed, TypeOK
        <4>2. op \in Ops
          BY <1>1, HeadIs
        <4> HIDE DEF op
        <4> QED
          BY <3>1, <4>1, <4>2
      <3>3. TextsAfter(op, previous) = previous
        <4> HIDE DEF op
        <4>1. CASE op.do = "record"
          BY <4>1 DEF TextsAfter
        <4>2. CASE op.do = "clear"
          <5>1. \A k \in Keys : (IF k \in op.keys THEN Nothing ELSE previous[k]) = previous[k]
            BY <3>2, <4>2
          <5> QED
            BY <4>2, <5>1, <1>7 DEF TextsAfter, Cleared, Entries
        <4>3. CASE op.do = "reconcile"
          <5>1. \A k \in Keys : (IF op.texts[k] = previous[k] THEN Nothing ELSE previous[k]) = previous[k]
            BY <3>2, <4>3
          <5> QED
            BY <4>3, <5>1, <1>7 DEF TextsAfter, Reconciled, Entries
        <4> QED
          BY <3>1, <3>2, <4>1, <4>2, <4>3 DEF Ops
      <3> QED
        BY <2>2, <3>3
    <2> QED
      BY <2>2, <2>3
  <1>9. /\ unannounced' = IF op.do = "clear" THEN unannounced \ {op.on} ELSE unannounced
        /\ UNCHANGED <<config, loaded, phase, snap>>
    BY DEF Put, services
  <1>10. act'[a] = does /\ \A b \in Actors : b # a => act'[b] = act[b]
    BY <1>3 DEF Typed, TypeOK
  <1> HIDE DEF does
  <1> QED
    BY <1>1, <1>4, <1>5, <1>8, <1>9, <1>10

\* The operation is the one thing that is no longer to be done.
LEMMA PutToDo ==
    ASSUME Typed, NEW a \in Actors, act[a].todo \in Seq(Ops), act[a].todo # <<>>,
           act'[a].todo = Tail(act[a].todo), \A b \in Actors : b # a => act'[b] = act[b]
    PROVE  /\ \A do : do # Head(act[a].todo).do => ToDo(do)' = ToDo(do)
           /\ \A do, op : op \in ToDo(do) <=>
                 op \in ToDo(do)' \/ (op = Head(act[a].todo) /\ op.do = do)
  <1>1. \A op : Lists(a, op) <=> Lists(a, op)' \/ op = Head(act[a].todo)
    <2> DEFINE todo == act[a].todo
    <2>1. todo \in Seq(Ops) /\ todo # <<>> /\ act'[a].todo = Tail(todo)
      OBVIOUS
    <2> HIDE DEF todo
    <2>2. \A op : (\E i \in DOMAIN todo : todo[i] = op) <=>
                     (\E i \in DOMAIN Tail(todo) : Tail(todo)[i] = op) \/ op = Head(todo)
      <3>1. /\ 1 \in DOMAIN todo /\ Head(todo) = todo[1]
            /\ \A i \in DOMAIN Tail(todo) : i + 1 \in DOMAIN todo /\ Tail(todo)[i] = todo[i + 1]
            /\ \A i \in DOMAIN todo : i # 1 => i - 1 \in DOMAIN Tail(todo) /\ Tail(todo)[i - 1] = todo[i]
        BY <2>1, ListHeadTail
      <3>2. ASSUME NEW op, NEW i \in DOMAIN todo, todo[i] = op
            PROVE  (\E j \in DOMAIN Tail(todo) : Tail(todo)[j] = op) \/ op = Head(todo)
        <4>1. CASE i = 1
          BY <3>1, <3>2, <4>1
        <4>2. CASE i # 1
          <5>1. i - 1 \in DOMAIN Tail(todo) /\ Tail(todo)[i - 1] = op
            BY <3>1, <3>2, <4>2
          <5> QED
            BY <5>1
        <4> QED
          BY <4>1, <4>2
      <3>3. ASSUME NEW op, NEW j \in DOMAIN Tail(todo), Tail(todo)[j] = op
            PROVE  \E i \in DOMAIN todo : todo[i] = op
        <4>1. j + 1 \in DOMAIN todo /\ todo[j + 1] = op
          BY <3>1, <3>3
        <4> QED
          BY <4>1
      <3> QED
        BY <3>1, <3>2, <3>3
    <2> QED
      BY <2>1, <2>2 DEF Lists, todo
  <1>2. \A b \in Actors : b # a => \A op : Lists(b, op) <=> Lists(b, op)'
    BY DEF Lists
  <1>3. \A do, op : op \in ToDo(do) <=> op \in ToDo(do)' \/ (op = Head(act[a].todo) /\ op.do = do)
    BY <1>1, <1>2, ToDoIs
  <1>4. ASSUME NEW do, do # Head(act[a].todo).do
        PROVE  ToDo(do)' = ToDo(do)
    <2>1. \A op : op \in ToDo(do) <=> op \in ToDo(do)'
      BY <1>3, <1>4, ToDoIs
    <2> QED
      BY <2>1
  <1> QED
    BY <1>3, <1>4

\* No two marks name an option differently, and nothing else is marked.
LEMMA MarksAgree ==
    ASSUME Typed, Undisturbed, NEW a \in Actors, act[a].at = "put", a # Startup
    PROVE  /\ act[a].cmd \notin {"save", "secret"} => ToDo("mark") = {} /\ ToDo("reconcile") = {}
           /\ Head(act[a].todo).do # "mark" => ToDo("mark") = {}
           /\ \A op, other \in ToDo("mark"), k \in Keys :
                 op.texts[k] # Nothing /\ other.texts[k] # Nothing => op.texts[k] = other.texts[k]
  <1>1. /\ act[a] # Idle /\ act[a].todo \in Seq(Ops) /\ act[a].todo # <<>>
        /\ act[a].cmd \in {"save", "secret"} => Orderly(act[a].todo)
    BY HeadIs
  <1>2. \A do \in {"mark", "reconcile"} : \A op \in ToDo(do) : Lists(a, op) /\ op.do = do
    BY <1>1, OthersList, ToDoIs
  <1>3. act[a].cmd \notin {"save", "secret"} => ToDo("mark") = {} /\ ToDo("reconcile") = {}
    <2>1. SUFFICES ASSUME act[a].cmd \notin {"save", "secret"}, NEW op, Lists(a, op)
                   PROVE  op.do \notin {"mark", "reconcile"}
      BY <1>2
    <2>2. act[a].cmd \in {"request", "ops", "bounce", "timer", "startup"}
      BY <1>1, <2>1, DoesType DEF Placed, CmdsOf, OfOperators
    <2> QED
      BY <2>1, <2>2 DEF Undisturbed, Right, TodoIsRight, Lists, Clears
  <1>4. ASSUME act[a].cmd \in {"save", "secret"}
        PROVE  /\ Head(act[a].todo).do # "mark" => ToDo("mark") = {}
               /\ \A op, other \in ToDo("mark"), k \in Keys :
                     op.texts[k] # Nothing /\ other.texts[k] # Nothing => op.texts[k] = other.texts[k]
    <2> DEFINE todo == act[a].todo
    <2>1. Orderly(todo) /\ 1 \in DOMAIN todo /\ Head(todo) = todo[1] /\ DOMAIN todo \subseteq Nat
          /\ \A i \in DOMAIN todo : i # 1 => 1 < i
      <3>1. DOMAIN todo = 1 .. Len(todo) /\ Len(todo) \in Nat
        BY <1>1
      <3> QED
        BY <1>1, <1>4, <3>1, ListHeadTail
    <2>2. \A op \in ToDo("mark") : \E i \in DOMAIN todo : todo[i] = op /\ op.do = "mark"
      BY <1>2 DEF Lists
    <2> HIDE DEF todo
    <2>3. Head(todo).do # "mark" => ToDo("mark") = {}
      BY <2>1, <2>2 DEF Orderly
    <2>4. ASSUME NEW op \in ToDo("mark"), NEW other \in ToDo("mark"), NEW k \in Keys,
                 op.texts[k] # Nothing, other.texts[k] # Nothing
          PROVE  op.texts[k] = other.texts[k]
      <3>1. PICK i \in DOMAIN todo, j \in DOMAIN todo :
               todo[i] = op /\ todo[j] = other /\ op.do = "mark" /\ other.do = "mark"
        BY <2>2
      <3> QED
        BY <2>1, <2>4, <3>1 DEF Orderly
    <2> QED
      BY <2>3, <2>4 DEF todo
  <1> QED
    BY <1>3, <1>4

\* The text an option will have on record, whichever mark names it.
LEMMA MarkedAsIs ==
    ASSUME NEW k \in Keys
    PROVE  /\ previous[k] # Nothing => MarkedAs(k) = previous[k]
           /\ \A op \in ToDo("mark") :
                 /\ previous[k] = Nothing /\ op.texts[k] # Nothing
                 /\ \A other \in ToDo("mark") :
                       other.texts[k] # Nothing => other.texts[k] = op.texts[k]
                 => MarkedAs(k) = op.texts[k]
           /\ previous'[k] # Nothing => MarkedAs(k)' = previous'[k]
           /\ \A op \in ToDo("mark")' :
                 /\ previous'[k] = Nothing /\ op.texts[k] # Nothing
                 /\ \A other \in ToDo("mark")' :
                       other.texts[k] # Nothing => other.texts[k] = op.texts[k]
                 => MarkedAs(k)' = op.texts[k]
  BY DEF MarkedAs

\* Nothing that is retired, and what an option is marked as has not changed.
LEMMA DueAsBefore ==
    ASSUME NEW k \in Keys, MarkedAs(k)' = MarkedAs(k), UNCHANGED <<phase, snap>>,
           \A op : op.texts[k] = MarkedAs(k) => (op \in ToDo("reconcile")' <=> op \in ToDo("reconcile")),
           \A op : k \in op.keys => (op \in ToDo("clear")' <=> op \in ToDo("clear"))
    PROVE  Due'[k] = Due[k]
  <1>1. Retired(k)' <=> Retired(k)
    BY DEF Retired
  <1> QED
    BY <1>1, DueIs

LEMMA PutDue ==
    ASSUME Typed, Undisturbed, NEW a \in Actors, Put(a), faults = 0, faults' = 0, NEW k \in Keys
    PROVE  /\ Due'[k] = Due[k]
           /\ Head(act[a].todo).do = "clear" /\ k \in Head(act[a].todo).keys => Due[k] = Nothing
  <1> DEFINE op == Head(act[a].todo)
  <1>1. /\ act[a].at = "put" /\ previous' = TextsAfter(op, previous)
        /\ UNCHANGED <<phase, snap>> /\ act'[a].todo = Tail(act[a].todo)
        /\ \A b \in Actors : b # a => act'[b] = act[b]
    BY PutIs
  <1>2. /\ op \in Ops /\ Lists(a, op)
        /\ act[a].todo \in Seq(Ops) /\ act[a].todo # <<>>
        /\ \/ op.do = "record" /\ a # Startup
           \/ op.do \in {"mark", "reconcile"} /\ a # Startup
           \/ op.do = "clear" /\ act[a].cmd \in {"ops", "bounce", "timer"} /\ a # Startup
           \/ op.do = "clear" /\ op.on = "api" /\ op.keys = snap /\ a = Startup
    BY <1>1, HeadIs
  <1>3. /\ \A do : do # op.do => ToDo(do)' = ToDo(do)
        /\ \A do, o : o \in ToDo(do) <=> o \in ToDo(do)' \/ (o = op /\ o.do = do)
    BY <1>1, <1>2, PutToDo
  <1> HIDE DEF op
  <1>4. CASE op.do = "record"
    <2>1. previous' = previous
      BY <1>1, <1>4 DEF TextsAfter
    <2>2. Due'[k] = Due[k]
      BY <1>1, <1>3, <1>4, <2>1, DueSame
    <2> QED
      BY <1>4, <2>2 DEF op
  <1>5. CASE op.do = "mark"
    <2>1. previous'[k] = IF previous[k] = Nothing THEN op.texts[k] ELSE previous[k]
      BY <1>1, <1>5 DEF TextsAfter, Marked
    <2>2. op \in ToDo("mark")
      BY <1>3, <1>5
    <2>3. ToDo("mark")' \subseteq ToDo("mark")
      BY <1>3
    <2>4. \A o, other \in ToDo("mark") :
             o.texts[k] # Nothing /\ other.texts[k] # Nothing => o.texts[k] = other.texts[k]
      BY <1>1, <1>2, <1>5, MarksAgree
    <2>5. MarkedAs(k)' = MarkedAs(k)
      <3>1. CASE previous[k] # Nothing
        BY <2>1, <3>1, MarkedAsIs
      <3>2. CASE previous[k] = Nothing /\ op.texts[k] # Nothing
        <4>1. MarkedAs(k) = op.texts[k]
          BY <2>2, <2>4, <3>2, MarkedAsIs
        <4> QED
          BY <2>1, <3>2, <4>1, MarkedAsIs
      <3>3. CASE previous[k] = Nothing /\ op.texts[k] = Nothing
        <4>1. CASE \E o \in ToDo("mark")' : o.texts[k] # Nothing
          <5>1. PICK o \in ToDo("mark")' : o.texts[k] # Nothing
            BY <4>1
          <5>2. MarkedAs(k) = o.texts[k]
            BY <2>3, <2>4, <3>3, <5>1, MarkedAsIs
          <5>3. MarkedAs(k)' = o.texts[k]
            BY <2>1, <2>3, <2>4, <3>3, <5>1, MarkedAsIs
          <5> QED
            BY <5>2, <5>3
        <4>2. CASE \A o \in ToDo("mark")' : o.texts[k] = Nothing
          <5>1. \A o \in ToDo("mark") : o.texts[k] = Nothing
            BY <1>3, <3>3, <4>2
          <5> QED
            BY <2>1, <3>3, <4>2, <5>1, NotMarked
        <4> QED
          BY <4>1, <4>2
      <3> QED
        BY <3>1, <3>2, <3>3
    <2>6. Due'[k] = Due[k]
      BY <1>1, <1>3, <1>5, <2>5, DueAsBefore
    <2> QED
      BY <1>5, <2>6 DEF op
  <1>6. CASE op.do = "reconcile"
    <2>1. previous'[k] = IF op.texts[k] = previous[k] THEN Nothing ELSE previous[k]
      BY <1>1, <1>6 DEF TextsAfter, Reconciled
    <2>2. ToDo("mark") = {} /\ ToDo("mark")' = {}
      BY <1>1, <1>2, <1>3, <1>6, MarksAgree DEF op
    <2>3. MarkedAs(k) = previous[k] /\ MarkedAs(k)' = previous'[k]
      BY <2>2, NotMarked
    <2>4. CASE op.texts[k] = previous[k]
      <3>1. op \in ToDo("reconcile")
        BY <1>3, <1>6
      <3>2. Due[k] = Nothing
        BY <2>3, <2>4, <3>1, DueIs DEF Retired
      <3>3. Due'[k] = Due[k]
        BY <2>1, <2>3, <2>4, <3>2, DueIs
      <3> QED
        BY <1>6, <3>3 DEF op
    <2>5. CASE op.texts[k] # previous[k]
      <3>1. \A o : o.texts[k] = MarkedAs(k) => (o \in ToDo("reconcile")' <=> o \in ToDo("reconcile"))
        BY <1>3, <2>3, <2>5
      <3>2. Due'[k] = Due[k]
        BY <1>1, <1>3, <1>6, <2>1, <2>3, <2>5, <3>1, DueAsBefore
      <3> QED
        BY <1>6, <3>2 DEF op
    <2> QED
      BY <2>4, <2>5
  <1>7. CASE op.do = "clear"
    <2>1. previous'[k] = IF k \in op.keys THEN Nothing ELSE previous[k]
      BY <1>1, <1>7 DEF TextsAfter, Cleared
    <2>2. ToDo("mark")' = ToDo("mark") /\ ToDo("reconcile")' = ToDo("reconcile")
      BY <1>3, <1>7
    <2>3. CASE k \in op.keys
      <3>1. \A o \in ToDo("mark") : o.texts[k] = Nothing
        <4>1. CASE a # Startup
          BY <1>1, <1>2, <1>7, <4>1, MarksAgree DEF op
        <4>2. CASE a = Startup
          <5>1. Reader[k] = "api" /\ phase["api"] = "loaded"
            BY <1>1, <1>2, <1>7, <2>3, <4>2, IdleIsFine DEF Typed, TypeOK, InPlace, Of
          <5>2. ASSUME NEW o \in ToDo("mark")
                PROVE  o.texts[k] = Nothing
            <6>1. PICK b \in Actors : Lists(b, o) /\ o.do = "mark"
              BY ToDoIs
            <6>2. act[b].cmd \in {"save", "secret"} /\ b # Startup
              <7>1. act[b].cmd \in {"none", "save", "secret", "request", "ops", "bounce", "timer", "startup"}
                    /\ (act[b].cmd = "none" => act[b].todo = <<>>) /\ (b = Startup => act[b].cmd \in {"none", "startup"})
                BY DoesType, IdleIsFine, Constants DEF Placed, CmdsOf, OfOperators
              <7>2. TodoIsRight(act[b])
                BY DEF Undisturbed, Right
              <7> QED
                BY <6>1, <7>1, <7>2 DEF TodoIsRight, Lists, Clears
            <6>3. act[b].cmd = "secret"
              BY <5>1, <6>2 DEF Typed, InPlace, InApi, Up
            <6>4. Concerns(o) /\ o.on = "web"
              BY <6>1, <6>3 DEF Undisturbed, Right, TodoIsRight, Lists
            <6> QED
              BY <5>1, <6>4 DEF Concerns, Of
          <5> QED
            BY <5>2
        <4> QED
          BY <4>1, <4>2
      <3>2. MarkedAs(k)' = Nothing
        BY <2>1, <2>2, <2>3, <3>1, NotMarked
      <3>3. Due'[k] = Nothing
        BY <3>2, DueIs
      <3>4. op \in ToDo("clear")
        BY <1>3, <1>7
      <3>5. Due[k] = Nothing
        BY <2>3, <3>4, DueIs DEF Retired
      <3> QED
        BY <3>3, <3>5
    <2>4. CASE k \notin op.keys
      <3>1. MarkedAs(k)' = MarkedAs(k)
        BY <2>1, <2>2, <2>4 DEF MarkedAs
      <3>2. \A o : k \in o.keys => (o \in ToDo("clear")' <=> o \in ToDo("clear"))
        BY <1>3, <2>4
      <3>3. Due'[k] = Due[k]
        BY <1>1, <2>2, <3>1, <3>2, DueAsBefore
      <3> QED
        BY <2>4, <3>3 DEF op
    <2> QED
      BY <2>3, <2>4 DEF op
  <1> QED
    BY <1>2, <1>4, <1>5, <1>6, <1>7 DEF op

\* Nobody is about to replace the notice with a copy that this made stale.
LEMMA PutKeeps ==
    ASSUME Typed, Undisturbed, NEW a \in Actors, Put(a), faults = 0, faults' = 0
    PROVE  Undisturbed' /\ Announces
  <1> DEFINE op == Head(act[a].todo)
             rest == Tail(act[a].todo)
  <1>1. /\ act[a].at = "put" /\ previous' = TextsAfter(op, previous)
        /\ unannounced' = IF op.do = "clear" THEN unannounced \ {op.on} ELSE unannounced
        /\ config' = config /\ loaded' = loaded /\ phase' = phase /\ snap' = snap
        /\ \A b \in Actors : b # a => act'[b] = act[b]
        /\ act'[a].cmd = act[a].cmd /\ act'[a].todo = rest /\ act'[a].new = act[a].new
        /\ act'[a].at = IF rest = <<>> THEN ThenOf(act[a].cmd) ELSE "take"
    BY PutIs
  <1>2. /\ act[a] # Idle /\ op \in Ops /\ Lists(a, op)
        /\ act[a].todo \in Seq(Ops) /\ act[a].todo # <<>>
        /\ \/ op.do = "record" /\ a # Startup
           \/ /\ op.do \in {"mark", "reconcile"} /\ Concerns(op) /\ a # Startup
              /\ act[a].cmd \in {"save", "secret"}
              /\ act[a].cmd = "secret" => op.on = "web"
           \/ op.do = "clear" /\ Clears(op) /\ a # Startup
           \/ op.do = "clear" /\ op.on = "api" /\ op.keys = snap /\ a = Startup
    BY <1>1, HeadIs
  <1>3. \A k \in Keys : Same(k)
    <2>1. Coming' = Coming
      BY <1>1 DEF Coming
    <2> QED
      BY <2>1, PutDue DEF Same
  <1>4. unannounced' \subseteq unannounced /\ unannounced \subseteq {"web"}
    BY <1>1 DEF Typed, TypeOK
  <1>5. Announces
    <2>1. ASSUME NEW k \in Keys, Reader[k] \in unannounced \ unannounced'
          PROVE  Coming[k] = config[k] /\ Due[k] = Nothing
      <3>1. op.do = "clear" /\ op.on = "web" /\ Reader[k] = "web"
        BY <1>1, <1>4, <2>1
      <3>2. Clears(op)
        BY <1>2, <3>1 DEF Concerns
      <3>3. k \in op.keys /\ Coming[k] = config[k]
        BY <3>1, <3>2 DEF Clears, Fresh, Of
      <3> QED
        BY <3>1, <3>3, PutDue
    <2> QED
      BY <1>1, <1>3, <1>4, <2>1 DEF Announces
  <1> HIDE DEF op, rest
  <1>6. Plain
    BY <1>5 DEF Plain
  <1>7. ASSUME NEW b \in Actors
        PROVE  Right(act[b])'
    <2>1. CASE b # a
      <3>1. act'[b] = act[b] /\ Right(act[b])
        BY <1>1, <2>1 DEF Undisturbed
      <3>2. act[b].at = "bounce" => unannounced \subseteq unannounced'
        <4>1. CASE a = Startup
          BY <1>1, <1>2, <1>4, <4>1
        <4>2. CASE a # Startup
          BY <1>2, <2>1, <4>2, BouncerType DEF Undisturbed, OneAtWork
        <4> QED
          BY <4>1, <4>2
      <3>3. act[b].cmd \in {"save", "secret"} => Up("web")'
        BY <1>1, <3>1 DEF Right, SaveIsCurrent, Up
      <3> QED
        BY <1>1, <1>6, <3>1, <3>2, <3>3, Carry
    <2>2. CASE b = a
      <3>1. Right(act[a])
        BY DEF Undisturbed
      <3>2. act'[a].at \notin {"merge", "write", "bounce"}
        BY <1>1 DEF ThenOf
      <3>3. SaveIsCurrent(act[a])'
        BY <1>1, <3>1, <3>2 DEF Right, SaveIsCurrent, Up
      <3>4. TodoIsRight(act[a])'
        <4> DEFINE todo == act[a].todo
        <4>1. /\ \A i \in DOMAIN rest : i + 1 \in DOMAIN todo /\ rest[i] = todo[i + 1] /\ i \in Int
          BY <1>2, ListHeadTail DEF rest
        <4>2. TodoIsRight(act[a])
          BY <3>1 DEF Right
        <4>3. Orderly(todo) => Orderly(rest)
          <5> HIDE DEF todo
          <5>1. ASSUME Orderly(todo), NEW i \in DOMAIN rest, NEW j \in DOMAIN rest, rest[j].do = "mark"
                PROVE  /\ i < j => rest[i].do = "mark"
                       /\ rest[i].do = "mark" =>
                             \A k \in Keys : rest[i].texts[k] # Nothing /\ rest[j].texts[k] # Nothing
                                             => rest[i].texts[k] = rest[j].texts[k]
            <6>1. /\ i + 1 \in DOMAIN todo /\ rest[i] = todo[i + 1] /\ i \in Int
                  /\ j + 1 \in DOMAIN todo /\ rest[j] = todo[j + 1] /\ j \in Int
              BY <4>1
            <6>2. i < j => i + 1 < j + 1
              BY <6>1
            <6> QED
              BY <5>1, <6>1, <6>2 DEF Orderly
          <5> QED
            BY <5>1 DEF Orderly
        <4>4. Orderly(rest) => Orderly(act[a].todo)'
          BY <1>1 DEF Orderly
        <4>5. \A i \in DOMAIN todo : todo[i] \in Ops
          BY <1>2
        <4>6. \A o \in Ops : Clears(o) => Clears(o)'
          BY <1>6, PlainFresh DEF Clears, Ops
        <4>7. \A o : Concerns(o) => Concerns(o)'
          BY DEF Concerns
        <4> QED
          BY <1>1, <4>1, <4>2, <4>3, <4>4, <4>5, <4>6, <4>7 DEF TodoIsRight
      <3>5. AskedIsFresh(act[a])'
        BY <3>2 DEF AskedIsFresh
      <3> QED
        BY <2>2, <3>3, <3>4, <3>5 DEF Right
    <2> QED
      BY <2>1, <2>2
  <1>8. OneAtWork'
    BY <1>1, <1>2, WorkStays DEF Undisturbed
  <1>9. CopyIsCurrent'
    <2>1. \A b \in Actors : act'[b].at # "put"
      <3>1. act'[a].at # "put"
        BY <1>1 DEF ThenOf
      <3>2. \A b \in Actors : b # a => act[b].at # "put"
        BY <1>1 DEF Undisturbed, CopyIsCurrent, At
      <3> QED
        BY <1>1, <3>1, <3>2
    <2> QED
      BY <2>1 DEF CopyIsCurrent, At
  <1>10. StartIsRecorded'
    <2>1. SUFFICES ASSUME act'[Startup].at = "serve", NEW k \in snap
                   PROVE  previous'[k] = Nothing
      BY <1>1 DEF StartIsRecorded, At
    <2>2. k \in Keys /\ Reader[k] = "api"
      BY DEF Typed, TypeOK, Of
    <2>3. CASE a = Startup
      <3>1. op.do = "clear" /\ op.keys = snap
        BY <1>2, <2>3
      <3> QED
        BY <1>1, <2>2, <3>1 DEF TextsAfter, Cleared
    <2>4. CASE a # Startup
      <3>1. act[Startup].at = "serve"
        BY <1>1, <2>1, <2>4, Constants
      <3>2. previous[k] = Nothing
        BY <3>1 DEF Undisturbed, StartIsRecorded, At
      <3>3. phase["api"] = "loaded"
        BY <3>1, IdleIsFine DEF Typed, InPlace
      <3>4. act[a].cmd \in {"save", "secret"} => act[a].cmd = "secret"
        BY <2>4, <3>3 DEF Typed, InPlace, InApi, Up
      <3>5. op.do = "mark" => op.texts[k] = Nothing
        BY <1>2, <2>2, <3>4 DEF Concerns, Of
      <3>6. op.do \in {"mark", "reconcile", "clear", "record"}
        BY <1>2 DEF Ops
      <3> QED
        BY <1>1, <2>2, <3>2, <3>5, <3>6 DEF TextsAfter, Marked, Reconciled, Cleared
    <2> QED
      BY <2>3, <2>4
  <1>11. Kept'
    BY <1>6, PlainKeeps DEF Undisturbed
  <1> QED
    BY <1>5, <1>7, <1>8, <1>9, <1>10, <1>11 DEF Undisturbed

-----------------------------------------------------------------------------
(* config.ini is replaced: the step at which a save happens                  *)

\* What a save is then about to do to the notice.
LEMMA MarkFirstLists ==
    ASSUME NEW new \in Entries, NEW changes \in Entries,
           \A k \in Keys : new[k] = Nothing => changes[k] = Nothing
    PROVE  LET todo == MarkFirst(new, changes)
           IN  /\ todo \in Seq(Ops) /\ Orderly(todo)
               /\ \A i \in DOMAIN todo :
                     /\ Concerns(todo[i])
                     /\ \E k \in Of(todo[i].on) : new[k] # Nothing
                     /\ \A k \in Keys : todo[i].texts[k] # Nothing =>
                           todo[i].texts[k] = IF todo[i].do = "mark" THEN changes[k] ELSE new[k]
               /\ \A k \in Keys :
                     /\ changes[k] # Nothing =>
                           \E i \in DOMAIN todo : todo[i].do = "mark" /\ todo[i].texts[k] = changes[k]
                     /\ new[k] # Nothing =>
                           \E i \in DOMAIN todo : todo[i].do = "reconcile" /\ todo[i].texts[k] = new[k]
  <1> DEFINE todo == MarkFirst(new, changes)
             ms   == EachGiven(Marks(changes))
             bs   == EachGiven(Backs(new))
  <1>1. /\ Marks(changes) \in [Components -> Ops] /\ Backs(new) \in [Components -> Ops]
        /\ todo = ms \o bs /\ todo \in Seq(Ops)
    BY MarkFirstType
  <1>2. /\ ms \in Seq(Ops) /\ bs \in Seq(Ops)
        /\ \A i \in DOMAIN ms : \E c \in Components : ms[i] = Marks(changes)[c] /\ Given(Marks(changes)[c])
        /\ \A i \in DOMAIN bs : \E c \in Components : bs[i] = Backs(new)[c] /\ Given(Backs(new)[c])
        /\ \A c \in Components : Given(Marks(changes)[c]) => \E i \in DOMAIN ms : ms[i] = Marks(changes)[c]
        /\ \A c \in Components : Given(Backs(new)[c]) => \E i \in DOMAIN bs : bs[i] = Backs(new)[c]
    BY <1>1, EachGivenType
  <1> HIDE DEF todo, ms, bs
  <1>3. ASSUME NEW texts \in Entries, NEW c \in Components
        PROVE  /\ Only(c, texts) # NoTexts <=> \E k \in Of(c) : texts[k] # Nothing
               /\ \A k \in Keys : Only(c, texts)[k] = IF Reader[k] = c THEN texts[k] ELSE Nothing
    BY DEF Only, NoTexts, Of
  <1>4. ASSUME NEW c \in Components
        PROVE  /\ Marks(changes)[c].do = "mark" /\ Marks(changes)[c].on = c
               /\ Marks(changes)[c].texts = Only(c, changes)
               /\ Backs(new)[c].do = "reconcile" /\ Backs(new)[c].on = c
               /\ Backs(new)[c].texts = Only(c, new)
               /\ Given(Marks(changes)[c]) <=> \E k \in Of(c) : changes[k] # Nothing
               /\ Given(Backs(new)[c]) <=> \E k \in Of(c) : new[k] # Nothing
    BY <1>3 DEF Marks, Backs, Mark, Reconcile, Given
  <1>5. /\ \A i \in DOMAIN todo : (i \in DOMAIN ms /\ todo[i] = ms[i])
                \/ (i \notin DOMAIN ms /\ \E j \in DOMAIN bs : todo[i] = bs[j])
        /\ \A i \in DOMAIN ms : i \in DOMAIN todo /\ todo[i] = ms[i]
        /\ \A j \in DOMAIN bs : \E i \in DOMAIN todo : todo[i] = bs[j]
        /\ \A i \in DOMAIN todo : \A j \in DOMAIN ms : i < j => i \in DOMAIN ms
    <2>1. /\ Len(todo) = Len(ms) + Len(bs) /\ Len(ms) \in Nat /\ Len(bs) \in Nat
          /\ \A i \in 1 .. Len(ms) : todo[i] = ms[i]
          /\ \A i \in 1 .. Len(bs) : todo[Len(ms) + i] = bs[i]
          /\ DOMAIN todo = 1 .. Len(todo) /\ DOMAIN ms = 1 .. Len(ms) /\ DOMAIN bs = 1 .. Len(bs)
      BY <1>1, <1>2, ConcatProperties
    <2>2. ASSUME NEW i \in DOMAIN todo
          PROVE  (i \in DOMAIN ms /\ todo[i] = ms[i])
                 \/ (i \notin DOMAIN ms /\ \E j \in DOMAIN bs : todo[i] = bs[j])
      <3>1. CASE i <= Len(ms)
        BY <2>1, <3>1
      <3>2. CASE ~(i <= Len(ms))
        <4>1. i - Len(ms) \in DOMAIN bs /\ Len(ms) + (i - Len(ms)) = i
          BY <2>1, <3>2
        <4>2. todo[i] = bs[i - Len(ms)]
          BY <2>1, <4>1
        <4> QED
          BY <2>1, <3>2, <4>1, <4>2
      <3> QED
        BY <3>1, <3>2
    <2>3. ASSUME NEW j \in DOMAIN bs
          PROVE  \E i \in DOMAIN todo : todo[i] = bs[j]
      <3>1. Len(ms) + j \in DOMAIN todo
        BY <2>1
      <3> QED
        BY <2>1, <3>1
    <2>4. \A i \in DOMAIN ms : i \in DOMAIN todo /\ todo[i] = ms[i]
      BY <2>1
    <2>5. \A i \in DOMAIN todo : \A j \in DOMAIN ms : i < j => i \in DOMAIN ms
      BY <2>1
    <2> QED
      BY <2>2, <2>3, <2>4, <2>5
  <1>6. ASSUME NEW i \in DOMAIN todo
        PROVE  \/ /\ i \in DOMAIN ms /\ todo[i].do = "mark"
                  /\ \E c \in Components : todo[i] = Marks(changes)[c] /\ Given(Marks(changes)[c])
               \/ /\ i \notin DOMAIN ms /\ todo[i].do = "reconcile"
                  /\ \E c \in Components : todo[i] = Backs(new)[c] /\ Given(Backs(new)[c])
    <2>1. CASE i \in DOMAIN ms
      <3>1. PICK c \in Components : ms[i] = Marks(changes)[c] /\ Given(Marks(changes)[c])
        BY <1>2, <2>1
      <3>2. todo[i] = ms[i] /\ Marks(changes)[c].do = "mark"
        BY <1>4, <1>5, <2>1
      <3> QED
        BY <2>1, <3>1, <3>2
    <2>2. CASE i \notin DOMAIN ms
      <3>1. PICK j \in DOMAIN bs : todo[i] = bs[j]
        BY <1>5, <2>2
      <3>2. PICK c \in Components : bs[j] = Backs(new)[c] /\ Given(Backs(new)[c])
        BY <1>2
      <3>3. Backs(new)[c].do = "reconcile"
        BY <1>4
      <3> QED
        BY <2>2, <3>1, <3>2, <3>3
    <2> QED
      BY <2>1, <2>2
  <1>7. ASSUME NEW i \in DOMAIN todo
        PROVE  /\ todo[i].do \in {"mark", "reconcile"} /\ todo[i].on \in Components
               /\ todo[i].texts = Only(todo[i].on, IF todo[i].do = "mark" THEN changes ELSE new)
               /\ \E k \in Of(todo[i].on) : new[k] # Nothing
    <2>1. ASSUME NEW c \in Components, todo[i] = Marks(changes)[c], Given(Marks(changes)[c])
          PROVE  /\ todo[i].do = "mark" /\ todo[i].on = c /\ todo[i].texts = Only(c, changes)
                 /\ \E k \in Of(c) : new[k] # Nothing
      BY <1>4, <2>1, Constants
    <2>2. ASSUME NEW c \in Components, todo[i] = Backs(new)[c], Given(Backs(new)[c])
          PROVE  /\ todo[i].do = "reconcile" /\ todo[i].on = c /\ todo[i].texts = Only(c, new)
                 /\ \E k \in Of(c) : new[k] # Nothing
      BY <1>4, <2>2
    <2> QED
      BY <1>6, <2>1, <2>2
  <1>8. ASSUME NEW i \in DOMAIN todo, NEW k \in Keys, todo[i].texts[k] # Nothing
        PROVE  /\ k \in Of(todo[i].on)
               /\ todo[i].texts[k] = IF todo[i].do = "mark" THEN changes[k] ELSE new[k]
    <2>1. PICK texts \in {changes, new} :
             /\ todo[i].texts = Only(todo[i].on, texts)
             /\ texts = IF todo[i].do = "mark" THEN changes ELSE new
      BY <1>7
    <2> QED
      BY <1>3, <1>7, <1>8, <2>1 DEF Of
  <1>9. \A i \in DOMAIN todo : Concerns(todo[i])
    BY <1>7, <1>8 DEF Concerns
  <1>10. Orderly(todo)
    <2>1. ASSUME NEW i \in DOMAIN todo, NEW j \in DOMAIN todo, todo[j].do = "mark"
          PROVE  /\ i < j => todo[i].do = "mark"
                 /\ todo[i].do = "mark" =>
                       \A k \in Keys : todo[i].texts[k] # Nothing /\ todo[j].texts[k] # Nothing
                                       => todo[i].texts[k] = todo[j].texts[k]
      <3>1. i < j => todo[i].do = "mark"
        BY <1>5, <1>6, <2>1
      <3>2. ASSUME todo[i].do = "mark", NEW k \in Keys, todo[i].texts[k] # Nothing, todo[j].texts[k] # Nothing
            PROVE  todo[i].texts[k] = todo[j].texts[k]
        BY <1>8, <2>1, <3>2
      <3> QED
        BY <3>1, <3>2
    <2> QED
      BY <2>1 DEF Orderly
  <1>11. ASSUME NEW k \in Keys
         PROVE  /\ changes[k] # Nothing =>
                      \E i \in DOMAIN todo : todo[i].do = "mark" /\ todo[i].texts[k] = changes[k]
                /\ new[k] # Nothing =>
                      \E i \in DOMAIN todo : todo[i].do = "reconcile" /\ todo[i].texts[k] = new[k]
    <2>1. PICK c \in Components : Reader[k] = c /\ k \in Of(c)
      BY Constants DEF Of
    <2>2. ASSUME changes[k] # Nothing
          PROVE  \E i \in DOMAIN todo : todo[i].do = "mark" /\ todo[i].texts[k] = changes[k]
      <3>1. PICK i \in DOMAIN ms : ms[i] = Marks(changes)[c]
        BY <1>2, <1>4, <2>1, <2>2
      <3>2. i \in DOMAIN todo /\ todo[i].do = "mark" /\ todo[i].texts = Only(c, changes)
        BY <1>4, <1>5, <3>1
      <3> QED
        BY <1>3, <2>1, <3>2
    <2>3. ASSUME new[k] # Nothing
          PROVE  \E i \in DOMAIN todo : todo[i].do = "reconcile" /\ todo[i].texts[k] = new[k]
      <3>1. PICK j \in DOMAIN bs : bs[j] = Backs(new)[c]
        BY <1>2, <1>4, <2>1, <2>3
      <3>2. PICK i \in DOMAIN todo : todo[i] = bs[j]
        BY <1>5
      <3>3. todo[i].do = "reconcile" /\ todo[i].texts = Only(c, new)
        BY <1>4, <3>1, <3>2
      <3> QED
        BY <1>3, <2>1, <3>3
    <2> QED
      BY <2>2, <2>3
  <1>12. \A i \in DOMAIN todo :
            /\ Concerns(todo[i])
            /\ \E k \in Of(todo[i].on) : new[k] # Nothing
            /\ \A k \in Keys : todo[i].texts[k] # Nothing =>
                  todo[i].texts[k] = IF todo[i].do = "mark" THEN changes[k] ELSE new[k]
    BY <1>7, <1>8, <1>9
  <1> QED
    BY <1>1, <1>10, <1>11, <1>12 DEF todo

\* What is on record, and what a save adds to it.
LEMMA SaveWritesDue ==
    ASSUME Typed, Undisturbed, NEW a \in Actors, a # Startup, act[a] # Idle, act[a].todo = <<>>,
           NEW new \in Entries, NEW changes \in Entries,
           act'[a].todo = MarkFirst(new, changes),
           \A k \in Keys : new[k] = Nothing => changes[k] = Nothing,
           \A b \in Actors : b # a => act'[b] = act[b],
           UNCHANGED <<phase, snap, previous>>, NEW k \in Keys
    PROVE  LET other == \/ \E op \in ToDo("clear") : k \in op.keys
                        \/ phase["api"] = "down" /\ Reader[k] = "api"
                        \/ k \in snap
               marked == IF previous[k] # Nothing THEN previous[k] ELSE changes[k]
           IN  /\ Due[k] = IF other THEN Nothing ELSE previous[k]
               /\ Due'[k] = IF other \/ new[k] = marked THEN Nothing ELSE marked
               /\ other => Reader[k] = "api" /\ (act[a].cmd \notin ApiCmds \/ ~Up("api"))
  <1> DEFINE other == \/ \E op \in ToDo("clear") : k \in op.keys
                      \/ phase["api"] = "down" /\ Reader[k] = "api"
                      \/ k \in snap
             marked == IF previous[k] # Nothing THEN previous[k] ELSE changes[k]
             todo == MarkFirst(new, changes)
  <1>1. /\ todo \in Seq(Ops) /\ Orderly(todo)
        /\ \A i \in DOMAIN todo :
              /\ todo[i].do \in {"mark", "reconcile"}
              /\ todo[i].texts[k] # Nothing =>
                    todo[i].texts[k] = IF todo[i].do = "mark" THEN changes[k] ELSE new[k]
        /\ changes[k] # Nothing =>
              \E i \in DOMAIN todo : todo[i].do = "mark" /\ todo[i].texts[k] = changes[k]
        /\ new[k] # Nothing =>
              \E i \in DOMAIN todo : todo[i].do = "reconcile" /\ todo[i].texts[k] = new[k]
    BY MarkFirstLists DEF Concerns
  <1>2. \A op : Lists(a, op)' <=> \E i \in DOMAIN todo : todo[i] = op
    BY DEF Lists
  <1> HIDE DEF todo
  <1>3. \A op : ~Lists(a, op)
    BY DEF Lists
  <1>4. \A b \in Actors : b # a => \A op : Lists(b, op) <=> Lists(b, op)'
    BY DEF Lists
  <1>5. \A b \in Actors : \A op : Lists(b, op) => op.do = "clear" /\ op.keys = snap
                 /\ act[a].cmd \notin ApiCmds /\ phase["api"] = "loaded"
    BY <1>3, OthersList
  <1>6. ToDo("mark") = {} /\ ToDo("reconcile") = {}
    BY <1>5, ToDoIs
  <1>7. ToDo("clear")' = ToDo("clear")
    BY <1>1, <1>2, <1>3, <1>4, SameToDo
  <1>8. /\ \A op : op \in ToDo("mark")' <=> op.do = "mark" /\ \E i \in DOMAIN todo : todo[i] = op
        /\ \A op : op \in ToDo("reconcile")' <=> op.do = "reconcile" /\ \E i \in DOMAIN todo : todo[i] = op
    BY <1>2, <1>4, <1>5, ToDoIs
  <1>9. MarkedAs(k) = previous[k]
    BY <1>6, NotMarked
  <1>10. MarkedAs(k)' = marked
    <2>1. \A op \in ToDo("mark")' : op.texts[k] # Nothing => op.texts[k] = changes[k]
      BY <1>1, <1>8
    <2>2. CASE previous[k] # Nothing
      BY <2>2, MarkedAsIs
    <2>3. CASE previous[k] = Nothing /\ changes[k] # Nothing
      <3>1. PICK op \in ToDo("mark")' : op.texts[k] = changes[k]
        BY <1>1, <1>8, <2>3
      <3> QED
        BY <2>1, <2>3, <3>1, MarkedAsIs
    <2>4. CASE previous[k] = Nothing /\ changes[k] = Nothing
      BY <2>1, <2>4, NotMarked
    <2> QED
      BY <2>2, <2>3, <2>4
  <1>11. Due[k] = IF other THEN Nothing ELSE previous[k]
    <2>1. Retired(k) <=> other
      BY <1>6 DEF Retired
    <2> QED
      BY <1>9, <2>1, DueIs
  <1>12. Due'[k] = IF other \/ new[k] = marked THEN Nothing ELSE marked
    <2>1. Retired(k)' <=> other \/ \E op \in ToDo("reconcile")' : op.texts[k] = marked
      BY <1>7, <1>10 DEF Retired
    <2>2. marked # Nothing => (new[k] = marked <=> \E op \in ToDo("reconcile")' : op.texts[k] = marked)
      BY <1>1, <1>8
    <2> HIDE DEF other, marked
    <2> QED
      BY <1>10, <2>1, <2>2, DueIs
  <1>13. other => Reader[k] = "api" /\ (act[a].cmd \notin ApiCmds \/ ~Up("api"))
    <2>1. (\A j \in snap : Reader[j] = "api" /\ ~Up("api")) /\ (phase["api"] = "down" => ~Up("api"))
      BY DEF Typed, TypeOK, InPlace, Of, Up
    <2>2. \A op \in ToDo("clear") : op.keys = snap
      BY <1>5, ToDoIs
    <2>3. other => k \in snap \/ (phase["api"] = "down" /\ Reader[k] = "api")
      BY <2>2
    <2> HIDE DEF other
    <2> QED
      BY <2>1, <2>3
  <1> QED
    BY <1>11, <1>12, <1>13

LEMMA SaveWritesKeeps ==
    ASSUME Typed, Undisturbed, NEW a \in Actors, SaveWrites(a)
    PROVE  Undisturbed' /\ IsSave
  <1> DEFINE new == act[a].new
             always == Cmd(a, "secret")
             changes == Detail(act[a].read, new, always)
             todo == MarkFirst(new, changes)
  <1>1. act[a] \in Doings /\ Placed(a, act[a]) /\ act[a].at = "write" /\ act[a] # Idle
    BY DoesType, IdleIsFine DEF SaveWrites, At
  <1>2. act[a].cmd \in {"save", "secret"} /\ act[a].todo = <<>> /\ a # Startup /\ act[a].cmd \in CmdsOf(a)
    BY <1>1, Constants DEF Placed, CmdsOf, OfOperators, PlacesOf
  <1>3. SaveIsCurrent(act[a])
    BY DEF Undisturbed, Right
  <1>4. /\ Up("web") /\ new \in Options /\ new \in Updates /\ new \in Entries
        /\ act[a].cmd = "secret" => \A k \in Of("api") : new[k] = Nothing
        /\ act[a].read = config /\ act[a].text = Written(config, new)
    BY <1>1, <1>2, <1>3, ActivationAssumption, Constants DEF SaveIsCurrent
  <1>5. always \in BOOLEAN
    BY DEF Cmd
  <1>6. /\ changes \in Entries
        /\ \A k \in Keys : changes[k] = IF new[k] # Nothing /\ (always \/ Changes(k, config[k], new[k]))
                                        THEN Shown(k, config[k]) ELSE Nothing
    <2>1. changes \in Entries
      BY <1>1, DetailType DEF Doings
    <2> QED
      BY <1>4, <2>1 DEF Detail
  <1>7. /\ config' = Written(config, new)
        /\ UNCHANGED <<loaded, phase, snap, previous, attempt, unannounced>>
    BY <1>4 DEF SaveWrites, file, services
  <1>8. act' = [act EXCEPT ![a] = Works(act[a], todo, "idle")]
    BY DEF SaveWrites
  <1>9. \A k \in Keys : new[k] = Nothing => changes[k] = Nothing
    BY <1>6
  <1> HIDE DEF changes
  <1>10. /\ todo \in Seq(Ops) /\ Orderly(todo)
         /\ \A i \in DOMAIN todo : Concerns(todo[i]) /\ \E k \in Of(todo[i].on) : new[k] # Nothing
         /\ \A i \in DOMAIN todo : todo[i].on \in Components
    <2>1. new \in Entries /\ changes \in Entries
      BY <1>4, <1>6
    <2> HIDE DEF new
    <2>2. /\ todo \in Seq(Ops) /\ Orderly(todo)
          /\ \A i \in DOMAIN todo : Concerns(todo[i]) /\ \E k \in Of(todo[i].on) : new[k] # Nothing
      BY <1>9, <2>1, MarkFirstLists
    <2>3. \A i \in DOMAIN todo : todo[i].on \in Components
      <3> HIDE DEF todo
      <3>1. \A i \in DOMAIN todo : todo[i] \in Ops
        BY <2>2
      <3> QED
        BY <3>1 DEF Ops
    <2> QED
      BY <2>2, <2>3
  <1>11. /\ act'[a].cmd = act[a].cmd /\ act'[a].todo = todo /\ act'[a].new = new
         /\ act'[a].at \in {"idle", "take"}
         /\ \A b \in Actors : b # a => act'[b] = act[b]
    <2>1. "idle" \in Places
      BY DEF Places
    <2>2. act'[a] = Works(act[a], todo, "idle") /\ \A b \in Actors : b # a => act'[b] = act[b]
      BY <1>8 DEF Typed, TypeOK
    <2> HIDE DEF todo
    <2> QED
      BY <1>1, <1>10, <2>1, <2>2, WorksType
  <1>12. ASSUME NEW k \in Keys
         PROVE  SavedAs(k, new, always)
    <2> DEFINE other == \/ \E op \in ToDo("clear") : k \in op.keys
                        \/ phase["api"] = "down" /\ Reader[k] = "api"
                        \/ k \in snap
               marked == IF previous[k] # Nothing THEN previous[k] ELSE changes[k]
    <2>1. /\ Due[k] = IF other THEN Nothing ELSE previous[k]
          /\ Due'[k] = IF other \/ new[k] = marked THEN Nothing ELSE marked
          /\ other => Reader[k] = "api" /\ (act[a].cmd \notin ApiCmds \/ ~Up("api"))
      BY <1>1, <1>2, <1>4, <1>6, <1>7, <1>9, <1>11, SaveWritesDue
    <2> HIDE DEF other
    <2>2. act[a].cmd = "save" => Up("api")
      BY <1>2 DEF Typed, InPlace, InApi
    <2>3. other => new[k] = Nothing /\ changes[k] = Nothing
      BY <1>2, <1>4, <1>9, <2>1, <2>2 DEF Of, ApiCmds, Up
    <2>4. Coming'[k] = Coming[k]
      <3>1. config'[k] = IF new[k] = Nothing THEN config[k] ELSE new[k]
        BY <1>7 DEF Written
      <3>2. Reader[k] = "api" \/ Reader[k] = "web"
        BY Constants DEF Components
      <3>3. new[k] # Nothing => Up(Reader[k])
        BY <1>2, <1>4, <2>2, <3>2 DEF Of
      <3> QED
        BY <1>7, <3>1, <3>3 DEF Coming, Up
    <2>5. config'[k] = IF new[k] = Nothing THEN config[k] ELSE new[k]
      BY <1>7 DEF Written
    <2> QED
      BY <1>6, <2>1, <2>3, <2>4, <2>5 DEF SavedAs
  <1>13. IsSave
    <2>1. Promise!Save(new, always)
      BY <1>7, <1>12, SavePromise
    <2> QED
      BY <1>4, <1>5, <1>7, <2>1 DEF IsSave
  <1>14. ASSUME NEW b \in Actors
         PROVE  Right(act[b])'
    <2>1. CASE b = a
      <3>1. SaveIsCurrent(act[a])'
        BY <1>4, <1>7, <1>11 DEF SaveIsCurrent, Up
      <3>2. TodoIsRight(act[a])'
        <4>1. act[a].cmd = "secret" => \A i \in DOMAIN todo : todo[i].on = "web"
          BY <1>4, <1>10 DEF Components
        <4>2. Orderly(act[a].todo)'
          BY <1>10, <1>11 DEF Orderly
        <4>3. \A op : Concerns(op) => Concerns(op)'
          BY DEF Concerns
        <4>4. \A i \in DOMAIN act'[a].todo :
                 /\ Concerns(act'[a].todo[i])
                 /\ act[a].cmd = "secret" => act'[a].todo[i].on = "web"
          BY <1>10, <1>11, <4>1
        <4> QED
          BY <1>2, <1>11, <4>2, <4>3, <4>4 DEF TodoIsRight
      <3>3. AskedIsFresh(act[a])'
        BY <1>11 DEF AskedIsFresh
      <3> QED
        BY <2>1, <3>1, <3>2, <3>3 DEF Right
    <2>2. CASE b # a /\ act[b] = Idle
      BY <1>11, <2>2, IdleIsRight
    <2>3. CASE b = Startup /\ act[b] # Idle
      <3>1. act'[b] = act[b] /\ Right(act[b]) /\ act[b].cmd = "startup" /\ act[b].at # "bounce"
        BY <1>2, <1>11, <2>3, DoesType, Constants DEF Undisturbed, Placed, CmdsOf, PlacesOf
      <3> QED
        BY <1>7, <3>1 DEF Right, SaveIsCurrent, TodoIsRight, AskedIsFresh
    <2>4. b # a => act[b] = Idle \/ b = Startup
      BY <1>1, <1>2 DEF Undisturbed, OneAtWork
    <2> QED
      BY <2>1, <2>2, <2>3, <2>4
  <1>15. OneAtWork'
    BY <1>1, <1>11, WorkStays DEF Undisturbed
  <1>16. CopyIsCurrent'
    BY <1>7, <1>11, CopyStays DEF Undisturbed, file
  <1>17. StartIsRecorded'
    BY <1>2, <1>7, <1>11, StartStays, Constants DEF Undisturbed
  <1>18. Kept'
    BY <1>13, SaveKeeps DEF Undisturbed
  <1> QED
    BY <1>13, <1>14, <1>15, <1>16, <1>17, <1>18 DEF Undisturbed

-----------------------------------------------------------------------------
(* Restarts and starts                                                       *)

\* One actor moves, the notice stays as it is, and what the step comes to is known.
LEMMA PlainStep ==
    ASSUME Typed, Undisturbed, Plain, NEW a \in Actors, Right(act[a])',
           \A b \in Actors : b # a => act'[b] \in {act[b], Idle},
           \A b \in Actors : b # a /\ act'[b] # Idle /\ act[b].cmd \in {"save", "secret"} => Up("web")',
           \A b \in Actors \ {Startup} : act'[b] # Idle => act[b] # Idle,
           \A b \in Actors : act'[b].at = "put" => act'[b] = act[b],
           a # Startup /\ act'[Startup] # Idle => snap' = snap,
           act'[Startup].at = "serve" => act[Startup].at = "serve" /\ snap' = snap,
           unannounced \subseteq unannounced', UNCHANGED file
    PROVE  Undisturbed'
  <1>1. ASSUME NEW b \in Actors
        PROVE  Right(act[b])'
    <2>1. CASE b = a
      BY <2>1
    <2>2. CASE b # a
      BY <2>2, Carry
    <2> QED
      BY <2>1, <2>2
  <1>2. OneAtWork'
    BY WorkStays DEF Undisturbed
  <1>3. CopyIsCurrent'
    BY CopyStays DEF Undisturbed
  <1>4. StartIsRecorded'
    BY DEF Undisturbed, StartIsRecorded, At, file
  <1>5. Kept'
    BY PlainKeeps DEF Undisturbed
  <1> QED
    BY <1>1, <1>2, <1>3, <1>4, <1>5 DEF Undisturbed

\* Who is at work is alone with the start of the API.
LEMMA Alone ==
    ASSUME Typed, Undisturbed, NEW a \in Actors \ {Startup}, act[a] # Idle, NEW b \in Actors, b # a
    PROVE  /\ b # Startup => act[b] = Idle
           /\ act[b].cmd \notin {"save", "secret"} /\ act[b].at # "bounce"
           /\ b = Startup => act[b].cmd \in {"none", "startup"} /\ (act[b].cmd = "none" => act[b] = Idle)
  <1>1. b # Startup => act[b] = Idle
    BY DEF Undisturbed, OneAtWork
  <1>2. b = Startup => /\ act[b].cmd \in {"none", "startup"} /\ (act[b].cmd = "none" => act[b] = Idle)
                       /\ act[b].at # "bounce"
    BY DoesType, Constants DEF Placed, CmdsOf, PlacesOf
  <1> QED
    BY <1>1, <1>2, IdleIsFine

\* A list that says nothing but what was recorded is right for who restarts.
LEMMA RestarterIsRight ==
    ASSUME NEW a, act'[a].cmd \in {"ops", "bounce", "timer"},
           \A i \in DOMAIN act'[a].todo :
              \/ act'[a].todo[i].do = "record"
              \/ \E c \in Components : act'[a].todo[i] = Clear(c, Of(c)) /\ Fresh(c)',
           AskedIsFresh(act[a])'
    PROVE  Right(act[a])'
  <1>1. \A i \in DOMAIN act'[a].todo : act'[a].todo[i].do = "record" \/ Clears(act[a].todo[i])'
    <2>1. \A c \in Components : /\ Clear(c, Of(c)).do = "clear" /\ Clear(c, Of(c)).on = c
                               /\ Clear(c, Of(c)).keys = Of(c)
      BY DEF Clear
    <2> QED
      BY <2>1 DEF Clears, Fresh
  <1> QED
    BY <1>1 DEF Right, SaveIsCurrent, TodoIsRight

\* The API dies: its options are loaded anew, and what its entries said with them.
LEMMA ApiDiesIs ==
    ASSUME Typed, NEW caller \in Actors, NEW does, ApiDies(caller, does),
           UNCHANGED <<config, previous, unannounced>>,
           \A b \in Actors : \A op : op.do \in {"mark", "reconcile", "clear"} =>
              /\ Lists(b, op)' => Lists(b, op)
              /\ Lists(b, op) => Lists(b, op)' \/ (op.do = "clear" /\ op.keys = snap)
    PROVE  IsRestart("api")
  <1>1. /\ phase'["web"] = phase["web"] /\ phase'["api"] = "down" /\ snap' = {} /\ loaded' = loaded
        /\ snap \subseteq Of("api")
    BY DEF ApiDies, Typed, TypeOK, Components
  <1>2. ASSUME NEW k \in Of("api")
        PROVE  k \in Keys /\ Reader[k] = "api" /\ Restarted(k)
    <2>1. k \in Keys /\ Reader[k] = "api"
      BY DEF Of
    <2>2. Due'[k] = Nothing
      BY <1>1, <2>1, DueIs DEF Retired
    <2>3. Coming'[k] = config[k]
      BY <1>1, <2>1 DEF Coming
    <2> QED
      BY <2>1, <2>2, <2>3 DEF Restarted
  <1>3. ASSUME NEW k \in Of("web")
        PROVE  k \in Keys /\ Reader[k] = "web" /\ Same(k)
    <2>1. k \in Keys /\ Reader[k] = "web" /\ k \notin snap
      BY <1>1 DEF Of
    <2>2. ToDo("mark")' = ToDo("mark") /\ ToDo("reconcile")' = ToDo("reconcile")
      <3>1. \A do \in {"mark", "reconcile"} : \A b \in Actors : \A op :
               op.do = do => (Lists(b, op) <=> Lists(b, op)')
        OBVIOUS
      <3> QED
        BY <3>1, SameToDo
    <2>3. \A op : k \in op.keys => (op \in ToDo("clear")' <=> op \in ToDo("clear"))
      BY <2>1, ToDoIs
    <2>4. MarkedAs(k)' = MarkedAs(k)
      BY <2>2 DEF MarkedAs
    <2>5. Retired(k)' <=> Retired(k)
      BY <1>1, <2>1, <2>2, <2>3, <2>4 DEF Retired
    <2>6. Due'[k] = Due[k]
      BY <2>1, <2>4, <2>5, DueIs
    <2>7. Coming'[k] = Coming[k]
      BY <1>1, <2>1 DEF Coming
    <2> QED
      BY <2>1, <2>6, <2>7 DEF Same
  <1>4. \A k \in Keys : k \in Of("api") \/ k \in Of("web")
    BY Constants DEF Of, Components
  <1> QED
    BY <1>2, <1>3, <1>4 DEF IsRestart

\* When who is at work has nothing to record, the death of the API is a restart.
LEMMA ApiDiesAlone ==
    ASSUME Typed, Undisturbed, NEW a \in Actors \ {Startup}, act[a] # Idle, act[a].todo = <<>>,
           NEW does, ~InApi(a) => does.todo = <<>>, ApiDies(a, does),
           UNCHANGED <<config, file, unannounced>>
    PROVE  IsRestart("api")
  <1>1. \A b \in Actors : act'[b] = IF InApi(b) THEN Idle ELSE IF b = a THEN does ELSE act[b]
    BY DEF ApiDies
  <1>2. ASSUME NEW b \in Actors, NEW op
        PROVE  /\ ~Lists(b, op)'
               /\ Lists(b, op) => op.do = "clear" /\ op.keys = snap
    <2>1. Lists(b, op) => op.do = "clear" /\ op.keys = snap
      BY OthersList DEF Lists
    <2>2. act'[b].todo = <<>>
      <3>1. CASE InApi(b)
        BY <1>1, <3>1, IdleIsFine
      <3>2. CASE ~InApi(b) /\ b = a
        BY <1>1, <3>2
      <3>3. CASE ~InApi(b) /\ b # a
        BY <1>1, <3>3, Alone, IdleIsFine DEF InApi
      <3> QED
        BY <3>1, <3>2, <3>3
    <2> QED
      BY <2>1, <2>2 DEF Lists
  <1> QED
    BY <1>2, ApiDiesIs DEF file

\* The web process is replaced, and nothing is to be done to the notice but
\* what this adds.
LEMMA WebRestartsIs ==
    ASSUME Typed, NEW a \in Actors, NEW does, WebRestarts(a, does), UNCHANGED <<config, file>>,
           \A op : op.do \in {"mark", "reconcile"} => ~Lists(a, op) /\ ~Lists(a, op)',
           \A op : op.do = "clear" /\ Lists(a, op) => Lists(a, op)',
           \A op : op.do = "clear" /\ Lists(a, op)' => Lists(a, op) \/ op.keys = Of("web")
    PROVE  /\ \A k \in Of("web") : Coming'[k] = config[k]
           /\ \A k \in Of("api") : Same(k)
           /\ (\A op : op.do = "clear" /\ Lists(a, op)' => Lists(a, op)) =>
                 \A k \in Of("web") : Due'[k] = Due[k]
           /\ (\E op : op.do = "clear" /\ op.keys = Of("web") /\ Lists(a, op)') =>
                 \A k \in Of("web") : Due'[k] = Nothing
  <1>1. /\ phase'["web"] = "starting" /\ phase'["api"] = phase["api"] /\ snap' = snap /\ loaded' = loaded
        /\ previous' = previous /\ config' = config
    BY DEF WebRestarts, Typed, TypeOK, Components, file
  <1>2. \A b \in Actors : act'[b] = IF b = a THEN does ELSE act[b]
    BY DEF WebRestarts, Typed, TypeOK
  <1>3. \A b \in Actors : b # a => \A op : Lists(b, op) <=> Lists(b, op)'
    BY <1>2 DEF Lists
  <1>4. ToDo("mark")' = ToDo("mark") /\ ToDo("reconcile")' = ToDo("reconcile")
    <2>1. \A do \in {"mark", "reconcile"} : \A b \in Actors : \A op :
             op.do = do => (Lists(b, op) <=> Lists(b, op)')
      BY <1>3
    <2> QED
      BY <2>1, SameToDo
  <1>5. ASSUME NEW k \in Keys, \A op : k \in op.keys => (op \in ToDo("clear")' <=> op \in ToDo("clear"))
        PROVE  Due'[k] = Due[k]
    <2>1. MarkedAs(k)' = MarkedAs(k)
      BY <1>1, <1>4 DEF MarkedAs
    <2>2. Retired(k)' <=> Retired(k)
      BY <1>1, <1>4, <1>5, <2>1 DEF Retired
    <2> QED
      BY <2>1, <2>2, DueIs
  <1>6. ASSUME NEW k \in Of("web")
        PROVE  Coming'[k] = config[k]
    BY <1>1 DEF Coming, Of
  <1>7. ASSUME NEW k \in Of("api")
        PROVE  Same(k)
    <2>1. k \in Keys /\ Reader[k] = "api" /\ k \notin Of("web")
      BY DEF Of
    <2>2. \A op : k \in op.keys => (op \in ToDo("clear")' <=> op \in ToDo("clear"))
      BY <1>3, <2>1, ToDoIs
    <2> QED
      BY <1>1, <1>5, <2>1, <2>2 DEF Same, Coming
  <1>8. ASSUME \A op : op.do = "clear" /\ Lists(a, op)' => Lists(a, op), NEW k \in Of("web")
        PROVE  Due'[k] = Due[k]
    <2>1. \A op : op \in ToDo("clear")' <=> op \in ToDo("clear")
      BY <1>3, <1>8, ToDoIs
    <2> QED
      BY <1>5, <2>1 DEF Of
  <1>9. ASSUME NEW op, op.do = "clear", op.keys = Of("web"), Lists(a, op)', NEW k \in Of("web")
        PROVE  Due'[k] = Nothing
    <2>1. op \in ToDo("clear")'
      BY <1>9, ToDoIs
    <2>2. Retired(k)'
      BY <1>9, <2>1 DEF Retired
    <2> QED
      BY <2>2, DueIs DEF Of
  <1> QED
    BY <1>6, <1>7, <1>8, <1>9

LEMMA RequestSchedulesKeeps ==
    ASSUME Typed, Undisturbed, NEW a \in Actors, RequestSchedules(a)
    PROVE  Undisturbed' /\ Stutter
  <1> DEFINE does == [Idle EXCEPT !.cmd = "timer", !.at = "restart", !.targets = act[a].targets]
  <1>1. act[a] \in Doings /\ Placed(a, act[a]) /\ act[a].at = "schedule" /\ act[a] # Idle
    BY DoesType, IdleIsFine DEF RequestSchedules, At
  <1>2. a \in Operators /\ a # Timer /\ a # Startup /\ act[a].todo = <<>> /\ act[Timer] = Idle
    BY <1>1, Constants DEF Placed, CmdsOf, PlacesOf, OfOperators, Actors, RequestSchedules
  <1>3. does.todo = <<>> /\ does.cmd = "timer" /\ does.at = "restart"
    BY DEF Idle
  <1>4. act' = [act EXCEPT ![a] = Idle, ![Timer] = does]
        /\ UNCHANGED <<config, loaded, phase, snap, previous, attempt, unannounced>>
    BY DEF RequestSchedules, file, services
  <1> HIDE DEF does
  <1>5. \A b \in Actors : act'[b] = IF b = a THEN Idle ELSE IF b = Timer THEN does ELSE act[b]
    BY <1>2, <1>4 DEF Typed, TypeOK
  <1>6. \A b \in Actors : \A op : Lists(b, op) <=> Lists(b, op)'
    BY <1>2, <1>3, <1>5, IdleIsFine DEF Lists
  <1>7. Stutter
    <2>1. \A do \in {"mark", "reconcile", "clear"} : ToDo(do)' = ToDo(do)
      BY <1>6, SameToDo
    <2>2. \A k \in Keys : Due'[k] = Due[k]
      BY <1>4, <2>1, DueSame
    <2>3. Coming' = Coming
      BY <1>4 DEF Coming
    <2> QED
      BY <1>4, <2>2, <2>3 DEF Stutter, Same
  <1>8. ASSUME NEW b \in Actors
        PROVE  Right(act[b])'
    <2>1. CASE b = Timer
      <3>1. act'[b].cmd = "timer" /\ act'[b].todo = <<>> /\ act'[b].at = "restart"
        BY <1>2, <1>3, <1>5, <2>1
      <3> QED
        BY <3>1 DEF Right, SaveIsCurrent, TodoIsRight, AskedIsFresh
    <2>2. CASE b # Timer
      <3>1. act'[b] \in {act[b], Idle}
        BY <1>5, <2>2
      <3>2. act'[b] # Idle => act[b].cmd \notin {"save", "secret"}
        BY <1>1, <1>2, <1>5, <2>2, Alone
      <3> QED
        BY <1>4, <1>7, <3>1, <3>2, Carry DEF Plain
    <2> QED
      BY <2>1, <2>2
  <1>9. OneAtWork'
    <2>1. \A b \in Actors \ {Startup} : act'[b] # Idle => b = Timer
      BY <1>1, <1>2, <1>5, Alone
    <2> QED
      BY <2>1 DEF OneAtWork
  <1>10. CopyIsCurrent'
    BY <1>3, <1>4, <1>5, IdleIsFine, CopyStays DEF Undisturbed, file
  <1>11. StartIsRecorded'
    BY <1>2, <1>4, <1>5, StartStays, Constants DEF Undisturbed
  <1>12. Kept'
    BY <1>7, PlainKeeps DEF Undisturbed, Plain
  <1> QED
    BY <1>7, <1>8, <1>9, <1>10, <1>11, <1>12 DEF Undisturbed

\* What was restarted is cleared, all of it or nothing.
LEMMA OpsEndsKeeps ==
    ASSUME Typed, Undisturbed, NEW a \in Actors, OpsEnds(a)
    PROVE  Undisturbed' /\ Plain
  <1>1. /\ act[a].at = "bounce"
        /\ act[a] \in Doings /\ a \in Operators /\ a # Timer /\ a # Startup
        /\ act[a].cmd \in {"ops", "bounce"} /\ act[a].todo = <<>> /\ act[a] # Idle
        /\ act[a].asked \in SUBSET Components
    BY BouncerType DEF OpsEnds, At
  <1>2. UNCHANGED <<config, file, services, unannounced>>
    BY DEF OpsEnds
  <1>3. CASE ~act[a].ok
    BY <1>1, <1>2, <1>3, ReturnKeeps DEF OpsEnds, Return, Plain
  <1>4. CASE act[a].ok
    <2> DEFINE asked == act[a].asked
               clears == [c \in Components |-> Clear(c, Of(c))]
               todo == Each(asked, clears)
               does == Works(act[a], todo, "idle")
    <2>1. /\ todo \in Seq(Ops)
          /\ \A i \in DOMAIN todo : \E c \in asked : todo[i] = Clear(c, Of(c))
          /\ \A c \in asked : \E i \in DOMAIN todo : todo[i] = Clear(c, Of(c))
      <3>1. clears \in [Components -> Ops] /\ asked \in SUBSET Components
        BY <1>1, ClearsType
      <3>2. \A c \in asked : clears[c] = Clear(c, Of(c))
        BY <3>1
      <3> HIDE DEF clears, asked
      <3> QED
        BY <3>1, <3>2, EachType
    <2>2. act' = [act EXCEPT ![a] = does]
      BY <1>4 DEF OpsEnds
    <2> HIDE DEF todo
    <2>3. does.cmd = act[a].cmd /\ does.todo = todo /\ does.at \in {"idle", "take"}
      <3>1. "idle" \in Places
        BY DEF Places
      <3> QED
        BY <1>1, <2>1, <3>1, WorksType
    <2> HIDE DEF does
    <2>4. \A b \in Actors : act'[b] = IF b = a THEN does ELSE act[b]
      BY <2>2 DEF Typed, TypeOK
    <2>5. /\ \A c \in asked : c \in Components /\ Fresh(c)
          /\ "web" \in asked => "web" \in unannounced
      BY <1>1, <1>4 DEF Undisturbed, Right, AskedIsFresh
    <2>6. Coming' = Coming /\ config' = config /\ unannounced' = unannounced
      BY <1>2 DEF Coming, services
    <2>7. ASSUME NEW k \in Keys
          PROVE  IF Reader[k] \in asked THEN Restarted(k) ELSE Same(k)
      <3>1. \A op : Lists(a, op)' <=> \E c \in asked : op = Clear(c, Of(c))
        BY <2>1, <2>3, <2>4 DEF Lists
      <3>2. \A op : ~Lists(a, op)
        BY <1>1 DEF Lists
      <3>3. \A b \in Actors : b # a => \A op : Lists(b, op) <=> Lists(b, op)'
        BY <2>4 DEF Lists
      <3>4. \A c : Clear(c, Of(c)).do = "clear" /\ Clear(c, Of(c)).keys = Of(c)
        BY DEF Clear
      <3>5. CASE Reader[k] \in asked
        <4>1. k \in Of(Reader[k])
          BY DEF Of
        <4>2. Clear(Reader[k], Of(Reader[k])) \in ToDo("clear")'
          BY <3>1, <3>4, <3>5, ToDoIs
        <4>3. Due'[k] = Nothing
          BY <3>4, <4>1, <4>2, DueIs DEF Retired
        <4>4. Coming[k] = config[k]
          BY <2>5, <3>5, <4>1 DEF Fresh
        <4> QED
          BY <2>6, <3>5, <4>3, <4>4 DEF Restarted
      <3>6. CASE Reader[k] \notin asked
        <4>1. ToDo("mark")' = ToDo("mark") /\ ToDo("reconcile")' = ToDo("reconcile")
          <5>1. \A do \in {"mark", "reconcile"} : \A b \in Actors : \A op :
                   op.do = do => (Lists(b, op) <=> Lists(b, op)')
            BY <3>1, <3>2, <3>3, <3>4
          <5> QED
            BY <5>1, SameToDo
        <4>2. \A op : k \in op.keys => (op \in ToDo("clear")' <=> op \in ToDo("clear"))
          <5>1. \A op : Lists(a, op)' => k \notin op.keys
            <6>1. \A c \in asked : k \notin Of(c)
              BY <3>6 DEF Of
            <6> HIDE DEF asked
            <6> QED
              BY <3>1, <3>4, <6>1
          <5> QED
            BY <3>2, <3>3, <5>1, ToDoIs
        <4>3. MarkedAs(k)' = MarkedAs(k)
          BY <1>2, <4>1 DEF MarkedAs, file
        <4>4. Due'[k] = Due[k]
          BY <1>2, <4>1, <4>2, <4>3, DueAsBefore DEF services
        <4> QED
          BY <2>6, <3>6, <4>4 DEF Same
      <3> QED
        BY <3>5, <3>6
    <2>8. Plain
      <3>1. CASE asked = {}
        BY <2>6, <2>7, <3>1 DEF Plain, Stutter
      <3>2. CASE asked = {"api"}
        <4>1. IsRestart("api")
          BY <2>6, <2>7, <3>2 DEF IsRestart
        <4> QED
          BY <4>1 DEF Plain, Components
      <3>3. CASE "web" \in asked
        <4>1. \A k \in Of("api") : k \in Keys /\ Reader[k] = "api"
          BY DEF Of
        <4>2. Behind
          BY <2>5, <2>6, <2>7, <3>3, <4>1 DEF Behind
        <4> QED
          BY <4>2 DEF Plain
      <3> QED
        BY <1>1, <3>1, <3>2, <3>3 DEF Components
    <2>9. Right(act[a])'
      <3>1. \A c \in asked : Fresh(c)'
        BY <2>5, <2>8, PlainFresh
      <3>2. \A i \in DOMAIN todo : \E c \in Components : todo[i] = Clear(c, Of(c)) /\ Fresh(c)'
        BY <2>1, <2>5, <3>1
      <3>3. AskedIsFresh(act[a])'
        BY <2>3, <2>4 DEF AskedIsFresh
      <3> QED
        BY <1>1, <2>3, <2>4, <3>2, <3>3, RestarterIsRight
    <2>10. UNCHANGED <<snap, unannounced, file>>
      BY <1>2 DEF services
    <2>11. \A b \in Actors : b # a => act'[b] = act[b] /\ act[b].cmd \notin {"save", "secret"}
      BY <1>1, <2>4, Alone
    <2>12. Undisturbed'
      BY <1>1, <2>3, <2>4, <2>8, <2>9, <2>10, <2>11, PlainStep, Constants
    <2> QED
      BY <2>8, <2>12
  <1> QED
    BY <1>3, <1>4

LEMMA OpsRestartsKeeps ==
    ASSUME Typed, Undisturbed, NEW a \in Actors, NEW outcome \in Outcomes, OpsRestarts(a, outcome)
    PROVE  Undisturbed' /\ Plain
  <1> DEFINE c == OpsTarget(act[a].targets)
             next == [act[a] EXCEPT !.targets = @ \ {c}, !.asked = @ \union {c},
                                    !.ok = @ /\ outcome = "restarted"]
  <1>1. /\ act[a].at = "bounce"
        /\ act[a] \in Doings /\ a \in Operators /\ a # Timer /\ a # Startup
        /\ act[a].cmd \in {"ops", "bounce"} /\ act[a].todo = <<>> /\ act[a] # Idle
        /\ act[a].asked \in SUBSET Components
    BY BouncerType DEF OpsRestarts, At
  <1>2. c \in Components
    BY DEF OpsTarget, Components
  <1>3. /\ next \in Doings
        /\ next.cmd = act[a].cmd /\ next.at = "bounce" /\ next.todo = <<>>
        /\ next.asked = act[a].asked \union {c}
        /\ next.ok => act[a].ok /\ outcome = "restarted"
    BY <1>1, <1>2, BouncerType DEF Doings
  <1>4. /\ UNCHANGED <<config, file, faults>>
        /\ \/ outcome = "refused" /\ act' = [act EXCEPT ![a] = next] /\ UNCHANGED <<services, unannounced>>
           \/ c = "web" /\ WebRestarts(a, next) /\ unannounced' = unannounced \union {c}
           \/ c = "api" /\ ApiDies(a, next) /\ UNCHANGED unannounced
    BY DEF OpsRestarts
  <1> HIDE DEF next, c
  <1>5. AskedIsFresh(act[a])
    BY DEF Undisturbed, Right
  <1>6. \A op : ~Lists(a, op)
    BY <1>1 DEF Lists
  <1>7. CASE outcome = "refused" /\ act' = [act EXCEPT ![a] = next] /\ UNCHANGED <<services, unannounced>>
    <2>1. \A b \in Actors : act'[b] = IF b = a THEN next ELSE act[b]
      BY <1>7 DEF Typed, TypeOK
    <2>2. UNCHANGED <<config, loaded, phase, snap, previous, attempt, unannounced>>
      BY <1>4, <1>7 DEF file, services
    <2>3. \A k \in Keys : Due'[k] = Due[k]
      <3>1. DOMAIN next.todo = {}
        BY <1>3
      <3> QED
        BY <1>6, <1>7, <2>2, <3>1, MoveDue
    <2>4. Right(next)
      BY <1>1, <1>3, <1>7 DEF Right, SaveIsCurrent, TodoIsRight, AskedIsFresh
    <2>5. OneAtWork'
      BY <1>1, <2>1, WorkStays DEF Undisturbed
    <2>6. CopyIsCurrent'
      BY <1>3, <2>1, <2>2, CopyStays DEF Undisturbed, file
    <2> QED
      BY <1>1, <1>3, <1>7, <2>2, <2>3, <2>4, <2>5, <2>6, MoveKeeps DEF Plain
  <1>8. CASE c = "web" /\ WebRestarts(a, next) /\ unannounced' = unannounced \union {c}
    <2>1. /\ \A b \in Actors : act'[b] = IF b = a THEN next ELSE act[b]
          /\ snap' = snap /\ config' = config
      BY <1>4, <1>8 DEF WebRestarts, Typed, TypeOK
    <2>2. \A op : ~Lists(a, op)'
      BY <1>3, <2>1 DEF Lists
    <2>3. (\A k \in Of("web") : Coming'[k] = config[k]) /\ \A k \in Of("api") : Same(k)
      BY <1>4, <1>6, <1>8, <2>2, WebRestartsIs
    <2>4. Behind
      BY <1>8, <2>1, <2>3 DEF Behind
    <2>5. Plain
      BY <2>4 DEF Plain
    <2>6. Right(act[a])'
      <3>1. Fresh("web")'
        BY <2>1, <2>3 DEF Fresh
      <3>2. AskedIsFresh(act[a])'
        <4>1. act[a].ok => \A d \in act[a].asked : Fresh(d)'
          BY <1>1, <1>5, <2>5, PlainFresh DEF AskedIsFresh
        <4>2. act'[a] = next /\ "web" \in unannounced'
          BY <1>8, <2>1
        <4> QED
          BY <1>3, <1>8, <3>1, <4>1, <4>2 DEF AskedIsFresh
      <3> QED
        BY <1>1, <1>3, <2>1, <3>2, RestarterIsRight
    <2>7. \A b \in Actors : b # a => act'[b] = act[b] /\ act[b].cmd \notin {"save", "secret"}
      BY <1>1, <2>1, Alone
    <2>8. Undisturbed'
      BY <1>1, <1>3, <1>4, <1>8, <2>1, <2>5, <2>6, <2>7, PlainStep, Constants
    <2> QED
      BY <2>5, <2>8
  <1>9. CASE c = "api" /\ ApiDies(a, next) /\ UNCHANGED unannounced
    <2>1. \A b \in Actors : act'[b] = IF InApi(b) THEN Idle ELSE IF b = a THEN next ELSE act[b]
      BY <1>9 DEF ApiDies
    <2>2. IsRestart("api")
      BY <1>1, <1>3, <1>4, <1>9, ApiDiesAlone
    <2>3. Plain
      BY <2>2 DEF Plain, Components
    <2>4. Right(act[a])'
      <3>1. CASE InApi(a)
        BY <2>1, <3>1, IdleIsRight
      <3>2. CASE ~InApi(a)
        <4>1. Fresh("api")'
          BY <2>2 DEF Fresh, IsRestart, Restarted, Of
        <4>2. AskedIsFresh(act[a])'
          <5>1. act[a].ok => \A d \in act[a].asked : Fresh(d)'
            BY <1>1, <1>5, <2>3, PlainFresh DEF AskedIsFresh
          <5>2. act'[a] = next
            BY <2>1, <3>2
          <5>3. act[a].ok /\ "web" \in act[a].asked => "web" \in unannounced'
            BY <1>1, <1>5, <1>9 DEF AskedIsFresh
          <5> QED
            BY <1>3, <1>9, <4>1, <5>1, <5>2, <5>3 DEF AskedIsFresh
        <4> QED
          BY <1>1, <1>3, <2>1, <3>2, <4>2, RestarterIsRight
      <3> QED
        BY <3>1, <3>2
    <2>5. \A b \in Actors : b # a => act'[b] \in {act[b], Idle} /\ act[b].cmd \notin {"save", "secret"}
      BY <1>1, <2>1, Alone
    <2>6. act'[Startup] = Idle
      <3>1. act[Startup] = Idle \/ InApi(Startup)
        BY <1>1, Alone, Constants DEF InApi
      <3> QED
        BY <1>1, <2>1, <3>1, Constants
    <2>7. \A b \in Actors : act'[b].at = "put" => act'[b] = act[b]
      BY <1>3, <2>1, IdleIsFine
    <2>8. Undisturbed'
      BY <1>1, <1>4, <1>9, <2>1, <2>3, <2>4, <2>5, <2>6, <2>7, IdleIsFine, PlainStep
    <2> QED
      BY <2>3, <2>8
  <1> QED
    BY <1>4, <1>7, <1>8, <1>9

LEMMA TimerRestartsKeeps ==
    ASSUME Typed, Undisturbed, NEW outcome \in Outcomes, TimerRestarts(outcome)
    PROVE  Undisturbed' /\ Plain
  <1> DEFINE c == Target(act[Timer].targets)
             rest == [act[Timer] EXCEPT !.targets = @ \ {c}]
             next == Works(rest, Reported(c, outcome), "restart")
  <1>1. /\ act[Timer].at = "restart"
        /\ act[Timer] \in Doings /\ act[Timer].cmd = "timer" /\ act[Timer].todo = <<>>
        /\ act[Timer] # Idle /\ act[Startup] = Idle
    BY TimerType DEF TimerRestarts, At
  <1>2. c \in Components /\ Timer \in Actors \ {Startup} /\ Startup \in Actors
    BY Constants DEF Target, Components
  <1>3. rest \in Doings /\ rest.cmd = "timer"
    BY <1>1, TimerType DEF Doings
  <1>4. /\ Reported(c, outcome) \in Seq(Ops) /\ Reported(c, outcome) # <<>>
        /\ \A i \in DOMAIN Reported(c, outcome) :
              \/ Reported(c, outcome)[i].do = "record"
              \/ Reported(c, outcome)[i] = Clear(c, Of(c)) /\ outcome = "restarted"
        /\ outcome = "restarted" =>
              \E i \in DOMAIN Reported(c, outcome) : Reported(c, outcome)[i] = Clear(c, Of(c))
    BY <1>2, ReportedType
  <1>5. /\ next \in Doings /\ next.cmd = "timer" /\ next.todo = Reported(c, outcome) /\ next.at = "take"
    <2>1. "restart" \in Places
      BY DEF Places
    <2> HIDE DEF rest, c
    <2> QED
      BY <1>3, <1>4, <2>1, WorksType
  <1>6. /\ UNCHANGED <<config, file, faults>>
        /\ \/ /\ outcome = "refused" /\ act' = [act EXCEPT ![Timer] = next]
              /\ UNCHANGED <<services, unannounced>>
           \/ /\ outcome # "refused" /\ c = "web" /\ WebRestarts(Timer, next)
              /\ unannounced' = IF outcome = "restarted" THEN unannounced ELSE unannounced \union {c}
           \/ c = "api" /\ ApiDies(Timer, Idle) /\ UNCHANGED unannounced
    BY DEF TimerRestarts
  <1> HIDE DEF next, rest, c
  <1>7. \A op : ~Lists(Timer, op)
    BY <1>1 DEF Lists
  <1>8. CASE /\ outcome = "refused" /\ act' = [act EXCEPT ![Timer] = next]
             /\ UNCHANGED <<services, unannounced>>
    <2>1. \A b \in Actors : act'[b] = IF b = Timer THEN next ELSE act[b]
      BY <1>8 DEF Typed, TypeOK
    <2>2. UNCHANGED <<config, loaded, phase, snap, previous, attempt, unannounced>>
      BY <1>6, <1>8 DEF file, services
    <2>3. \A i \in DOMAIN next.todo : next.todo[i].do = "record"
      BY <1>4, <1>5, <1>8
    <2>4. \A k \in Keys : Due'[k] = Due[k]
      BY <1>2, <1>7, <1>8, <2>2, <2>3, MoveDue
    <2>5. Right(next)
      BY <1>5, <2>3 DEF Right, SaveIsCurrent, TodoIsRight, AskedIsFresh
    <2>6. OneAtWork'
      BY <1>1, <2>1, WorkStays DEF Undisturbed
    <2>7. CopyIsCurrent'
      BY <1>5, <2>1, <2>2, CopyStays DEF Undisturbed, file
    <2> QED
      BY <1>2, <1>5, <1>8, <2>2, <2>4, <2>5, <2>6, <2>7, MoveKeeps DEF Plain
  <1>9. CASE /\ outcome # "refused" /\ c = "web" /\ WebRestarts(Timer, next)
             /\ unannounced' = IF outcome = "restarted" THEN unannounced ELSE unannounced \union {c}
    <2>1. /\ \A b \in Actors : act'[b] = IF b = Timer THEN next ELSE act[b]
          /\ snap' = snap /\ config' = config
      BY <1>6, <1>9 DEF WebRestarts, Typed, TypeOK
    <2>2. /\ Clear("web", Of("web")).do = "clear" /\ Clear("web", Of("web")).keys = Of("web")
      BY DEF Clear
    <2>3. /\ \A op : Lists(Timer, op)' => \/ op.do = "record"
                                          \/ op = Clear("web", Of("web")) /\ outcome = "restarted"
          /\ outcome = "restarted" => Lists(Timer, Clear("web", Of("web")))'
      BY <1>2, <1>4, <1>5, <1>9, <2>1 DEF Lists
    <2>4. /\ \A k \in Of("web") : Coming'[k] = config[k]
          /\ \A k \in Of("api") : Same(k)
          /\ outcome # "restarted" => \A k \in Of("web") : Due'[k] = Due[k]
          /\ outcome = "restarted" => \A k \in Of("web") : Due'[k] = Nothing
      <3>1. \A op : op.do \in {"mark", "reconcile"} => ~Lists(Timer, op)'
        BY <2>2, <2>3
      <3>2. \A op : op.do = "clear" /\ Lists(Timer, op)' => op.keys = Of("web") /\ outcome = "restarted"
        BY <2>2, <2>3
      <3>3. /\ \A k \in Of("web") : Coming'[k] = config[k]
            /\ \A k \in Of("api") : Same(k)
            /\ (\A op : op.do = "clear" /\ Lists(Timer, op)' => Lists(Timer, op)) =>
                  \A k \in Of("web") : Due'[k] = Due[k]
            /\ (\E op : op.do = "clear" /\ op.keys = Of("web") /\ Lists(Timer, op)') =>
                  \A k \in Of("web") : Due'[k] = Nothing
        BY <1>2, <1>6, <1>7, <1>9, <3>1, <3>2, WebRestartsIs
      <3> QED
        BY <2>2, <2>3, <3>2, <3>3
    <2>5. Plain
      <3>1. CASE outcome = "restarted"
        <4>1. \A k \in Keys : IF Reader[k] = "web" THEN Restarted(k) ELSE Same(k)
          BY <2>4, <3>1, Constants DEF Restarted, Of, Components
        <4>2. IsRestart("web")
          BY <1>9, <2>1, <3>1, <4>1 DEF IsRestart
        <4> QED
          BY <4>2 DEF Plain, Components
      <3>2. CASE outcome # "restarted"
        <4>1. Behind
          BY <1>9, <2>1, <2>4, <3>2 DEF Behind
        <4> QED
          BY <4>1 DEF Plain
      <3> QED
        BY <3>1, <3>2
    <2>6. Right(act[Timer])'
      <3>1. Fresh("web")'
        BY <2>1, <2>4 DEF Fresh
      <3>2. AskedIsFresh(act[Timer])'
        BY <1>2, <1>5, <2>1 DEF AskedIsFresh
      <3>3. /\ act'[Timer].cmd = "timer"
            /\ \A i \in DOMAIN act'[Timer].todo :
                  \/ act'[Timer].todo[i].do = "record"
                  \/ \E d \in Components : act'[Timer].todo[i] = Clear(d, Of(d)) /\ Fresh(d)'
        BY <1>2, <1>4, <1>5, <1>9, <2>1, <3>1
      <3> QED
        BY <3>2, <3>3, RestarterIsRight
    <2>7. \A b \in Actors : b # Timer => act'[b] = act[b] /\ act[b].cmd \notin {"save", "secret"}
      BY <1>1, <1>2, <2>1, Alone
    <2>8. unannounced \subseteq unannounced'
      BY <1>9
    <2>9. Undisturbed'
      BY <1>1, <1>2, <1>5, <1>6, <2>1, <2>5, <2>6, <2>7, <2>8, PlainStep
    <2> QED
      BY <2>5, <2>9
  <1>10. CASE c = "api" /\ ApiDies(Timer, Idle) /\ UNCHANGED unannounced
    <2>1. /\ \A b \in Actors : act'[b] = IF InApi(b) THEN Idle ELSE IF b = Timer THEN Idle ELSE act[b]
          /\ snap' = {}
      BY <1>10 DEF ApiDies
    <2>2. IsRestart("api")
      BY <1>1, <1>2, <1>6, <1>10, IdleIsFine, ApiDiesAlone
    <2>3. Plain
      BY <2>2 DEF Plain, Components
    <2>4. Right(act[Timer])'
      BY <1>2, <2>1, IdleIsRight
    <2>5. \A b \in Actors : b # Timer => act'[b] \in {act[b], Idle} /\ act[b].cmd \notin {"save", "secret"}
      BY <1>1, <1>2, <2>1, Alone
    <2>6. act'[Startup] = Idle
      BY <1>1, <1>2, <2>1
    <2>7. \A b \in Actors : act'[b].at = "put" => act'[b] = act[b]
      BY <2>1, IdleIsFine
    <2>8. Undisturbed'
      BY <1>1, <1>2, <1>6, <1>10, <2>1, <2>3, <2>4, <2>5, <2>6, <2>7, IdleIsFine, PlainStep
    <2> QED
      BY <2>3, <2>8
  <1> QED
    BY <1>6, <1>8, <1>9, <1>10

\* While the API is not up, nobody is to mark an option it reads.
LEMMA NoApiMarks ==
    ASSUME Typed, Undisturbed, ~Up("api"), NEW op \in ToDo("mark"), NEW k \in Keys, Reader[k] = "api"
    PROVE  op.texts[k] = Nothing
  <1>1. PICK b \in Actors : Lists(b, op) /\ op.do = "mark"
    BY ToDoIs
  <1>2. act[b].cmd \in {"save", "secret"} /\ b # Startup
    <2>1. act[b].cmd \in {"none", "save", "secret", "request", "ops", "bounce", "timer", "startup"}
          /\ (act[b].cmd = "none" => act[b].todo = <<>>) /\ (b = Startup => act[b].cmd \in {"none", "startup"})
      BY DoesType, IdleIsFine, Constants DEF Placed, CmdsOf, OfOperators
    <2>2. TodoIsRight(act[b])
      BY DEF Undisturbed, Right
    <2> QED
      BY <1>1, <2>1, <2>2 DEF TodoIsRight, Lists, Clears
  <1>3. act[b].cmd = "secret"
    BY <1>2 DEF Typed, InPlace, InApi, Up
  <1>4. Concerns(op) /\ op.on = "web"
    BY <1>1, <1>3 DEF Undisturbed, Right, TodoIsRight, Lists
  <1> QED
    BY <1>4 DEF Concerns, Of

\* A service starts: nobody's list changes but that of the start of the API.
LEMMA StartStep ==
    ASSUME Typed, Undisturbed, Stutter, UNCHANGED file, phase'["web"] = phase["web"] \/ phase'["web"] = "up",
           \A b \in Actors \ {Startup} : act'[b] = act[b],
           Right(act[Startup])', act'[Startup].at # "put" \/ act'[Startup] = act[Startup],
           act'[Startup].at = "serve" => act[Startup].at = "serve" /\ snap' = snap
    PROVE  Undisturbed'
  <1>1. ASSUME NEW b \in Actors, act[b].cmd \in {"save", "secret"}
        PROVE  Up("web")'
    <2>1. Up("web")
      BY <1>1 DEF Undisturbed, Right, SaveIsCurrent
    <2> QED
      BY <2>1 DEF Up
  <1>2. unannounced \subseteq unannounced' /\ Plain
    BY DEF Stutter, Plain
  <1>3. Startup \in Actors
    BY Constants
  <1> QED
    BY <1>1, <1>2, <1>3, PlainStep

LEMMA WebLoadsKeeps ==
    ASSUME Typed, Undisturbed, WebLoads
    PROVE  Undisturbed' /\ Stutter
  <1>1. /\ phase["web"] = "starting" /\ phase'["web"] = "up" /\ phase'["api"] = phase["api"]
        /\ UNCHANGED <<config, file, snap, act, unannounced, previous>>
        /\ loaded' = [k \in Keys |-> IF Reader[k] = "web" THEN config[k] ELSE loaded[k]]
    BY DEF WebLoads, Typed, TypeOK, Components, file
  <1>2. \A do : ToDo(do)' = ToDo(do)
    BY <1>1 DEF ToDo
  <1>3. ASSUME NEW k \in Keys
        PROVE  Same(k)
    <2>1. Coming'[k] = Coming[k]
      BY <1>1, Constants DEF Coming, Components
    <2>2. Due'[k] = Due[k]
      BY <1>1, <1>2, DueSame
    <2> QED
      BY <2>1, <2>2 DEF Same
  <1>4. Stutter
    BY <1>1, <1>3 DEF Stutter
  <1>5. Right(act[Startup])'
    BY <1>1, <1>4, Constants, DoesType, Carry DEF Plain, Up, Placed, CmdsOf, PlacesOf
  <1>6. Undisturbed'
    BY <1>1, <1>4, <1>5, StartStep
  <1> QED
    BY <1>4, <1>6

LEMMA ApiSnapshotsKeeps ==
    ASSUME Typed, Undisturbed, ApiSnapshots, faults = 0, faults' = 0
    PROVE  Undisturbed' /\ Stutter
  <1>1. /\ phase["api"] = "down" /\ phase'["api"] = "snapshotted" /\ phase'["web"] = phase["web"]
        /\ snap' = Awaiting(previous, "api") /\ snap \subseteq Of("api")
        /\ UNCHANGED <<config, file, loaded, act, unannounced, previous>>
    <2>1. ~Fault("unread")
      BY DEF Fault
    <2> QED
      BY <2>1 DEF ApiSnapshots, Typed, TypeOK, Components, file
  <1>2. \A do : ToDo(do)' = ToDo(do)
    BY <1>1 DEF ToDo
  <1>3. ASSUME NEW k \in Keys
        PROVE  Same(k)
    <2>1. Coming'[k] = Coming[k]
      BY <1>1, Constants DEF Coming, Components
    <2>2. CASE Reader[k] = "api"
      <3>1. Due[k] = Nothing
        BY <1>1, <2>2, DueIs DEF Retired
      <3>2. CASE previous[k] = Nothing
        <4>1. \A op \in ToDo("mark")' : op.texts[k] = Nothing
          BY <1>1, <1>2, <2>2, NoApiMarks DEF Up
        <4>2. MarkedAs(k)' = Nothing
          BY <1>1, <3>2, <4>1, NotMarked
        <4> QED
          BY <2>1, <3>1, <4>2, DueIs DEF Same
      <3>3. CASE previous[k] # Nothing
        <4>1. k \in snap'
          BY <1>1, <2>2, <3>3 DEF Awaiting, Of
        <4> QED
          BY <2>1, <3>1, <4>1, DueIs DEF Retired, Same
      <3> QED
        BY <3>2, <3>3
    <2>3. CASE Reader[k] # "api"
      <3>1. k \notin snap /\ k \notin snap'
        BY <1>1, <2>3 DEF Awaiting, Of
      <3>2. Due'[k] = Due[k]
        BY <1>1, <1>2, <2>3, <3>1, DueSame
      <3> QED
        BY <2>1, <3>2 DEF Same
    <2> QED
      BY <2>2, <2>3
  <1>4. Stutter
    BY <1>1, <1>3 DEF Stutter
  <1>5. act[Startup] = Idle
    BY <1>1 DEF Typed, InPlace
  <1>6. Right(act[Startup])'
    BY <1>1, <1>5, IdleIsRight
  <1>7. Undisturbed'
    BY <1>1, <1>4, <1>5, <1>6, IdleIsFine, StartStep
  <1> QED
    BY <1>4, <1>7

LEMMA ApiLoadsKeeps ==
    ASSUME Typed, Undisturbed, ApiLoads
    PROVE  Undisturbed' /\ Stutter
  <1>1. /\ phase["api"] = "snapshotted" /\ phase'["api"] = "loaded" /\ phase'["web"] = phase["web"]
        /\ UNCHANGED <<config, file, snap, act, unannounced, previous>>
        /\ loaded' = [k \in Keys |-> IF Reader[k] = "api" THEN config[k] ELSE loaded[k]]
    BY DEF ApiLoads, Typed, TypeOK, Components, file
  <1>2. \A do : ToDo(do)' = ToDo(do)
    BY <1>1 DEF ToDo
  <1>3. ASSUME NEW k \in Keys
        PROVE  Same(k)
    <2>1. Coming'[k] = Coming[k]
      BY <1>1, Constants DEF Coming, Components
    <2>2. Due'[k] = Due[k]
      BY <1>1, <1>2, DueSame
    <2> QED
      BY <2>1, <2>2 DEF Same
  <1>4. Stutter
    BY <1>1, <1>3 DEF Stutter
  <1>5. act[Startup] = Idle
    BY <1>1 DEF Typed, InPlace
  <1>6. Right(act[Startup])'
    BY <1>1, <1>5, IdleIsRight
  <1>7. Undisturbed'
    BY <1>1, <1>4, <1>5, <1>6, IdleIsFine, StartStep
  <1> QED
    BY <1>4, <1>7

LEMMA ApiClearsKeeps ==
    ASSUME Typed, Undisturbed, ApiClears
    PROVE  Undisturbed' /\ Stutter
  <1> DEFINE starts == [Idle EXCEPT !.cmd = "startup"]
             todo == <<Clear("api", snap)>>
             does == Works(starts, todo, "serve")
  <1>1. starts \in Doings /\ starts.cmd = "startup"
    BY IdleIsFine DEF Doings, Idle
  <1>2. /\ todo \in Seq(Ops) /\ todo # <<>> /\ DOMAIN todo = {1} /\ todo[1] = Clear("api", snap)
    <2>1. Clear("api", snap) \in Ops
      BY OpTypes DEF Typed, TypeOK, Of, Components, NoTexts, Clear, Ops, Entries, Statuses
    <2> QED
      BY <2>1
  <1>3. /\ Clear("api", snap).do = "clear" /\ Clear("api", snap).on = "api" /\ Clear("api", snap).keys = snap
    BY DEF Clear
  <1>4. act' = [act EXCEPT ![Startup] = does] /\ UNCHANGED <<config, file, services, unannounced>>
        /\ act[Startup] = Idle
    BY DEF ApiClears
  <1> HIDE DEF starts, todo
  <1>5. does.cmd = "startup" /\ does.todo = todo /\ does.at = "take"
    <2>1. "serve" \in Places
      BY DEF Places
    <2> QED
      BY <1>1, <1>2, <2>1, WorksType
  <1> HIDE DEF does
  <1>6. \A b \in Actors : act'[b] = IF b = Startup THEN does ELSE act[b]
    BY <1>4 DEF Typed, TypeOK
  <1>7. /\ \A op : Lists(Startup, op)' <=> op = Clear("api", snap)
        /\ \A op : ~Lists(Startup, op)
        /\ \A b \in Actors : b # Startup => \A op : Lists(b, op) <=> Lists(b, op)'
    BY <1>2, <1>4, <1>5, <1>6, IdleIsFine, Constants DEF Lists
  <1>8. UNCHANGED <<phase, snap, previous, loaded, unannounced>> /\ config' = config
    BY <1>4 DEF services, file
  <1>9. ASSUME NEW k \in Keys
        PROVE  Same(k)
    <2>1. ToDo("mark")' = ToDo("mark") /\ ToDo("reconcile")' = ToDo("reconcile")
      <3>1. \A do \in {"mark", "reconcile"} : \A b \in Actors : \A op :
               op.do = do => (Lists(b, op) <=> Lists(b, op)')
        BY <1>3, <1>7
      <3> QED
        BY <3>1, SameToDo
    <2>2. \A op : op \in ToDo("clear")' <=> op \in ToDo("clear") \/ op = Clear("api", snap)
      BY <1>3, <1>7, ToDoIs, Constants
    <2>3. MarkedAs(k)' = MarkedAs(k)
      BY <1>8, <2>1 DEF MarkedAs
    <2>4. Retired(k)' <=> Retired(k)
      BY <1>3, <1>8, <2>1, <2>2, <2>3 DEF Retired
    <2>5. Coming'[k] = Coming[k]
      BY <1>8 DEF Coming
    <2> QED
      BY <2>3, <2>4, <2>5, DueIs DEF Same
  <1>10. Stutter
    BY <1>8, <1>9 DEF Stutter
  <1>11. Right(act[Startup])'
    BY <1>2, <1>3, <1>5, <1>6, <1>8, Constants DEF Right, SaveIsCurrent, TodoIsRight, AskedIsFresh
  <1>12. Undisturbed'
    BY <1>4, <1>5, <1>6, <1>8, <1>10, <1>11, Constants, StartStep
  <1> QED
    BY <1>10, <1>12

LEMMA ApiServesKeeps ==
    ASSUME Typed, Undisturbed, ApiServes
    PROVE  Undisturbed' /\ Stutter
  <1>1. act[Startup].at = "serve" /\ act[Startup] # Idle /\ phase["api"] = "loaded"
    BY IdleIsFine DEF ApiServes, At, Typed, InPlace
  <1>2. /\ phase'["api"] = "up" /\ phase'["web"] = phase["web"] /\ snap' = {}
        /\ UNCHANGED <<config, file, loaded, unannounced, previous>>
        /\ \A b \in Actors : act'[b] = IF b = Startup THEN Idle ELSE act[b]
        /\ snap \subseteq Of("api")
    BY DEF ApiServes, Return, Typed, TypeOK, Components, file
  <1>3. \A do : ToDo(do)' = ToDo(do)
    <2>1. act[Startup].todo = <<>>
      BY <1>1, DoesType, Constants DEF Placed
    <2>2. \A b \in Actors : \A op : Lists(b, op) <=> Lists(b, op)'
      BY <1>2, <2>1, IdleIsFine DEF Lists
    <2> QED
      BY <2>2, SameToDo
  <1>4. ASSUME NEW k \in Keys
        PROVE  Same(k)
    <2>1. Coming'[k] = Coming[k]
      BY <1>1, <1>2, Constants DEF Coming, Components
    <2>2. CASE k \in snap
      <3>1. Reader[k] = "api" /\ previous[k] = Nothing
        BY <1>1, <1>2, <2>2 DEF Of, Undisturbed, StartIsRecorded, At
      <3>2. \A op \in ToDo("mark")' : op.texts[k] = Nothing
        BY <1>1, <1>3, <3>1, NoApiMarks DEF Up
      <3>3. MarkedAs(k)' = Nothing
        BY <1>2, <3>1, <3>2, NotMarked
      <3>4. Due[k] = Nothing
        BY <2>2, DueIs DEF Retired
      <3> QED
        BY <2>1, <3>3, <3>4, DueIs DEF Same
    <2>3. CASE k \notin snap
      <3>1. Due'[k] = Due[k]
        BY <1>1, <1>2, <1>3, <2>3, DueSame
      <3> QED
        BY <2>1, <3>1 DEF Same
    <2> QED
      BY <2>2, <2>3
  <1>5. Stutter
    BY <1>2, <1>4 DEF Stutter
  <1>6. act'[Startup] = Idle
    BY <1>2, Constants
  <1>7. Right(act[Startup])'
    BY <1>6, IdleIsRight
  <1>8. Undisturbed'
    BY <1>2, <1>5, <1>6, <1>7, IdleIsFine, StartStep
  <1> QED
    BY <1>5, <1>8

\* The environment replaces a service.
LEMMA WebReplacedKeeps ==
    ASSUME Patient, Typed, Undisturbed, WebReplaced
    PROVE  Undisturbed' /\ Behind
  <1>1. /\ \A b \in Actors : act[b] = Idle
        /\ phase'["web"] = "starting" /\ phase'["api"] = phase["api"]
        /\ unannounced' = unannounced \union {"web"}
        /\ UNCHANGED <<config, file, loaded, snap, act, previous>>
    BY DEF WebReplaced, Quiet, Typed, TypeOK, Components, file
  <1>2. \A do : ToDo(do)' = ToDo(do)
    BY <1>1 DEF ToDo
  <1>3. \A k \in Of("web") : Coming'[k] = config[k]
    BY <1>1 DEF Coming, Of
  <1>4. ASSUME NEW k \in Of("api")
        PROVE  Same(k)
    <2>1. k \in Keys /\ Reader[k] = "api"
      BY DEF Of
    <2>2. Due'[k] = Due[k]
      BY <1>1, <1>2, <2>1, DueSame
    <2> QED
      BY <1>1, <2>1, <2>2 DEF Same, Coming
  <1>5. Behind
    BY <1>1, <1>3, <1>4 DEF Behind
  <1>6. Right(act[Startup])' /\ Startup \in Actors
    BY <1>1, IdleIsRight, Constants
  <1>7. Plain
    BY <1>5 DEF Plain
  <1>8. Undisturbed'
    BY <1>1, <1>6, <1>7, IdleIsFine, PlainStep
  <1> QED
    BY <1>5, <1>8

LEMMA ApiReplacedKeeps ==
    ASSUME Typed, Undisturbed, ApiReplaced, faults = 0, faults' = 0
    PROVE  Undisturbed' /\ IsRestart("api")
  <1>1. /\ \A b \in Actors : ~InApi(b)
        /\ ApiDies(Startup, Idle) /\ UNCHANGED <<config, file, unannounced, previous>>
        /\ Up("api") /\ act[Startup] = Idle /\ Startup \in Actors
    <2>1. ~Fault("crash")
      BY DEF Fault
    <2> QED
      BY <2>1, Constants DEF ApiReplaced, file, Typed, InPlace, Up
  <1>2. \A b \in Actors : act'[b] = act[b]
    BY <1>1 DEF ApiDies
  <1>3. \A b \in Actors : \A op : Lists(b, op) <=> Lists(b, op)'
    BY <1>2 DEF Lists
  <1>4. IsRestart("api")
    BY <1>1, <1>3, ApiDiesIs
  <1>5. Plain
    BY <1>4 DEF Plain, Components
  <1>6. Right(act[Startup])'
    BY <1>1, <1>2, IdleIsRight
  <1>7. ASSUME NEW b \in Actors, act[b].cmd \in {"save", "secret"}
        PROVE  Up("web")'
    <2>1. Up("web") /\ phase'["web"] = phase["web"]
      BY <1>1, <1>7 DEF Undisturbed, Right, SaveIsCurrent, ApiDies, Typed, TypeOK, Components
    <2> QED
      BY <2>1 DEF Up
  <1>8. Undisturbed'
    BY <1>1, <1>2, <1>5, <1>6, <1>7, IdleIsFine, PlainStep
  <1> QED
    BY <1>4, <1>8

-----------------------------------------------------------------------------
(* Every step                                                                *)

LEMMA NextKeeps ==
    ASSUME Patient, Spaced, Typed, Undisturbed, Next, faults = 0, faults' = 0
    PROVE  Undisturbed' /\ (Plain \/ IsSave)
  <1>1. CASE \E a \in Operators : Begin(a)
    BY <1>1, SaveLoadsKeeps, RequestLooksKeeps, OpsStartsKeeps DEF Begin, Plain
  <1>2. CASE \E a \in Actors : Proceed(a)
    <2>1. PICK a \in Actors : Proceed(a)
      BY <1>2
    <2>2. CASE Take(a) \/ Put(a)
      BY <2>2, TakeKeeps, PutKeeps DEF Plain
    <2>3. CASE Returns(a) \/ SaveRefused(a)
      <3>1. act[a].todo = <<>>
        BY <2>3, DoesType DEF Placed, Returns, SaveRefused, At
      <3> QED
        BY <2>3, <3>1, ReturnKeeps DEF Returns, SaveRefused, Plain
    <2>4. CASE SaveMerges(a) \/ SaveWrites(a)
      BY <2>4, SaveMergesKeeps, SaveWritesKeeps DEF Plain
    <2>5. CASE RequestSchedules(a) \/ OpsEnds(a) \/ \E outcome \in Outcomes : OpsRestarts(a, outcome)
      BY <2>5, RequestSchedulesKeeps, OpsEndsKeeps, OpsRestartsKeeps DEF Plain
    <2> QED
      BY <2>1, <2>2, <2>3, <2>4, <2>5 DEF Proceed
  <1>3. CASE Timers
    <2>1. CASE TimerReturns
      <3>1. act[Timer].todo = <<>> /\ Timer \in Actors
        BY <2>1, TimerType, Constants DEF TimerReturns, At
      <3> QED
        BY <2>1, <3>1, ReturnKeeps DEF TimerReturns, Plain
    <2>2. CASE \E outcome \in Outcomes : TimerRestarts(outcome)
      BY <2>2, TimerRestartsKeeps
    <2> QED
      BY <1>3, <2>1, <2>2 DEF Timers
  <1>4. CASE Starts
    <2>1. ~ApiRefuses
      BY DEF ApiRefuses, Fault
    <2> QED
      BY <1>4, <2>1, WebLoadsKeeps, ApiSnapshotsKeeps, ApiLoadsKeeps, ApiClearsKeeps, ApiServesKeeps
         DEF Starts, Plain
  <1>5. CASE Disturb
    <2>1. \A a : ~CliDies(a)
      BY DEF CliDies, Fault
    <2> QED
      BY <1>5, <2>1, WebReplacedKeeps, ApiReplacedKeeps DEF Disturb, Plain, Components
  <1> QED
    BY <1>1, <1>2, <1>3, <1>4, <1>5 DEF Next

\* What has failed once has failed.
LEMMA FaultsStay ==
    ASSUME Typed, [Next]_vars, faults' = 0
    PROVE  faults = 0
  <1>1. faults' \in {faults, faults + 1}
    <2>1. CASE \E a \in Operators : Begin(a)
      <3>1. \A a, does : Begins(a, does) => faults' = faults
        BY DEF Begins
      <3>2. PICK a \in Operators : Begin(a)
        BY <2>1
      <3>3. ASSUME NEW new, SaveLoads(a, new) \/ SecretLoads(a, new)
            PROVE  faults' = faults
        BY <3>1, <3>3 DEF SaveLoads, SecretLoads
      <3>4. ASSUME NEW targets, RequestLooks(a, targets)
            PROVE  faults' = faults
        BY <3>1, <3>4 DEF RequestLooks
      <3>5. ASSUME NEW targets, NEW cmd, OpsStarts(a, cmd, targets)
            PROVE  faults' = faults
        BY <3>1, <3>5 DEF OpsStarts
      <3> QED
        BY <3>2, <3>3, <3>4, <3>5 DEF Begin
    <2>2. CASE \E a \in Actors : Proceed(a)
      <3>1. PICK a \in Actors : Proceed(a)
        BY <2>2
      <3>2. CASE Take(a)
        BY <3>2 DEF Take, Fault
      <3>3. CASE Put(a)
        BY <3>3 DEF Put, Fault
      <3>4. CASE Returns(a) \/ SaveRefused(a) \/ SaveMerges(a) \/ SaveWrites(a)
        BY <3>4 DEF Returns, SaveRefused, SaveMerges, SaveWrites
      <3>5. CASE RequestSchedules(a) \/ OpsEnds(a)
        BY <3>5 DEF RequestSchedules, OpsEnds
      <3>6. CASE \E outcome \in Outcomes : OpsRestarts(a, outcome)
        BY <3>6 DEF OpsRestarts
      <3> QED
        BY <3>1, <3>2, <3>3, <3>4, <3>5, <3>6 DEF Proceed
    <2>3. CASE Timers
      BY <2>3 DEF Timers, TimerReturns, TimerRestarts
    <2>4. CASE Starts
      BY <2>4 DEF Starts, WebLoads, ApiSnapshots, ApiLoads, ApiRefuses, ApiClears, ApiServes, Fault
    <2>5. CASE Disturb
      BY <2>5 DEF Disturb, WebReplaced, ApiReplaced, CliDies, Fault
    <2>6. CASE UNCHANGED vars
      BY <2>6 DEF vars
    <2> QED
      BY <2>1, <2>2, <2>3, <2>4, <2>5, <2>6 DEF Next
  <1> QED
    BY <1>1 DEF Typed, TypeOK

LEMMA InitKeeps == Init => Undisturbed /\ Promise!Init
  <1> SUFFICES ASSUME Init
               PROVE  Undisturbed /\ Promise!Init
    OBVIOUS
  <1>1. /\ config \in Files /\ loaded = config /\ previous = NoTexts /\ snap = {} /\ unannounced = {}
        /\ phase = [c \in Components |-> "up"]
        /\ \A a \in Actors : act[a] = Idle
    BY DEF Init, Files
  <1>2. ASSUME NEW k \in Keys
        PROVE  Coming[k] = config[k] /\ Due[k] = Nothing
    <2>1. Coming[k] = config[k]
      BY <1>1, Constants DEF Coming
    <2>2. \A do : ToDo(do) = {}
      <3>1. \A a \in Actors : \A op : ~Lists(a, op)
        BY <1>1, IdleIsFine, NothingListed
      <3> QED
        BY <3>1, ToDoIs
    <2>3. MarkedAs(k) = Nothing
      BY <1>1, <2>2, NotMarked DEF NoTexts
    <2> QED
      BY <2>1, <2>3, DueIs
  <1>3. Promise!Init
    <2>1. Coming = config
      <3>1. Coming = [k \in Keys |-> Coming[k]]
        BY DEF Coming
      <3> QED
        BY <1>1, <1>2, <3>1 DEF Files
    <2>2. Due = [k \in Keys |-> Nothing]
      <3>1. Due = [k \in Keys |-> Due[k]]
        BY DEF Due
      <3> QED
        BY <1>2, <3>1
    <2> QED
      BY <1>1, <2>1, <2>2 DEF Promise!Init, Files, Promise!Absent, Absent, Promise!Nothing, Nothing
  <1>4. Kept
    BY <1>2, PromiseIs, AnnouncedIs DEF Kept, KeyOK
  <1> QED
    BY <1>1, <1>3, <1>4, IdleIsFine, IdleIsRight, Constants
       DEF Undisturbed, OneAtWork, CopyIsCurrent, StartIsRecorded, At

\* The actors are where they can be, whatever the operators do and whatever
\* fails: what runs in the API runs while it is up, but for its start.
THEOREM TypesAreRight == Spec => []Typed
  <1>1. Init => Typed
    BY InitTyped
  <1>2. Typed /\ [Next]_vars => Typed'
    BY NextTyped
  <1> QED
    BY <1>1, <1>2, PTL DEF Spec

LEMMA InvAlways ==
    ASSUME Patient, Spaced
    PROVE  Spec => []Inv
  <1>1. Init => Inv
    BY InitTyped, InitKeeps DEF Inv
  <1>2. Inv /\ [Next]_vars => Inv'
    <2> SUFFICES ASSUME Inv, [Next]_vars
                 PROVE  Inv'
      OBVIOUS
    <2>1. Typed /\ Typed'
      BY NextTyped DEF Inv
    <2>2. ASSUME faults' = 0
          PROVE  Undisturbed'
      <3>1. faults = 0 /\ Undisturbed
        BY <2>1, <2>2, FaultsStay DEF Inv
      <3>2. CASE Next
        BY <2>1, <2>2, <3>1, <3>2, NextKeeps
      <3>3. CASE UNCHANGED vars
        <4>1. UNCHANGED <<config, loaded, phase, snap, act, unannounced, file>>
          BY <3>3 DEF vars, file
        <4>2. Stutter
          BY <4>1 DEF Stutter, Same, file, Coming, Due, Retired, MarkedAs, ToDo
        <4>3. Right(act[Startup])'
          <5>1. act[Startup].at # "bounce" /\ act[Startup].cmd \notin {"save", "secret"}
            BY <2>1, Constants, DoesType DEF Placed, CmdsOf, PlacesOf
          <5> QED
            BY <2>1, <3>1, <4>1, <4>2, <5>1, Constants, Carry DEF Plain
        <4> QED
          BY <2>1, <3>1, <4>1, <4>2, <4>3, StartStep
      <3> QED
        BY <3>2, <3>3
    <2> QED
      BY <2>1, <2>2 DEF Inv
  <1> QED
    BY <1>1, <1>2, PTL DEF Spec

\* A step that tells of every restart is a step of the notice, or none.
LEMMA StepPromise ==
    ASSUME Plain \/ IsSave, unannounced' = {}
    PROVE  UNCHANGED <<config, Coming, Due>> \/ Promise!Next
  <1>1. CASE IsSave
    BY <1>1, PromiseIs DEF IsSave, Promise!Next
  <1>2. ASSUME NEW c \in Components, IsRestart(c)
        PROVE  Promise!Next
    <2>1. Coming' = [k \in Keys |-> IF Reader[k] = c THEN config[k] ELSE Coming[k]]
      <3>1. Coming' = [k \in Keys |-> Coming'[k]]
        BY DEF Coming
      <3>2. \A k \in Keys : Coming'[k] = IF Reader[k] = c THEN config[k] ELSE Coming[k]
        BY <1>2 DEF IsRestart, Same, Restarted
      <3> QED
        BY <3>1, <3>2
    <2>2. Due' = [k \in Keys |-> IF k \in Of(c) THEN Nothing ELSE Due[k]]
      <3>1. Due' = [k \in Keys |-> Due'[k]]
        BY DEF Due
      <3>2. \A k \in Keys : Due'[k] = IF k \in Of(c) THEN Nothing ELSE Due[k]
        BY <1>2 DEF IsRestart, Same, Restarted, Of
      <3> QED
        BY <3>1, <3>2
    <2>3. Promise!Restart(c)
      BY <1>2, <2>1, <2>2 DEF Promise!Restart, Promise!Cleared, Promise!Of, Of, Promise!Nothing, Nothing,
         IsRestart
    <2> QED
      BY <2>3, PromiseIs DEF Promise!Next
  <1>3. CASE Behind
    BY <1>3 DEF Behind
  <1>4. CASE Stutter \/ Announces
    <2>1. config' = config /\ \A k \in Keys : Same(k)
      BY <1>4 DEF Stutter, Announces
    <2>2. Coming' = Coming
      BY <2>1 DEF Same, Coming
    <2>3. Due' = Due
      BY <2>1 DEF Same, Due
    <2> QED
      BY <2>1, <2>2, <2>3
  <1> QED
    BY <1>1, <1>2, <1>3, <1>4 DEF Plain

-----------------------------------------------------------------------------
(* Theorems                                                                  *)

\* The steps of saving and restarting, as threads and processes take them,
\* implement the notice of RestartNotice, where a save and a restart are atomic.
THEOREM NoticeIsImplemented ==
    ASSUME Patient, Spaced
    PROVE  Spec => KeepsPromise
  <1>1. Init => Promise!Init
    BY InitKeeps
  <1>2. Inv /\ [Next]_vars =>
           [faults' = 0 /\ unannounced' = {} => UNCHANGED <<config, Coming, Due>> \/ Promise!Next]_vars
    <2> SUFFICES ASSUME Inv, Next, faults' = 0, unannounced' = {}
                 PROVE  UNCHANGED <<config, Coming, Due>> \/ Promise!Next
      OBVIOUS
    <2>1. Typed /\ faults = 0 /\ Undisturbed
      BY FaultsStay DEF Inv
    <2> QED
      BY <2>1, NextKeeps, StepPromise
  <1>3. Spec => []Inv
    BY InvAlways
  <1> QED
    BY <1>1, <1>2, <1>3, PTL DEF Spec, KeepsPromise

\* While nothing fails half-way, an option whose saved value means something
\* else than what its service loaded is in the notice.
THEOREM NothingUnreported ==
    ASSUME Patient, Spaced
    PROVE  Spec => []NoDivergenceUnreported
  <1>1. Inv => NoDivergenceUnreported
    BY DEF Inv, Undisturbed, Kept, KeyOK, NoDivergenceUnreported
  <1> QED
    BY <1>1, InvAlways, PTL

\* While nothing fails half-way, the text on record means what the service has
\* loaded: a save that restores it may retire the notice without a restart.
THEOREM RecordIsTrue ==
    ASSUME Patient, Spaced
    PROVE  Spec => []RecordIsWhatRuns
  <1>1. Inv => RecordIsWhatRuns
    BY DEF Inv, Undisturbed, Kept, KeyOK, RecordIsWhatRuns
  <1> QED
    BY <1>1, InvAlways, PTL

\* While nothing fails half-way, an option that is back at the text on record is
\* not in the notice.
THEOREM RevertsAreSilent ==
    ASSUME Patient, Spaced
    PROVE  Spec => []NoNoticeAfterRevert
  <1>1. Inv => NoNoticeAfterRevert
    BY DEF Inv, Undisturbed, Kept, KeyOK, NoNoticeAfterRevert
  <1> QED
    BY <1>1, InvAlways, PTL

\* What a reader of the two files sees when everything has settled.
SettledNotice ==
    faults = 0 /\ Quiet => \A k \in Announced :
        /\ Value(k, config[k]) # Value(k, loaded[k]) => previous[k] # Nothing
        /\ previous[k] # Nothing =>
              Value(k, previous[k]) = Value(k, loaded[k]) /\ previous[k] # config[k]

\* When no one is at work and both services are up, pending-restart.json itself
\* names every option its service runs with another value of, with the text the
\* service runs with, and none that is back at it.
THEOREM SettledNoticeIsTrue ==
    ASSUME Patient, Spaced
    PROVE  Spec => []SettledNotice
  <1>1. Inv => SettledNotice
    <2> SUFFICES ASSUME Inv, faults = 0, Quiet, NEW k \in Announced
                 PROVE  /\ Value(k, config[k]) # Value(k, loaded[k]) => previous[k] # Nothing
                        /\ previous[k] # Nothing =>
                              Value(k, previous[k]) = Value(k, loaded[k]) /\ previous[k] # config[k]
      BY DEF SettledNotice
    <2>1. /\ \A a \in Actors : \A op : ~Lists(a, op)
          /\ k \in Keys /\ Up("api") /\ Up(Reader[k]) /\ snap = {}
      BY IdleIsFine, NothingListed, AnnouncedIs, Constants
         DEF Quiet, Components, Inv, Typed, InPlace
    <2>2. \A do : ToDo(do) = {}
      BY <2>1, ToDoIs
    <2>3. Due[k] = previous[k]
      <3>1. MarkedAs(k) = previous[k]
        BY <2>1, <2>2, NotMarked
      <3>2. ~Retired(k)
        BY <2>1, <2>2 DEF Retired, Up
      <3> QED
        BY <2>1, <3>1, <3>2, DueIs
    <2>4. Coming[k] = loaded[k]
      BY <2>1 DEF Coming, Up
    <2>5. KeyOK(k)
      BY DEF Inv, Undisturbed, Kept
    <2> QED
      BY <2>3, <2>4, <2>5, PromiseIs DEF KeyOK
  <1> QED
    BY <1>1, InvAlways, PTL

=============================================================================
