--------------------------- MODULE SettingsProofs ---------------------------
(***************************************************************************)
(* Proofs about Settings, for any numbers typed, any presses of the button,   *)
(* and any number of commands and of errors of NVS.                          *)
(***************************************************************************)
EXTENDS Settings, SequenceFacts, TLAPS

-----------------------------------------------------------------------------
(* The invariant *)

\* FlashFitsMetadata for what reads return and for what a restart may bring back.
Fits(f) ==
    \A p \in Params : f[p] # Unset =>
        IF p \in StringParams THEN f[p].kind = "string"
                              ELSE f[p].kind = "int" /\ InRange(p, f[p].v)

\* Nobody has a text for the port, and a number is refused: it is never stored.
FlashInv ==
    /\ Fits(stored) /\ Fits(durable)
    /\ stored[6] = Unset /\ durable[6] = Unset

\* A parameter that has been set and will be found after a restart.
Settled(p) == stored[p] # Unset /\ durable[p] = stored[p]

\* A parameter of the station and the host that a factory reset has dealt with.
Restored(p) == stored[p] = FactoryText /\ durable[p] = FactoryText

\* What a task can have to do: no job unsets a parameter or has a text for the
\* port.
PlanInv(t) ==
    /\ pc[t] \in {"set", "commit"} <=> job[t].todo # <<>>
    /\ \A i \in 1 .. Len(job[t].todo) :
        /\ job[t].todo[i][2] # Unset
        /\ job[t].todo[i][1] = 6 => job[t].todo[i][2].kind = "int"
    /\ pc[t] \in {"idle", "restart"} => job[t].then = "idle"
    /\ job[t].then = "resetRestart" => t = "button"

\* What it has done.
DoneInv(t) ==
    /\ pc[t] = "commit" => stored[job[t].todo[1][1]] # Unset
    /\ \A p \in job[t].did : Settled(p)

\* As long as nothing has gone wrong with a factory reset, each of its texts is
\* still to be set or is in its place; between setting and committing it is both.
ResetInv(t) ==
    (job[t].then = "resetRestart" /\ job[t].clean) =>
        /\ \A p \in {2, 3, 5} :
            Restored(p) \/ \E i \in 1 .. Len(job[t].todo) : job[t].todo[i] = <<p, FactoryText>>
        /\ \A i \in 1 .. Len(job[t].todo) :
            job[t].todo[i][1] \in {2, 3, 5} => job[t].todo[i][2] = FactoryText
        /\ (pc[t] = "commit" /\ job[t].todo[1][1] \in {2, 3, 5}) =>
            stored[job[t].todo[1][1]] = FactoryText

HistoryInv ==
    /\ \A p \in acked : Settled(p)
    /\ reset => \A p \in {2, 3, 5} : Restored(p)
    /\ missing # {} => \E p \in missing : stored[p] = Unset

TaskInv(t) == PlanInv(t) /\ DoneInv(t) /\ ResetInv(t)

IInv ==
    /\ TypeOK
    /\ FlashInv
    /\ \A t \in Tasks : TaskInv(t)
    /\ HistoryInv

-----------------------------------------------------------------------------
(* Values *)

\* The values of the model are told apart by their kinds.
LEMMA ValueFacts ==
    /\ Unset \in Values /\ FactoryText \in Values /\ UserText \in Values
    /\ \A n \in Periods \cup {0, 1, FactoryPort} : Num(n) \in Values
    /\ \A v \in Values : v # Unset => v.kind \in {"string", "int"}
    /\ Unset # FactoryText /\ Unset # UserText /\ \A n : Num(n) # Unset
    /\ FactoryText.kind = "string" /\ UserText.kind = "string"
    /\ \A n : Num(n).kind = "int"
<1>1. /\ Unset \in Values /\ FactoryText \in Values /\ UserText \in Values
      /\ \A n \in Periods \cup {0, 1, FactoryPort} : Num(n) \in Values
  <2>1. \A n \in Periods \cup {0, 1, FactoryPort} : Num(n) \in {Num(m) : m \in Periods \cup {0, 1, FactoryPort}}
    BY Zenon
  <2> QED BY <2>1, Zenon DEF Values
<1> USE DEF Values, Unset, FactoryText, UserText, Num, Str
<1>2. Unset.kind = "none"
  OBVIOUS
<1>3. /\ FactoryText.kind = "string" /\ UserText.kind = "string"
      /\ \A n : Num(n).kind = "int"
  OBVIOUS
<1>4. \A v \in Values : v # Unset => v.kind \in {"string", "int"}
  OBVIOUS
<1> HIDE DEF Unset, FactoryText, UserText, Num, Str
<1>5. Unset # FactoryText /\ Unset # UserText /\ \A n : Num(n) # Unset
  BY <1>2, <1>3
<1> QED BY <1>1, <1>3, <1>4, <1>5

\* A task that does not move, over a flash that does not change, keeps its part.
LEMMA IdleTask ==
    ASSUME NEW u \in Tasks, TaskInv(u), job'[u] = job[u], pc'[u] = pc[u],
           stored' = stored, durable' = durable
    PROVE  TaskInv(u)'
BY DEF TaskInv, PlanInv, DoneInv, ResetInv, Settled, Restored

-----------------------------------------------------------------------------
(* Reading, and the start *)

\* Nothing is stored and nobody has anything to do.
LEMMA InitInv == Init => IInv
<1> SUFFICES ASSUME Init PROVE IInv
    OBVIOUS
<1>1. /\ up = TRUE /\ errors = 0 /\ jobs = 0 /\ missing = {} /\ acked = {} /\ reset = FALSE
      /\ \A t \in Tasks : job[t] = NoJob /\ pc[t] = "idle"
      /\ \A p \in Params : stored[p] = Unset /\ durable[p] = Unset
  BY DEF Init
<1>2. TypeOK
  <2>1. NoJob \in Jobs
    BY DEF NoJob, Jobs
  <2>2. /\ stored \in [Params -> Values] /\ durable \in [Params -> Values]
    BY ValueFacts DEF Init
  <2>3. job \in [Tasks -> Jobs] /\ pc \in [Tasks -> {"idle", "set", "commit", "end", "restart"}]
    BY <2>1 DEF Init
  <2>4. up \in BOOLEAN /\ reset \in BOOLEAN /\ missing \in SUBSET Params /\ acked \in SUBSET Params
    BY <1>1
  <2>5. errors \in 0 .. MaxErrors /\ jobs \in 0 .. MaxJobs
    BY <1>1, MaxErrorsAssumption, MaxJobsAssumption
  <2> QED BY <2>2, <2>3, <2>4, <2>5, Zenon DEF TypeOK
<1>3. FlashInv
  BY <1>1 DEF FlashInv, Fits, Params, StringParams, IntParams
<1>4. ASSUME NEW t \in Tasks PROVE TaskInv(t)
  BY <1>1 DEF TaskInv, PlanInv, DoneInv, ResetInv, NoJob
<1>5. HistoryInv
  BY <1>1 DEF HistoryInv
<1> QED BY <1>2, <1>3, <1>4, <1>5 DEF IInv

\* Asking changes nothing but what is missing, and nothing is missing that is
\* stored under the type it was asked for.
LEMMA AskInv ==
    ASSUME IInv, NEW strings \in SUBSET StringParams, NEW ints \in SUBSET (IntParams \cup {6}),
           Ask(strings, ints), UNCHANGED <<flash, job, pc, errors, jobs, history>>, up' \in BOOLEAN
    PROVE  IInv'
<1> USE DEF flash, history
<1>1. TypeOK'
  BY DEF IInv, TypeOK, Ask, Params, StringParams, IntParams
<1>2. FlashInv'
  BY DEF IInv, FlashInv, Fits
<1>3. ASSUME NEW t \in Tasks PROVE TaskInv(t)'
  BY IdleTask DEF IInv
<1>4. missing' # {} => \E p \in missing' : stored[p] = Unset
  <2>1. CASE /\ \A p \in strings : Found(p, "string")
             /\ \A p \in ints : Found(p, "int")
    BY <2>1 DEF Ask
  <2>2. CASE ~(\A p \in strings : Found(p, "string"))
    <3>1. PICK p \in strings : ~Found(p, "string")
      BY <2>2
    <3>2. stored[p] = Unset /\ p \in missing'
      BY <2>2, <3>1 DEF Found, Ask
    <3> QED BY <3>2
  <2>3. CASE ~(\A p \in ints : Found(p, "int"))
    <3>1. PICK p \in ints : ~Found(p, "int")
      BY <2>3
    <3>2. p \in missing'
      BY <2>3, <3>1 DEF Ask
    <3>3. stored[p] = Unset
      BY <3>1 DEF Found, IInv, FlashInv, IntParams
    <3> QED BY <3>2, <3>3
  <2> QED BY <2>1, <2>2, <2>3
<1>5. HistoryInv'
  BY <1>4 DEF IInv, HistoryInv, Settled, Restored
<1> QED BY <1>1, <1>2, <1>3, <1>5 DEF IInv

\* The steps that read: the queries, the tasks that ask, and the start.
LEMMA ReadStepInv == IInv /\ (Boot \/ Query \/ TaskReads) => IInv'
<1> SUFFICES ASSUME IInv, Boot \/ Query \/ TaskReads PROVE IInv'
    OBVIOUS
<1>1. /\ UNCHANGED <<flash, job, pc, errors, jobs, history>>
      /\ up' \in BOOLEAN
  BY DEF Boot, Query, TaskReads, IInv, TypeOK
<1>2. \/ Ask({2, 3}, {}) \/ Ask({9}, {}) \/ Ask({5}, {6}) \/ Ask({}, {8}) \/ Ask({7}, {8})
      \/ Ask({7}, {}) \/ Ask({}, {10})
  BY DEF Boot, Query, TaskReads, ReadHost, ReadSn, factory_test_is_enabled
<1>3. /\ {} \in SUBSET StringParams /\ {2, 3} \in SUBSET StringParams
      /\ {5} \in SUBSET StringParams /\ {7} \in SUBSET StringParams
      /\ {9} \in SUBSET StringParams
      /\ {} \in SUBSET (IntParams \cup {6}) /\ {6} \in SUBSET (IntParams \cup {6})
      /\ {8} \in SUBSET (IntParams \cup {6}) /\ {10} \in SUBSET (IntParams \cup {6})
  BY DEF StringParams, IntParams
<1> QED BY <1>1, <1>2, <1>3, AskInv

-----------------------------------------------------------------------------
(* Commands and presses *)

\* What a job may be given to do: values of the right kinds; a factory reset is
\* the button's and has each of its texts.
GoodJob(t, todo, then) ==
    /\ todo \in Seq(Params \X Values) /\ todo # <<>>
    /\ \A i \in 1 .. Len(todo) :
        /\ todo[i][2] # Unset
        /\ todo[i][1] = 6 => todo[i][2].kind = "int"
    /\ then \in {"idle", "restart", "resetRestart"}
    /\ then = "resetRestart" =>
        /\ t = "button"
        /\ \A p \in {2, 3, 5} : \E i \in 1 .. Len(todo) : todo[i] = <<p, FactoryText>>
        /\ \A i \in 1 .. Len(todo) : todo[i][1] \in {2, 3, 5} => todo[i][2] = FactoryText

\* A task that begins a good job: nothing is done yet, all is still to be set.
LEMMA BeginInv ==
    ASSUME IInv, NEW t \in Tasks, NEW todo, NEW strict \in BOOLEAN, NEW then,
           GoodJob(t, todo, then), Begin(t, todo, strict, then), missing' = {}
    PROVE  IInv'
<1> DEFINE new == [todo |-> todo, did |-> {}, strict |-> strict, then |-> then, clean |-> TRUE]
<1>1. /\ job' = [job EXCEPT ![t] = new]
      /\ pc' = [pc EXCEPT ![t] = "set"]
      /\ jobs < MaxJobs /\ jobs' = jobs + 1
      /\ UNCHANGED <<up, stored, durable, errors, acked, reset>>
  BY DEF Begin, Goto, flash, history
<1>2. new \in Jobs
  BY DEF Jobs, GoodJob
<1>3. /\ new.todo = todo /\ new.did = {} /\ new.then = then
  OBVIOUS
<1> HIDE DEF new
<1>4. /\ job' \in [Tasks -> Jobs] /\ job'[t] = new
      /\ pc' \in [Tasks -> {"idle", "set", "commit", "end", "restart"}] /\ pc'[t] = "set"
      /\ \A u \in Tasks : u # t => job'[u] = job[u] /\ pc'[u] = pc[u]
  BY <1>1, <1>2 DEF IInv, TypeOK
<1>5. TypeOK'
  BY <1>1, <1>4, MaxJobsAssumption DEF IInv, TypeOK
<1>6. FlashInv'
  BY <1>1 DEF IInv, FlashInv, Fits
<1>7. TaskInv(t)'
  BY <1>3, <1>4 DEF TaskInv, PlanInv, DoneInv, ResetInv, GoodJob
<1>8. ASSUME NEW u \in Tasks PROVE TaskInv(u)'
  BY <1>1, <1>4, <1>7, IdleTask DEF IInv
<1>9. HistoryInv'
  BY <1>1 DEF IInv, HistoryInv, Settled, Restored
<1> QED BY <1>5, <1>6, <1>8, <1>9 DEF IInv

\* A job of one parameter.
LEMMA OneJob ==
    ASSUME NEW p \in Params, NEW v \in Values, v # Unset, p = 6 => v.kind = "int",
           NEW t, NEW then \in {"idle", "restart"}
    PROVE  GoodJob(t, << <<p, v>> >>, then)
<1>1. /\ << <<p, v>> >> \in Seq(Params \X Values)
      /\ Len(<< <<p, v>> >>) = 1 /\ << <<p, v>> >> # <<>>
  OBVIOUS
<1> QED BY <1>1 DEF GoodJob

\* The same for two parameters.
LEMMA TwoJobs ==
    ASSUME NEW p \in Params, NEW v \in Values, v # Unset, p = 6 => v.kind = "int",
           NEW q \in Params, NEW w \in Values, w # Unset, q = 6 => w.kind = "int",
           NEW t, NEW then \in {"idle", "restart"}
    PROVE  GoodJob(t, << <<p, v>>, <<q, w>> >>, then)
<1>1. /\ << <<p, v>>, <<q, w>> >> \in Seq(Params \X Values)
      /\ Len(<< <<p, v>>, <<q, w>> >>) = 2 /\ << <<p, v>>, <<q, w>> >> # <<>>
  OBVIOUS
<1> QED BY <1>1 DEF GoodJob

\* The LPTS commands of the terminal.
LEMMA CommandInv == IInv /\ Command /\ missing' = {} => IInv'
<1> SUFFICES ASSUME IInv, Command, missing' = {} PROVE IInv'
    OBVIOUS
<1>0. /\ "terminal" \in Tasks /\ {5, 6, 7, 8, 9, 10} \subseteq Params
      /\ UserText \in Values /\ UserText # Unset /\ Num(0) \in Values
      /\ \A n \in Periods : Num(n) \in Values
      /\ \A n : Num(n) # Unset /\ Num(n).kind = "int"
  BY ValueFacts DEF Tasks, Params, StringParams, IntParams
<1>1. CASE Lpts1
  <2>1. GoodJob("terminal", << <<9, UserText>> >>, "idle")
    BY <1>0, OneJob
  <2> QED BY <1>0, <1>1, <2>1, BeginInv DEF Lpts1
<1>2. CASE Lpts3
  <2>1. PICK n \in Periods : Begin("terminal", << <<5, UserText>>, <<6, Num(n)>> >>, TRUE, "idle")
    BY <1>2, Zenon DEF Lpts3
  <2>2. GoodJob("terminal", << <<5, UserText>>, <<6, Num(n)>> >>, "idle")
    BY <1>0, TwoJobs
  <2> QED BY <1>0, <2>1, <2>2, BeginInv
<1>3. CASE Lpts4
  <2>1. PICK n \in Periods : Begin("terminal", << <<8, Num(n)>> >>, TRUE, "idle")
    BY <1>3, Zenon DEF Lpts4
  <2>2. GoodJob("terminal", << <<8, Num(n)>> >>, "idle")
    BY <1>0, OneJob
  <2> QED BY <1>0, <2>1, <2>2, BeginInv
<1>4. CASE Lpts5
  <2>1. GoodJob("terminal", << <<10, Num(0)>> >>, "restart")
    BY <1>0, OneJob
  <2> QED BY <1>0, <1>4, <2>1, BeginInv DEF Lpts5
<1>5. CASE Lpts7
  <2>1. PICK n \in Periods : Begin("terminal", << <<7, UserText>>, <<8, Num(n)>> >>, TRUE, "idle")
    BY <1>5, Zenon DEF Lpts7
  <2>2. GoodJob("terminal", << <<7, UserText>>, <<8, Num(n)>> >>, "idle")
    BY <1>0, TwoJobs
  <2> QED BY <1>0, <2>1, <2>2, BeginInv
<1> QED BY <1>1, <1>2, <1>3, <1>4, <1>5 DEF Command

\* The three lengths of a press.
LEMMA ReleaseInv == IInv /\ Release /\ missing' = {} => IInv'
<1> SUFFICES ASSUME IInv, Release, missing' = {} PROVE IInv'
    OBVIOUS
<1>0. /\ "button" \in Tasks /\ {2, 3, 5, 6, 10} \subseteq Params
      /\ FactoryText \in Values /\ FactoryText # Unset
      /\ Num(0) \in Values /\ Num(1) \in Values /\ Num(FactoryPort) \in Values
      /\ \A n : Num(n) # Unset /\ Num(n).kind = "int"
  BY ValueFacts DEF Tasks, Params, StringParams, IntParams
<1>1. CASE LongPress
  <2>1. /\ pc["button"] = "idle" /\ pc' = [pc EXCEPT !["button"] = "restart"]
        /\ jobs < MaxJobs /\ jobs' = jobs + 1
        /\ UNCHANGED <<up, stored, durable, job, errors, acked, reset>>
    BY <1>1 DEF LongPress, Goto, flash, history
  <2>2. /\ pc' \in [Tasks -> {"idle", "set", "commit", "end", "restart"}] /\ pc'["button"] = "restart"
        /\ \A u \in Tasks : u # "button" => pc'[u] = pc[u]
    BY <1>0, <2>1 DEF IInv, TypeOK
  <2>3. TypeOK'
    BY <2>1, <2>2, MaxJobsAssumption DEF IInv, TypeOK
  <2>4. FlashInv'
    BY <2>1 DEF IInv, FlashInv, Fits
  <2>5. TaskInv("button")'
    BY <1>0, <2>1, <2>2 DEF IInv, TaskInv, PlanInv, DoneInv, ResetInv, Settled, Restored
  <2>6. ASSUME NEW u \in Tasks PROVE TaskInv(u)'
    BY <2>1, <2>2, <2>5, IdleTask DEF IInv
  <2>7. HistoryInv'
    BY <2>1 DEF IInv, HistoryInv, Settled, Restored
  <2> QED BY <2>3, <2>4, <2>6, <2>7 DEF IInv
<1>2. CASE FactoryReset
  <2> DEFINE todo == FactoryPlan
  <2>1. todo \in Seq(Params \X Values)
    BY <1>0 DEF FactoryPlan
  <2>2. /\ Len(todo) = 5 /\ todo # <<>>
        /\ todo[1] = <<2, FactoryText>> /\ todo[2] = <<3, FactoryText>>
        /\ todo[3] = <<5, FactoryText>> /\ todo[4] = <<6, Num(FactoryPort)>> /\ todo[5] = <<10, Num(0)>>
    BY DEF FactoryPlan
  <2>3. Begin("button", todo, FALSE, "resetRestart")
    BY <1>2, Zenon DEF FactoryReset
  <2> HIDE DEF todo
  <2>4. \A i \in 1 .. 5 : i = 1 \/ i = 2 \/ i = 3 \/ i = 4 \/ i = 5
    OBVIOUS
  <2>5. GoodJob("button", todo, "resetRestart")
    BY <1>0, <2>1, <2>2, <2>4 DEF GoodJob
  <2>6. "button" \in Tasks
    BY <1>0
  <2> QED BY <2>3, <2>5, <2>6, BeginInv, Zenon
<1>3. CASE FactoryTest
  <2>1. GoodJob("button", << <<10, Num(1)>> >>, "idle")
    BY <1>0, OneJob
  <2>2. "button" \in Tasks
    BY <1>0
  <2> QED BY <1>3, <2>1, <2>2, BeginInv, Zenon DEF FactoryTest
<1> QED BY <1>1, <1>2, <1>3 DEF Release

-----------------------------------------------------------------------------
(* Setting and committing *)

\* What is known of a task that has something to set.
LEMMA WorkFacts ==
    ASSUME IInv, NEW t \in Tasks, pc[t] \in {"set", "commit"}
    PROVE  /\ job[t] \in Jobs
           /\ job[t].todo \in Seq(Params \X Values) /\ job[t].todo # <<>>
           /\ Head(job[t].todo) = job[t].todo[1]
           /\ 1 \in 1 .. Len(job[t].todo)
           /\ Param(t) = job[t].todo[1][1] /\ Param(t) \in Params
           /\ Value(t) = job[t].todo[1][2] /\ Value(t) \in Values
           /\ Value(t) # Unset
           /\ Param(t) = 6 => Value(t).kind = "int"
<1>1. job[t] \in Jobs
  BY DEF IInv, TypeOK
<1>2. job[t].todo \in Seq(Params \X Values) /\ job[t].todo # <<>>
  BY <1>1 DEF Jobs, IInv, TaskInv, PlanInv
<1>3. /\ Head(job[t].todo) = job[t].todo[1]
      /\ 1 \in 1 .. Len(job[t].todo)
      /\ job[t].todo[1] \in Params \X Values
  BY <1>2, TailFacts
<1>4. job[t].todo[1][1] \in Params /\ job[t].todo[1][2] \in Values
  BY <1>3
<1>5. /\ job[t].todo[1][2] # Unset
      /\ job[t].todo[1][1] = 6 => job[t].todo[1][2].kind = "int"
  BY <1>3 DEF IInv, TaskInv, PlanInv
<1> QED BY <1>1, <1>2, <1>3, <1>4, <1>5 DEF Param, Value

\* A value that passes the tests fits, and it is not the port.
LEMMA ValidFits ==
    ASSUME IInv, NEW t \in Tasks, pc[t] \in {"set", "commit"}, Valid(Param(t), Value(t))
    PROVE  /\ Param(t) # 6
           /\ IF Param(t) \in StringParams
              THEN Value(t).kind = "string"
              ELSE Value(t).kind = "int" /\ InRange(Param(t), Value(t).v)
<1>1. Value(t).kind \in {"string", "int"}
  BY WorkFacts, ValueFacts
<1>2. CASE Value(t).kind = "string"
  BY <1>2, WorkFacts DEF Valid
<1>3. CASE Value(t).kind = "int"
  BY <1>3 DEF Valid, StringParams, IntParams
<1> QED BY <1>1, <1>2, <1>3

\* nvs_set_*(): what is set is no longer settled, for nobody, and a factory reset
\* that another task sets a parameter under is no longer undisturbed.
LEMMA SetOkInv == ASSUME IInv, NEW t \in Tasks, SetOk(t), missing' = {} PROVE IInv'
<1>1. /\ pc[t] = "set" /\ pc' = [pc EXCEPT ![t] = "commit"]
      /\ Valid(Param(t), Value(t))
      /\ stored' = [stored EXCEPT ![Param(t)] = Value(t)]
      /\ acked' = acked \ {Param(t)} /\ reset' = FALSE
      /\ job' = [u \in Tasks |->
                  [job[u] EXCEPT !.did = @ \ {Param(t)}, !.clean = @ /\ u = t]]
      /\ UNCHANGED <<up, durable, errors, jobs>>
  BY DEF SetOk, Goto
<1> DEFINE P == Param(t)
           V == Value(t)
<1>2. /\ job[t].todo # <<>> /\ 1 \in 1 .. Len(job[t].todo)
      /\ job[t].todo[1][1] = P /\ job[t].todo[1][2] = V
      /\ P \in Params /\ V \in Values /\ V # Unset /\ P # 6
      /\ IF P \in StringParams THEN V.kind = "string" ELSE V.kind = "int" /\ InRange(P, V.v)
  BY <1>1, WorkFacts, ValidFits
<1> HIDE DEF P, V
<1>3. /\ stored' \in [Params -> Values] /\ stored'[P] = V
      /\ \A p \in Params : p # P => stored'[p] = stored[p]
  BY <1>1, <1>2 DEF IInv, TypeOK, P, V
<1>4. ASSUME NEW u \in Tasks
      PROVE  /\ job'[u] \in Jobs
             /\ job'[u].todo = job[u].todo /\ job'[u].then = job[u].then
             /\ job'[u].did = job[u].did \ {P}
             /\ job'[u].clean <=> (job[u].clean /\ u = t)
  <2>1. job[u] \in Jobs
    BY DEF IInv, TypeOK
  <2>2. job'[u] = [job[u] EXCEPT !.did = @ \ {P}, !.clean = @ /\ u = t]
    BY <1>1 DEF P
  <2>3. job'[u] \in Jobs
    BY <2>1, <2>2 DEF Jobs
  <2>4. /\ job'[u].todo = job[u].todo /\ job'[u].then = job[u].then
        /\ job'[u].did = job[u].did \ {P}
    BY <2>1, <2>2 DEF Jobs
  <2>5. job'[u].clean <=> (job[u].clean /\ u = t)
    BY <2>1, <2>2 DEF Jobs
  <2> QED BY <2>3, <2>4, <2>5
<1>5. /\ pc' \in [Tasks -> {"idle", "set", "commit", "end", "restart"}] /\ pc'[t] = "commit"
      /\ \A u \in Tasks : u # t => pc'[u] = pc[u]
  BY <1>1 DEF IInv, TypeOK
<1>6. TypeOK'
  <2>1. job' \in [Tasks -> Jobs]
    BY <1>1, <1>4
  <2>2. missing' \in SUBSET Params /\ acked' \in SUBSET Params /\ reset' \in BOOLEAN
    BY <1>1 DEF IInv, TypeOK
  <2> QED BY <1>1, <1>3, <1>5, <2>1, <2>2 DEF IInv, TypeOK
<1>7. FlashInv'
  <2>1. ASSUME NEW p \in Params, stored'[p] # Unset
        PROVE  IF p \in StringParams THEN stored'[p].kind = "string"
                                     ELSE stored'[p].kind = "int" /\ InRange(p, stored'[p].v)
    <3>1. CASE p = P
      BY <1>2, <1>3, <3>1
    <3>2. CASE p # P
      BY <1>3, <2>1, <3>2 DEF IInv, FlashInv, Fits
    <3> QED BY <3>1, <3>2
  <2>2. Fits(stored)'
    BY <2>1 DEF Fits
  <2>3. Fits(durable)' /\ durable'[6] = Unset
    BY <1>1 DEF IInv, FlashInv, Fits
  <2>4. stored'[6] = Unset
    BY <1>2, <1>3 DEF IInv, FlashInv, Params, StringParams
  <2> QED BY <2>2, <2>3, <2>4 DEF FlashInv
<1>8. ASSUME NEW u \in Tasks PROVE TaskInv(u)'
  <2>1. PlanInv(u)'
    <3>1. PlanInv(u) /\ job'[u].todo = job[u].todo /\ job'[u].then = job[u].then
      BY <1>4 DEF IInv, TaskInv
    <3>2. CASE u = t
      <4>1. pc[u] = "set" /\ pc'[u] = "commit" /\ job[u].todo # <<>>
        BY <1>1, <1>2, <1>5, <3>2
      <4> QED BY <3>1, <4>1 DEF PlanInv
    <3>3. CASE u # t
      BY <1>5, <3>1, <3>3 DEF PlanInv
    <3> QED BY <3>2, <3>3
  <2>2. DoneInv(u)'
    <3>1. ASSUME pc'[u] = "commit" PROVE stored'[job[u].todo[1][1]] # Unset
      <4>1. CASE u = t
        BY <1>2, <1>3, <4>1
      <4>2. CASE u # t
        <5>1. pc[u] = "commit"
          BY <1>5, <3>1, <4>2
        <5>2. stored[job[u].todo[1][1]] # Unset /\ job[u].todo[1][1] \in Params
          BY <5>1, WorkFacts DEF IInv, TaskInv, DoneInv
        <5> QED BY <1>2, <1>3, <5>2
      <4> QED BY <4>1, <4>2
    <3>2. ASSUME NEW p \in job[u].did, p # P PROVE Settled(p)'
      <4>1. p \in Params
        BY DEF IInv, TypeOK, Jobs
      <4>2. Settled(p)
        BY DEF IInv, TaskInv, DoneInv
      <4> QED BY <1>1, <1>3, <3>2, <4>1, <4>2 DEF Settled
    <3> QED BY <1>4, <3>1, <3>2 DEF DoneInv
  <2>3. ResetInv(u)'
    <3> SUFFICES ASSUME job'[u].then = "resetRestart", job'[u].clean PROVE ResetInv(u)'
        BY DEF ResetInv
    <3>1. u = t /\ job[t].then = "resetRestart" /\ job[t].clean
      BY <1>4
    <3>2. P \in {2, 3, 5} => V = FactoryText
      BY <1>2, <3>1 DEF IInv, TaskInv, ResetInv
    <3>3. ASSUME NEW p \in {2, 3, 5}, Restored(p) PROVE Restored(p)'
      BY <1>1, <1>3, <3>2, <3>3 DEF Restored, Params, StringParams
    <3>4. /\ ResetInv(t) /\ job'[t].todo = job[t].todo
      BY <1>4 DEF IInv, TaskInv
    <3>5. \A p \in {2, 3, 5} : Restored(p)' \/
            \E i \in 1 .. Len(job'[t].todo) : job'[t].todo[i] = <<p, FactoryText>>
      BY <3>1, <3>3, <3>4 DEF ResetInv
    <3>6. \A i \in 1 .. Len(job'[t].todo) :
            job'[t].todo[i][1] \in {2, 3, 5} => job'[t].todo[i][2] = FactoryText
      BY <3>1, <3>4 DEF ResetInv
    <3>7. job'[t].todo[1][1] \in {2, 3, 5} => stored'[job'[t].todo[1][1]] = FactoryText
      BY <1>2, <1>3, <3>2, <3>4
    <3> QED BY <3>1, <3>5, <3>6, <3>7 DEF ResetInv
  <2> QED BY <2>1, <2>2, <2>3 DEF TaskInv
<1>9. HistoryInv'
  <2>1. ASSUME NEW p \in acked, p # P PROVE Settled(p)'
    BY <1>1, <1>3, <2>1 DEF IInv, TypeOK, HistoryInv, Settled
  <2> QED BY <1>1, <2>1 DEF HistoryInv, P
<1> QED BY <1>6, <1>7, <1>8, <1>9 DEF IInv

\* A task that has dealt with the first of its parameters still has a plan.
LEMMA OnwardPlan ==
    ASSUME IInv, NEW t \in Tasks, pc[t] \in {"set", "commit"},
           pc'[t] = Onward(t), job'[t].todo = Tail(job[t].todo), job'[t].then = job[t].then
    PROVE  /\ PlanInv(t)' /\ pc'[t] \in {"set", "end"}
           /\ job'[t].todo \in Seq(Params \X Values)
           /\ \A i \in 1 .. Len(job'[t].todo) :
                /\ i + 1 \in 1 .. Len(job[t].todo)
                /\ job'[t].todo[i] = job[t].todo[i + 1]
           /\ \A i \in 1 .. Len(job[t].todo) : i = 1 \/
                \E j \in 1 .. Len(job'[t].todo) : job'[t].todo[j] = job[t].todo[i]
<1>1. job[t].todo \in Seq(Params \X Values) /\ job[t].todo # <<>>
  BY WorkFacts
<1>2. /\ job'[t].todo \in Seq(Params \X Values)
      /\ \A i \in 1 .. Len(job'[t].todo) :
           /\ i + 1 \in 1 .. Len(job[t].todo)
           /\ job'[t].todo[i] = job[t].todo[i + 1]
      /\ job'[t].todo = <<>> <=> Len(job[t].todo) = 1
  BY <1>1, TailFacts
<1>3. ASSUME NEW i \in 1 .. Len(job[t].todo), i # 1
      PROVE  \E j \in 1 .. Len(job'[t].todo) : job'[t].todo[j] = job[t].todo[i]
  <2>1. i - 1 \in 1 .. Len(job'[t].todo) /\ job'[t].todo[i - 1] = job[t].todo[i]
    BY <1>1, <1>3, TailFacts
  <2> QED BY <2>1
<1>4. pc'[t] = IF Len(job[t].todo) = 1 THEN "end" ELSE "set"
  BY DEF Onward
<1>5. PlanInv(t)'
  <2>1. pc'[t] \in {"set", "commit"} <=> job'[t].todo # <<>>
    BY <1>2, <1>4
  <2>2. ASSUME NEW i \in 1 .. Len(job'[t].todo)
        PROVE  /\ job'[t].todo[i][2] # Unset
               /\ job'[t].todo[i][1] = 6 => job'[t].todo[i][2].kind = "int"
    BY <1>2 DEF IInv, TaskInv, PlanInv
  <2>3. /\ pc'[t] \notin {"idle", "restart"}
        /\ job'[t].then = "resetRestart" => t = "button"
    BY <1>4 DEF IInv, TaskInv, PlanInv
  <2> QED BY <2>1, <2>2, <2>3 DEF PlanInv
<1> QED BY <1>2, <1>3, <1>4, <1>5

\* What the steps of one task leave alone of the other.
LEMMA OtherTask ==
    ASSUME IInv, NEW t \in Tasks, NEW x, NEW y,
           job' = [job EXCEPT ![t] = x], pc' = [pc EXCEPT ![t] = y]
    PROVE  /\ job'[t] = x /\ pc'[t] = y
           /\ \A u \in Tasks : u # t => job'[u] = job[u] /\ pc'[u] = pc[u]
           /\ x \in Jobs => job' \in [Tasks -> Jobs]
           /\ y \in {"idle", "set", "commit", "end", "restart"} =>
                pc' \in [Tasks -> {"idle", "set", "commit", "end", "restart"}]
BY DEF IInv, TypeOK

\* nvs_commit(): all that is stored is settled.
LEMMA CommitOkInv == ASSUME IInv, NEW t \in Tasks, CommitOk(t), missing' = {} PROVE IInv'
<1> DEFINE P == Param(t)
           J == [job[t] EXCEPT !.todo = Tail(@), !.did = @ \cup {P}]
<1>1. /\ pc[t] = "commit" /\ pc' = [pc EXCEPT ![t] = Onward(t)]
      /\ durable' = stored
      /\ job' = [job EXCEPT ![t] = J]
      /\ UNCHANGED <<up, stored, errors, jobs, acked, reset>>
  BY DEF CommitOk, Goto, history
<1>2. /\ job[t] \in Jobs /\ P \in Params /\ P = job[t].todo[1][1]
      /\ 1 \in 1 .. Len(job[t].todo)
      /\ stored[P] # Unset
  BY <1>1, WorkFacts DEF IInv, TaskInv, DoneInv
<1> HIDE DEF P
<1>3. /\ J.todo = Tail(job[t].todo) /\ J.did = job[t].did \cup {P}
      /\ J.strict = job[t].strict /\ J.then = job[t].then /\ J.clean = job[t].clean
  BY <1>2 DEF Jobs
<1>4. Onward(t) \in {"set", "end"}
  BY DEF Onward
<1>5. J \in Jobs
  <2>1. Tail(job[t].todo) \in Seq(Params \X Values)
    BY <1>1, WorkFacts, TailFacts
  <2> QED BY <1>2, <2>1 DEF Jobs
<1> HIDE DEF J
<1>6. /\ job'[t] = J /\ pc'[t] = Onward(t)
      /\ \A u \in Tasks : u # t => job'[u] = job[u] /\ pc'[u] = pc[u]
      /\ job' \in [Tasks -> Jobs]
      /\ pc' \in [Tasks -> {"idle", "set", "commit", "end", "restart"}]
  BY <1>1, <1>4, <1>5, OtherTask
<1>7. TypeOK'
  BY <1>1, <1>6 DEF IInv, TypeOK
<1>8. FlashInv'
  BY <1>1 DEF IInv, FlashInv, Fits
<1>9. \A p : (Settled(p) => Settled(p)') /\ (Restored(p) => Restored(p)')
  BY <1>1 DEF Settled, Restored
<1>10. TaskInv(t)'
  <2>1. /\ PlanInv(t)'
        /\ \A i \in 1 .. Len(job'[t].todo) :
             /\ i + 1 \in 1 .. Len(job[t].todo)
             /\ job'[t].todo[i] = job[t].todo[i + 1]
        /\ \A i \in 1 .. Len(job[t].todo) : i = 1 \/
             \E j \in 1 .. Len(job'[t].todo) : job'[t].todo[j] = job[t].todo[i]
    BY <1>1, <1>3, <1>6, OnwardPlan
  <2>2. DoneInv(t)'
    <3>1. ASSUME NEW p \in job'[t].did PROVE Settled(p)'
      <4>1. CASE p = P
        BY <1>1, <1>2, <4>1 DEF Settled
      <4>2. CASE p # P
        <5>1. Settled(p)
          BY <1>3, <1>6, <4>2 DEF IInv, TaskInv, DoneInv
        <5> QED BY <1>9, <5>1
      <4> QED BY <4>1, <4>2
    <3>2. pc'[t] # "commit"
      BY <1>4, <1>6
    <3> QED BY <3>1, <3>2 DEF DoneInv
  <2>3. ResetInv(t)'
    <3> SUFFICES ASSUME job'[t].then = "resetRestart", job'[t].clean PROVE ResetInv(t)'
        BY DEF ResetInv
    <3>1. /\ \A p \in {2, 3, 5} :
               Restored(p) \/ \E i \in 1 .. Len(job[t].todo) : job[t].todo[i] = <<p, FactoryText>>
          /\ \A i \in 1 .. Len(job[t].todo) :
               job[t].todo[i][1] \in {2, 3, 5} => job[t].todo[i][2] = FactoryText
          /\ P \in {2, 3, 5} => stored[P] = FactoryText
      <4>1. job[t].then = "resetRestart" /\ job[t].clean /\ pc[t] = "commit"
        BY <1>1, <1>3, <1>6
      <4> QED BY <1>2, <4>1 DEF IInv, TaskInv, ResetInv
    <3>2. ASSUME NEW p \in {2, 3, 5}
          PROVE  Restored(p)' \/
                 \E j \in 1 .. Len(job'[t].todo) : job'[t].todo[j] = <<p, FactoryText>>
      <4>1. CASE Restored(p)
        BY <1>9, <4>1
      <4>2. ASSUME NEW i \in 1 .. Len(job[t].todo), job[t].todo[i] = <<p, FactoryText>>
            PROVE  Restored(p)' \/
                   \E j \in 1 .. Len(job'[t].todo) : job'[t].todo[j] = <<p, FactoryText>>
        <5>1. CASE i = 1
          <6>1. P = p
            BY <1>2, <4>2, <5>1
          <6> QED BY <1>1, <3>1, <6>1 DEF Restored
        <5>2. CASE i # 1
          <6>1. PICK j \in 1 .. Len(job'[t].todo) : job'[t].todo[j] = job[t].todo[i]
            BY <2>1, <5>2
          <6>2. job'[t].todo[j] = <<p, FactoryText>>
            BY <4>2, <6>1
          <6> QED BY <6>2
        <5> QED BY <5>1, <5>2
      <4> QED BY <3>1, <4>1, <4>2
    <3>3. ASSUME NEW i \in 1 .. Len(job'[t].todo), job'[t].todo[i][1] \in {2, 3, 5}
          PROVE  job'[t].todo[i][2] = FactoryText
      <4>1. i + 1 \in 1 .. Len(job[t].todo) /\ job'[t].todo[i] = job[t].todo[i + 1]
        BY <2>1
      <4> QED BY <3>1, <3>3, <4>1
    <3>4. pc'[t] # "commit"
      BY <1>4, <1>6
    <3> QED BY <3>2, <3>3, <3>4 DEF ResetInv
  <2> QED BY <2>1, <2>2, <2>3 DEF TaskInv
<1>11. ASSUME NEW u \in Tasks, u # t PROVE TaskInv(u)'
  <2>1. job'[u] = job[u] /\ pc'[u] = pc[u] /\ stored' = stored /\ TaskInv(u)
    BY <1>1, <1>6, <1>11 DEF IInv
  <2>2. PlanInv(u)' /\ DoneInv(u)'
    BY <1>9, <2>1 DEF TaskInv, PlanInv, DoneInv
  <2>3. ResetInv(u)'
    BY <1>9, <2>1 DEF TaskInv, ResetInv
  <2> QED BY <2>2, <2>3 DEF TaskInv
<1>12. HistoryInv'
  BY <1>1, <1>9 DEF IInv, HistoryInv
<1> QED BY <1>7, <1>8, <1>10, <1>11, <1>12 DEF IInv

\* A task without work, over a flash that does not change.
LEMMA RestingTask ==
    ASSUME NEW t \in Tasks, job'[t] = NoJob, pc'[t] \in {"idle", "restart"}
    PROVE  TaskInv(t)'
<1>1. /\ job'[t].todo = <<>> /\ job'[t].did = {} /\ job'[t].then = "idle"
      /\ Len(<<>>) = 0
  BY DEF NoJob
<1> QED BY <1>1 DEF TaskInv, PlanInv, DoneInv, ResetInv

\* A parameter that is not set: a strict job ends, and any other goes on with the
\* next; a factory reset counts as undisturbed if the code refuses the value.
LEMMA GiveUpInv ==
    ASSUME IInv, NEW t \in Tasks, NEW from \in {"set", "commit"}, NEW clean \in BOOLEAN,
           GiveUp(t, from, clean), clean => from = "set" /\ ~Valid(Param(t), Value(t)),
           UNCHANGED <<up, flash, jobs, history>>, errors' \in 0 .. MaxErrors, missing' = {}
    PROVE  IInv'
<1>1. UNCHANGED <<up, stored, durable, jobs, acked, reset>>
  BY DEF flash, history
<1>2. FlashInv' /\ HistoryInv'
  BY <1>1 DEF IInv, FlashInv, Fits, HistoryInv, Settled, Restored
<1>3. TypeOK' /\ TaskInv(t)' /\ \A u \in Tasks : u # t => job'[u] = job[u] /\ pc'[u] = pc[u]
  <2>1. CASE job[t].strict
    <3>1. job' = [job EXCEPT ![t] = NoJob] /\ pc' = [pc EXCEPT ![t] = "idle"]
      BY <2>1 DEF GiveUp, Goto
    <3>2. NoJob \in Jobs
      BY DEF NoJob, Jobs
    <3>3. /\ job'[t] = NoJob /\ pc'[t] = "idle"
          /\ \A u \in Tasks : u # t => job'[u] = job[u] /\ pc'[u] = pc[u]
          /\ job' \in [Tasks -> Jobs]
          /\ pc' \in [Tasks -> {"idle", "set", "commit", "end", "restart"}]
      BY <3>1, <3>2, OtherTask
    <3>4. TypeOK'
      BY <1>1, <3>3 DEF IInv, TypeOK
    <3> QED BY <3>3, <3>4, RestingTask
  <2>2. CASE ~job[t].strict
    <3> DEFINE J == [job[t] EXCEPT !.todo = Tail(@), !.clean = @ /\ clean]
    <3>1. /\ pc[t] = from /\ job' = [job EXCEPT ![t] = J] /\ pc' = [pc EXCEPT ![t] = Onward(t)]
      BY <2>2 DEF GiveUp, Goto
    <3>2. /\ job[t] \in Jobs /\ 1 \in 1 .. Len(job[t].todo)
          /\ job[t].todo[1][1] = Param(t) /\ job[t].todo[1][2] = Value(t)
      BY <3>1, WorkFacts
    <3>3. /\ J.todo = Tail(job[t].todo) /\ J.did = job[t].did /\ J.then = job[t].then
          /\ J.clean <=> (job[t].clean /\ clean)
      BY <3>2 DEF Jobs
    <3>4. J \in Jobs
      <4>1. Tail(job[t].todo) \in Seq(Params \X Values)
        BY <3>1, WorkFacts, TailFacts
      <4> QED BY <3>2, <4>1 DEF Jobs
    <3> HIDE DEF J
    <3>5. Onward(t) \in {"set", "end"}
      BY DEF Onward
    <3>6. /\ job'[t] = J /\ pc'[t] = Onward(t)
          /\ \A u \in Tasks : u # t => job'[u] = job[u] /\ pc'[u] = pc[u]
          /\ job' \in [Tasks -> Jobs]
          /\ pc' \in [Tasks -> {"idle", "set", "commit", "end", "restart"}]
      BY <3>1, <3>4, <3>5, OtherTask
    <3>7. TypeOK'
      BY <1>1, <3>6 DEF IInv, TypeOK
    <3>8. /\ PlanInv(t)'
          /\ \A i \in 1 .. Len(job'[t].todo) :
               /\ i + 1 \in 1 .. Len(job[t].todo)
               /\ job'[t].todo[i] = job[t].todo[i + 1]
          /\ \A i \in 1 .. Len(job[t].todo) : i = 1 \/
               \E j \in 1 .. Len(job'[t].todo) : job'[t].todo[j] = job[t].todo[i]
      BY <3>1, <3>3, <3>6, OnwardPlan
    <3>9. DoneInv(t)'
      <4>1. pc'[t] # "commit"
        BY <3>5, <3>6
      <4>2. \A p \in job'[t].did : Settled(p)'
        BY <1>1, <3>3, <3>6 DEF IInv, TaskInv, DoneInv, Settled
      <4> QED BY <4>1, <4>2 DEF DoneInv
    <3>10. ResetInv(t)'
      <4> SUFFICES ASSUME job'[t].then = "resetRestart", job'[t].clean PROVE ResetInv(t)'
          BY DEF ResetInv
      <4>1. clean /\ job[t].clean /\ job[t].then = "resetRestart"
        BY <3>3, <3>6
      <4>2. /\ \A p \in {2, 3, 5} :
                 Restored(p) \/ \E i \in 1 .. Len(job[t].todo) : job[t].todo[i] = <<p, FactoryText>>
            /\ \A i \in 1 .. Len(job[t].todo) :
                 job[t].todo[i][1] \in {2, 3, 5} => job[t].todo[i][2] = FactoryText
        BY <4>1 DEF IInv, TaskInv, ResetInv
      <4>3. ASSUME NEW p \in {2, 3, 5}, job[t].todo[1] = <<p, FactoryText>> PROVE FALSE
        <5>1. Param(t) \in StringParams /\ Value(t).kind = "string"
          BY <3>2, <4>3, ValueFacts DEF StringParams
        <5> QED BY <4>1, <5>1 DEF Valid
      <4>4. ASSUME NEW p \in {2, 3, 5}
            PROVE  Restored(p)' \/
                   \E j \in 1 .. Len(job'[t].todo) : job'[t].todo[j] = <<p, FactoryText>>
        <5>1. CASE Restored(p)
          BY <1>1, <5>1 DEF Restored
        <5>2. ASSUME NEW i \in 1 .. Len(job[t].todo), job[t].todo[i] = <<p, FactoryText>>
              PROVE  \E j \in 1 .. Len(job'[t].todo) : job'[t].todo[j] = <<p, FactoryText>>
          <6>1. i # 1
            BY <4>3, <5>2
          <6> QED BY <3>8, <5>2, <6>1
        <5> QED BY <4>2, <5>1, <5>2
      <4>5. ASSUME NEW i \in 1 .. Len(job'[t].todo), job'[t].todo[i][1] \in {2, 3, 5}
            PROVE  job'[t].todo[i][2] = FactoryText
        <5>1. i + 1 \in 1 .. Len(job[t].todo) /\ job'[t].todo[i] = job[t].todo[i + 1]
          BY <3>8
        <5> QED BY <4>2, <4>5, <5>1
      <4>6. pc'[t] # "commit"
        BY <3>5, <3>6
      <4> QED BY <4>4, <4>5, <4>6 DEF ResetInv
    <3> QED BY <3>6, <3>7, <3>8, <3>9, <3>10 DEF TaskInv
  <2> QED BY <2>1, <2>2
<1>4. ASSUME NEW u \in Tasks PROVE TaskInv(u)'
  BY <1>1, <1>3, IdleTask DEF IInv
<1> QED BY <1>2, <1>3, <1>4 DEF IInv

\* The two ways a parameter is not set: the table refuses it, or NVS fails.
LEMMA RefusedInv ==
    ASSUME IInv, NEW t \in Tasks, SetRefused(t) \/ NvsFails(t), missing' = {} PROVE IInv'
<1>1. CASE SetRefused(t)
  <2>1. errors' \in 0 .. MaxErrors
    BY <1>1 DEF SetRefused, IInv, TypeOK
  <2> QED BY <1>1, <2>1, GiveUpInv DEF SetRefused
<1>2. CASE NvsFails(t)
  <2>1. errors' \in 0 .. MaxErrors
    BY <1>2, MaxErrorsAssumption DEF NvsFails, IInv, TypeOK
  <2> QED BY <1>2, <2>1, GiveUpInv DEF NvsFails
<1> QED BY <1>1, <1>2

\* The end of a job: what it has done is settled, and a factory reset that nothing
\* disturbed has nothing left to set.
LEMMA EndInv == ASSUME IInv, NEW t \in Tasks, End(t), missing' = {} PROVE IInv'
<1> DEFINE next == IF job[t].then = "idle" THEN "idle" ELSE "restart"
<1>1. /\ pc[t] = "end" /\ pc' = [pc EXCEPT ![t] = next]
      /\ job' = [job EXCEPT ![t] = NoJob]
      /\ acked' = IF t = "terminal" THEN job[t].did ELSE acked
      /\ reset' = (reset \/ (job[t].then = "resetRestart" /\ job[t].clean))
      /\ UNCHANGED <<up, stored, durable, errors, jobs>>
  BY DEF End, Goto, flash
<1>2. next \in {"idle", "restart"}
  OBVIOUS
<1> HIDE DEF next
<1>3. NoJob \in Jobs
  BY DEF NoJob, Jobs
<1>4. /\ job'[t] = NoJob /\ pc'[t] = next
      /\ \A u \in Tasks : u # t => job'[u] = job[u] /\ pc'[u] = pc[u]
      /\ job' \in [Tasks -> Jobs]
      /\ pc' \in [Tasks -> {"idle", "set", "commit", "end", "restart"}]
  BY <1>1, <1>2, <1>3, OtherTask
<1>5. TypeOK'
  <2>1. acked' \in SUBSET Params
    <3>1. job[t].did \in SUBSET Params
      BY DEF IInv, TypeOK, Jobs
    <3> QED BY <1>1, <3>1 DEF IInv, TypeOK
  <2>2. reset' \in BOOLEAN
    BY <1>1
  <2> QED BY <1>1, <1>4, <2>1, <2>2 DEF IInv, TypeOK
<1>6. FlashInv'
  BY <1>1 DEF IInv, FlashInv, Fits
<1>7. ASSUME NEW u \in Tasks PROVE TaskInv(u)'
  BY <1>1, <1>2, <1>4, RestingTask, IdleTask DEF IInv
<1>8. HistoryInv'
  <2>1. \A p : (Settled(p) => Settled(p)') /\ (Restored(p) => Restored(p)')
    BY <1>1 DEF Settled, Restored
  <2>2. \A p \in acked' : Settled(p)
    BY <1>1 DEF IInv, TaskInv, DoneInv, HistoryInv
  <2>3. reset' => \A p \in {2, 3, 5} : Restored(p)
    <3>1. CASE reset
      BY <3>1 DEF IInv, HistoryInv
    <3>2. CASE job[t].then = "resetRestart" /\ job[t].clean
      <4>1. job[t].todo = <<>> /\ Len(<<>>) = 0
        BY <1>1 DEF IInv, TaskInv, PlanInv
      <4> QED BY <3>2, <4>1 DEF IInv, TaskInv, ResetInv
    <3> QED BY <1>1, <3>1, <3>2
  <2> QED BY <2>1, <2>2, <2>3 DEF HistoryInv
<1> QED BY <1>5, <1>6, <1>7, <1>8 DEF IInv

\* A restart or a loss of power: each parameter keeps what was set or goes back to
\* what is durable, and settled ones have no choice.
LEMMA DownInv == ASSUME IInv, Down, missing' = {} PROVE IInv'
<1>1. /\ up' = FALSE /\ durable' = stored'
      /\ job' = [t \in Tasks |-> NoJob] /\ pc' = [t \in Tasks |-> "idle"]
      /\ UNCHANGED <<errors, jobs, acked, reset>>
  BY DEF Down, history
<1>2. PICK lost \in SUBSET {p \in Params : stored[p] # durable[p]} :
        stored' = [p \in Params |-> IF p \in lost THEN durable[p] ELSE stored[p]]
  BY DEF Down
<1>3. \A p \in Params : stored'[p] = stored[p] \/ stored'[p] = durable[p]
  BY <1>2
<1>4. TypeOK'
  <2>1. stored' \in [Params -> Values]
    BY <1>2 DEF IInv, TypeOK
  <2>2. NoJob \in Jobs
    BY DEF NoJob, Jobs
  <2>3. /\ job' \in [Tasks -> Jobs]
        /\ pc' \in [Tasks -> {"idle", "set", "commit", "end", "restart"}]
    BY <1>1, <2>2
  <2> QED BY <1>1, <2>1, <2>3 DEF IInv, TypeOK
<1>5. FlashInv'
  <2>1. 6 \in Params
    BY DEF Params, StringParams
  <2>2. Fits(stored)' /\ stored'[6] = Unset
    BY <1>3, <2>1 DEF IInv, FlashInv, Fits
  <2> QED BY <1>1, <2>2 DEF FlashInv, Fits
<1>6. ASSUME NEW t \in Tasks PROVE TaskInv(t)'
  <2>1. job'[t] = NoJob /\ pc'[t] = "idle"
    BY <1>1
  <2> QED BY <2>1, RestingTask
<1>7. ASSUME NEW p \in Params
      PROVE  (Settled(p) => Settled(p)') /\ (Restored(p) => Restored(p)')
  BY <1>1, <1>3 DEF Settled, Restored
<1>8. HistoryInv'
  <2>1. {2, 3, 5} \subseteq Params /\ acked \subseteq Params
    BY DEF IInv, TypeOK, Params, StringParams
  <2> QED BY <1>1, <1>7, <2>1 DEF IInv, HistoryInv
<1> QED BY <1>4, <1>5, <1>6, <1>8 DEF IInv

-----------------------------------------------------------------------------
(* The invariant holds *)

\* Every reachable state keeps the invariant.
THEOREM SpecIInv == Spec => []IInv
<1>1. ASSUME IInv, [Next]_vars PROVE IInv'
  <2>1. CASE Silent(Command \/ Release)
    BY <1>1, <2>1, CommandInv, ReleaseInv DEF Silent
  <2>2. ASSUME NEW t \in Tasks, Silent(Step(t)) PROVE IInv'
    BY <1>1, <2>2, SetOkInv, CommitOkInv, RefusedInv, EndInv DEF Silent, Step
  <2>3. CASE Silent(PowerLoss) \/ \E t \in Tasks : Silent(Restart(t))
    BY <1>1, <2>3, DownInv DEF Silent, PowerLoss, Restart
  <2>4. CASE Boot \/ Query \/ TaskReads
    BY <1>1, <2>4, ReadStepInv
  <2>5. CASE UNCHANGED vars
    <3>1. UNCHANGED <<up, stored, durable, job, pc, errors, jobs, missing, acked, reset>>
      BY <2>5 DEF vars, flash, history
    <3>2. TypeOK' /\ FlashInv' /\ HistoryInv'
      BY <1>1, <3>1 DEF IInv, TypeOK, FlashInv, Fits, HistoryInv, Settled, Restored
    <3>3. ASSUME NEW t \in Tasks PROVE TaskInv(t)'
      BY <1>1, <3>1, IdleTask DEF IInv
    <3> QED BY <3>2, <3>3 DEF IInv
  <2> QED BY <1>1, <2>1, <2>2, <2>3, <2>4, <2>5 DEF Next
<1> QED BY <1>1, InitInv, PTL DEF Spec

-----------------------------------------------------------------------------
(* What follows from it *)

\* The variables keep their types.
THEOREM SettingsTypeCorrect == Spec => []TypeOK
<1>1. IInv => TypeOK
  BY DEF IInv
<1> QED BY <1>1, SpecIInv, PTL

\* param_set_string() and param_set_int() let nothing into flash that the table
\* does not allow, whatever is interrupted.
THEOREM FlashKeepsToMetadata == Spec => []FlashFitsMetadata
<1>1. IInv => FlashFitsMetadata
  BY DEF IInv, FlashInv, Fits, FlashFitsMetadata
<1> QED BY <1>1, SpecIInv, PTL

\* The terminal answers OK only after nvs_commit() has made durable what it set.
THEOREM OkIsDurable == Spec => []OkMeansDurable
<1>1. IInv => OkMeansDurable
  BY DEF IInv, HistoryInv, Settled, OkMeansDurable
<1> QED BY <1>1, SpecIInv, PTL

\* Asking for what was answered OK is never in vain.
THEOREM AcknowledgedFound == Spec => []AcknowledgedIsFound
<1>1. IInv => AcknowledgedIsFound
  BY DEF IInv, HistoryInv, Settled, AcknowledgedIsFound
<1> QED BY <1>1, SpecIInv, PTL

\* After an undisturbed factory reset the station always has its configuration.
THEOREM ResetKeepsStation == Spec => []ResetConfiguresStation
<1>1. ASSUME IInv PROVE ResetConfiguresStation
  <2>1. ASSUME reset PROVE \A p \in {2, 3, 5} : Restored(p)
    BY <1>1, <2>1 DEF IInv, HistoryInv
  <2>2. ASSUME reset PROVE missing # {2, 3}
    BY <1>1, <2>1, <2>2, ValueFacts DEF IInv, HistoryInv, Restored
  <2> QED BY <2>1, <2>2 DEF ResetConfiguresStation, Restored
<1> QED BY <1>1, SpecIInv, PTL

-----------------------------------------------------------------------------
(* The parameters as a store that keeps its promises: every step of Settings  *)
(* is one of ParamStore.  Setting sets, an answer promises, reading asks, and *)
(* whatever else goes on asks for nothing.                                   *)

\* What the table lets a parameter be set to.
AllowedValues(p) == {v \in Values \ {Unset} : Valid(p, v)}

\* A value that fits its parameter is one it may be set to.
LEMMA FittingIsAllowed ==
    ASSUME NEW p \in Params, NEW v \in Values, v # Unset,
           IF p \in StringParams THEN v.kind = "string"
                                 ELSE v.kind = "int" /\ InRange(p, v.v)
    PROVE  v \in AllowedValues(p)
<1>1. p \in StringParams \/ p \in IntParams
  BY DEF Params
<1>2. Valid(p, v)
  BY <1>1 DEF Valid
<1> QED BY <1>2 DEF AllowedValues

\* A step that touches no parameter and reads none.
LEMMA QuietStore ==
    ASSUME stored' = stored, acked' = acked, missing' = {} PROVE Store!Next
<1>1. Store!Ask({})
  BY DEF Store!Ask
<1> QED BY <1>1 DEF Store!Next

\* nvs_set_*(): the parameter has another value, and no answer stands for it yet.
LEMMA SetOkStore == ASSUME IInv, NEW t \in Tasks, SetOk(t), missing' = {} PROVE Store!Next
<1>1. /\ pc[t] = "set" /\ Valid(Param(t), Value(t))
      /\ stored' = [stored EXCEPT ![Param(t)] = Value(t)]
      /\ acked' = acked \ {Param(t)}
  BY DEF SetOk, Goto
<1>2. Param(t) \in Params /\ Value(t) \in AllowedValues(Param(t))
  BY <1>1, WorkFacts DEF AllowedValues
<1>3. Store!Set(Param(t), Value(t))
  BY <1>1, <1>2 DEF Store!Set, AllowedValues
<1>4. \E p \in Params : \E v \in AllowedValues(p) : Store!Set(p, v)
  BY <1>2, <1>3
<1> QED BY <1>4 DEF Store!Next, AllowedValues

\* The answer OK promises what the command has set and committed, all of it
\* settled; the end of a press of the button promises nothing.
LEMMA EndStore == ASSUME IInv, NEW t \in Tasks, End(t), missing' = {} PROVE Store!Next
<1>1. /\ stored' = stored
      /\ acked' = IF t = "terminal" THEN job[t].did ELSE acked
  BY DEF End, flash
<1>2. CASE t = "terminal"
  <2>1. job[t].did \in SUBSET Params
    BY DEF IInv, TypeOK, Jobs
  <2>2. \A p \in job[t].did : stored[p] # Unset
    BY DEF IInv, TaskInv, DoneInv, Settled
  <2>3. Store!Promise(job[t].did)
    BY <1>1, <1>2, <2>2 DEF Store!Promise
  <2> QED BY <2>1, <2>3 DEF Store!Next
<1>3. CASE t # "terminal"
  BY <1>1, <1>3, QuietStore
<1> QED BY <1>2, <1>3

\* A restart: what was promised was settled, and the rest is in flash or not, but
\* never anything the table would have refused.
LEMMA DownStore == ASSUME IInv, Down, missing' = {} PROVE Store!Next
<1>1. durable' = stored' /\ acked' = acked
  BY DEF Down, history
<1>2. PICK lost \in SUBSET {p \in Params : stored[p] # durable[p]} :
        stored' = [p \in Params |-> IF p \in lost THEN durable[p] ELSE stored[p]]
  BY DEF Down
<1>3. /\ DOMAIN stored' = Params
      /\ \A p \in Params : stored'[p] = stored[p] \/ stored'[p] = durable[p]
  BY <1>2
<1>4. ASSUME NEW p \in Params PROVE stored'[p] \in AllowedValues(p) \cup {Unset}
  <2>1. /\ stored'[p] \in Values
        /\ stored'[p] # Unset =>
             IF p \in StringParams THEN stored'[p].kind = "string"
                                   ELSE stored'[p].kind = "int" /\ InRange(p, stored'[p].v)
    BY <1>3 DEF IInv, TypeOK, FlashInv, Fits
  <2> QED BY <2>1, FittingIsAllowed
<1>5. \A p \in acked : stored'[p] = stored[p]
  BY <1>3 DEF IInv, TypeOK, HistoryInv, Settled
<1>6. Store!Restart
  BY <1>1, <1>3, <1>4, <1>5 DEF Store!Restart, AllowedValues
<1> QED BY <1>6 DEF Store!Next

\* Asking is in vain only if something asked for has no value: the port as a number
\* is never found, and it never has one.
LEMMA AskStore ==
    ASSUME IInv, NEW strings \in SUBSET StringParams, NEW ints \in SUBSET (IntParams \cup {6}),
           Ask(strings, ints), stored' = stored, acked' = acked
    PROVE  Store!Next
<1>1. stored[6] = Unset /\ 6 \notin IntParams
  BY DEF IInv, FlashInv, IntParams
<1>2. (\A p \in strings : Found(p, "string")) <=> \A p \in strings : stored[p] # Unset
  BY DEF Found
<1>3. (\A p \in ints : Found(p, "int")) <=> \A p \in ints : stored[p] # Unset
  BY <1>1 DEF Found
<1>4. Store!Ask(strings \cup ints)
  BY <1>2, <1>3 DEF Ask, Store!Ask
<1>5. strings \cup ints \in SUBSET Params
  BY DEF Params, StringParams, IntParams
<1> QED BY <1>4, <1>5 DEF Store!Next

\* The queries, the tasks that ask, and the start ask.
LEMMA ReadStepStore == IInv /\ (Boot \/ Query \/ TaskReads) => Store!Next
<1> SUFFICES ASSUME IInv, Boot \/ Query \/ TaskReads PROVE Store!Next
    OBVIOUS
<1>1. stored' = stored /\ acked' = acked
  BY DEF Boot, Query, TaskReads, flash, history
<1>2. \/ Ask({2, 3}, {}) \/ Ask({9}, {}) \/ Ask({5}, {6}) \/ Ask({}, {8}) \/ Ask({7}, {8})
      \/ Ask({7}, {}) \/ Ask({}, {10})
  BY DEF Boot, Query, TaskReads, ReadHost, ReadSn, factory_test_is_enabled
<1>3. /\ {} \in SUBSET StringParams /\ {2, 3} \in SUBSET StringParams
      /\ {5} \in SUBSET StringParams /\ {7} \in SUBSET StringParams
      /\ {9} \in SUBSET StringParams
      /\ {} \in SUBSET (IntParams \cup {6}) /\ {6} \in SUBSET (IntParams \cup {6})
      /\ {8} \in SUBSET (IntParams \cup {6}) /\ {10} \in SUBSET (IntParams \cup {6})
  BY DEF StringParams, IntParams
<1> QED BY <1>1, <1>2, <1>3, AskStore

\* What begins a job, gives up a parameter or commits neither sets nor promises.
LEMMA WorkStore ==
    ASSUME Command \/ Release \/ (\E t \in Tasks : CommitOk(t) \/ SetRefused(t) \/ NvsFails(t)),
           missing' = {}
    PROVE  Store!Next
<1>1. CASE Command
  <2>1. stored' = stored /\ acked' = acked
    BY <1>1 DEF Command, Lpts1, Lpts3, Lpts4, Lpts5, Lpts7, Begin, flash, history
  <2> QED BY <2>1, QuietStore
<1>2. CASE Release
  <2>1. stored' = stored /\ acked' = acked
    BY <1>2 DEF Release, LongPress, FactoryReset, FactoryTest, Begin, flash, history
  <2> QED BY <2>1, QuietStore
<1>3. ASSUME NEW t \in Tasks, CommitOk(t) \/ SetRefused(t) \/ NvsFails(t)
      PROVE  Store!Next
  <2>1. stored' = stored /\ acked' = acked
    BY <1>3 DEF CommitOk, SetRefused, NvsFails, flash, history
  <2> QED BY <2>1, QuietStore
<1> QED BY <1>1, <1>2, <1>3

\* Two tasks that share one handle without a lock, errors of NVS and losses of power
\* make up a store that changes by allowed values only and keeps what it promised.
THEOREM SettingsIsParamStore == Spec => ImplementsParamStore
<1>1. Init => Store!Init
  BY DEF Init, Store!Init
<1>2. ASSUME IInv, [Next]_vars PROVE [Store!Next]_(Store!vars)
  <2>1. CASE Silent(Command \/ Release)
    BY <2>1, WorkStore DEF Silent
  <2>2. ASSUME NEW t \in Tasks, Silent(Step(t)) PROVE Store!Next
    BY <1>2, <2>2, SetOkStore, EndStore, WorkStore DEF Silent, Step
  <2>3. CASE Silent(PowerLoss) \/ \E t \in Tasks : Silent(Restart(t))
    BY <1>2, <2>3, DownStore DEF Silent, PowerLoss, Restart
  <2>4. CASE Boot \/ Query \/ TaskReads
    BY <1>2, <2>4, ReadStepStore
  <2>5. CASE UNCHANGED vars
    BY <2>5 DEF vars, flash, history, Store!vars
  <2> QED BY <1>2, <2>1, <2>2, <2>3, <2>4, <2>5 DEF Next
<1> QED BY <1>1, <1>2, SpecIInv, PTL DEF Spec, ImplementsParamStore, Store!Spec

=============================================================================
