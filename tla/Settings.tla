------------------------------ MODULE Settings ------------------------------
(***************************************************************************)
(* The parameters in flash and the two tasks that write them:               *)
(* src/src/config/param_manager.c, the LPTS commands of                     *)
(* src/src/shell/terminal_service.c (run by the UART receive task) and      *)
(* src/src/tasks/button_task.c.                                             *)
(*                                                                         *)
(* Setting a parameter is validation, nvs_set_*() and nvs_commit().  Both   *)
(* tasks share one NVS handle and take no lock between the two calls; the   *)
(* power may go at any time.  NVS is not part of the repository: a value    *)
(* that is set is what reads return from then on, and survives a restart    *)
(* for certain only once a commit has succeeded.                            *)
(*                                                                         *)
(* What a string says is abstracted to whether it is the factory's or the    *)
(* user's; terminal strings always fit (scanned with a width).  What is read *)
(* is not kept, but what was not found is, until the next step.              *)
(***************************************************************************)
EXTENDS Integers, Sequences

CONSTANTS
    Periods,     \* numbers a user may type for a period or port
    PressMs,     \* how long a user may press the button
    MaxErrors,   \* bound: errors nvs_set_*() and nvs_commit() return
    MaxJobs      \* bound: commands typed and presses of the button

ASSUME PeriodsAssumption == Periods \subseteq Int
ASSUME PressMsAssumption == PressMs \subseteq Nat
ASSUME MaxErrorsAssumption == MaxErrors \in Nat
ASSUME MaxJobsAssumption == MaxJobs \in Nat

VARIABLES
    up,         \* the firmware runs (FALSE from esp_restart() or power loss to boot)
    stored,     \* what param_get_*() finds in NVS
    durable,    \* what is certain to be found after a restart
    job,        \* what each task still has to set, and how it goes on
    pc,         \* where each task is
    errors,     \* errors NVS has returned so far
    jobs,       \* commands typed and presses so far
    missing,    \* what was asked for in vain in the last step
    acked,      \* history: parameters of the last command answered OK, not set again since
    reset       \* history: a factory reset came to its end undisturbed

flash   == <<stored, durable>>
history == <<acked, reset>>
vars    == <<up, flash, job, pc, errors, jobs, missing, history>>

Tasks == {"terminal", "button"}

-----------------------------------------------------------------------------
(* s_param_metadata: the parameters that any code sets *)

StringParams == {2, 3, 5, 6, 7, 9}   \* SSID, password, host, port, serial number, name
IntParams    == {8, 10}              \* query period, factory test flag
Params       == StringParams \cup IntParams

InRange(p, n) == IF p = 8 THEN 1000 <= n /\ n <= 60000 ELSE 0 <= n /\ n <= 1

Str(v) == [kind |-> "string", v |-> v]
Num(n) == [kind |-> "int", v |-> n]
Unset  == [kind |-> "none", v |-> 0]

FactoryText == Str(0)
UserText    == Str(1)

FactoryPort == 4348

Values == {Unset, FactoryText, UserText} \cup {Num(n) : n \in Periods \cup {0, 1, FactoryPort}}

\* What button_factory_reset() sets, in this order.
FactoryPlan == << <<2, FactoryText>>, <<3, FactoryText>>, <<5, FactoryText>>,
                  <<6, Num(FactoryPort)>>, <<10, Num(0)>> >>

\* A task without work.  strict: the first error ends the job.  did: what the job
\* has set and committed, and no one has set since.
NoJob == [todo |-> <<>>, did |-> {}, strict |-> TRUE, then |-> "idle", clean |-> TRUE]

Jobs == [todo : Seq(Params \X Values), did : SUBSET Params, strict : BOOLEAN,
         then : {"idle", "restart", "resetRestart"}, clean : BOOLEAN]

TypeOK ==
    /\ up \in BOOLEAN
    /\ stored \in [Params -> Values]
    /\ durable \in [Params -> Values]
    /\ job \in [Tasks -> Jobs]
    /\ pc \in [Tasks -> {"idle", "set", "commit", "end", "restart"}]
    /\ errors \in 0 .. MaxErrors
    /\ jobs \in 0 .. MaxJobs
    /\ missing \in SUBSET Params
    /\ acked \in SUBSET Params
    /\ reset \in BOOLEAN

Init ==
    /\ up = TRUE
    /\ stored = [p \in Params |-> Unset]
    /\ durable = [p \in Params |-> Unset]
    /\ job = [t \in Tasks |-> NoJob]
    /\ pc = [t \in Tasks |-> "idle"]
    /\ errors = 0
    /\ jobs = 0
    /\ missing = {}
    /\ acked = {}
    /\ reset = FALSE

Goto(t, from, to) == up /\ pc[t] = from /\ pc' = [pc EXCEPT ![t] = to]

Begin(t, todo, strict, then) ==
    /\ Goto(t, "idle", "set")
    /\ jobs < MaxJobs
    /\ jobs' = jobs + 1
    /\ job' = [job EXCEPT ![t] = [todo |-> todo, did |-> {}, strict |-> strict,
                                  then |-> then, clean |-> TRUE]]
    /\ UNCHANGED <<up, flash, errors, history>>

-----------------------------------------------------------------------------
(* Variants of single steps, each with one mistake a change to the code      *)
(* could make.  No specification uses them: every property below is checked  *)
(* to fail when its variant takes the place of the step.                     *)

\* Testing the type of a parameter and not the range.
ValidByType(p, value) ==
    IF value.kind = "string" THEN p \in StringParams ELSE p \in IntParams

\* A command that ends neither with its answer nor in a restart.
Lpts5Halts == Begin("terminal", << <<10, Num(0)>> >>, TRUE, "halt")

\* Setting without nvs_commit().
CommitForgotten(t) ==
    /\ Goto(t, "commit", IF Len(job[t].todo) = 1 THEN "end" ELSE "set")
    /\ job' = [job EXCEPT ![t].todo = Tail(@), ![t].did = @ \cup {Head(job[t].todo)[1]}]
    /\ UNCHANGED <<up, flash, errors, jobs, history>>

\* A factory reset that gives up at the first parameter it cannot set.
FactoryResetStrict == Begin("button", FactoryPlan, TRUE, "resetRestart")

\* One that leaves the password of the WiFi as it is.
FactoryResetKeepsPassword ==
    Begin("button", << Head(FactoryPlan) >> \o SubSeq(FactoryPlan, 3, 5), FALSE, "resetRestart")

\* Reading every parameter as a text.
FoundAsText(p, kind) == p \in StringParams /\ stored[p] # Unset

-----------------------------------------------------------------------------
(* The commands of the terminal and what the button does *)

Lpts1 == Begin("terminal", << <<9, UserText>> >>, TRUE, "idle")

\* The tests the commands make themselves.
IsPort(n)   == 0 < n /\ n <= 65535
IsPeriod(n) == 1000 <= n /\ n <= 60000

\* The port goes to param_set_int(), though parameter 6 is a string.
Lpts3 == \E n \in Periods :
    /\ IsPort(n)
    /\ Begin("terminal", << <<5, UserText>>, <<6, Num(n)>> >>, TRUE, "idle")

Lpts4 == \E n \in Periods :
    /\ IsPeriod(n)
    /\ Begin("terminal", << <<8, Num(n)>> >>, TRUE, "idle")

Lpts5 == Begin("terminal", << <<10, Num(0)>> >>, TRUE, "restart")

\* No test of the number here: it is param_set_int() that refuses it.
Lpts7 == \E n \in Periods :
    Begin("terminal", << <<7, UserText>>, <<8, Num(n)>> >>, TRUE, "idle")

\* A command whose arguments do not parse, or are out of its own bounds, is
\* answered Fail and changes nothing.
Command == Lpts1 \/ Lpts3 \/ Lpts4 \/ Lpts5 \/ Lpts7

\* Every parameter is set whatever became of the one before; then esp_restart().
FactoryReset == Begin("button", FactoryPlan, FALSE, "resetRestart")

FactoryTest == Begin("button", << <<10, Num(1)>> >>, FALSE, "idle")

LongPress ==
    /\ Goto("button", "idle", "restart")
    /\ jobs < MaxJobs
    /\ jobs' = jobs + 1
    /\ UNCHANGED <<up, flash, job, errors, history>>

\* button_task on release; less than 100 ms does nothing.
Release == \E ms \in PressMs :
    \/ ms >= 1000 /\ LongPress
    \/ ms < 1000 /\ ms >= 500 /\ FactoryReset
    \/ ms < 500 /\ ms >= 100 /\ FactoryTest

-----------------------------------------------------------------------------
(* param_set_string() and param_set_int() *)

\* The tests of param_set_string() and param_set_int().
Valid(p, value) ==
    IF value.kind = "string" THEN p \in StringParams
                             ELSE p \in IntParams /\ InRange(p, value.v)

Param(t) == Head(job[t].todo)[1]
Value(t) == Head(job[t].todo)[2]

\* Where a task goes after a parameter that is dealt with.
Onward(t) == IF Len(job[t].todo) = 1 THEN "end" ELSE "set"

SetOk(t) ==
    /\ Goto(t, "set", "commit")
    /\ Valid(Param(t), Value(t))
    /\ stored' = [stored EXCEPT ![Param(t)] = Value(t)]
    /\ acked' = acked \ {Param(t)}
    /\ reset' = FALSE
    /\ job' = [u \in Tasks |->
                [job[u] EXCEPT !.did = @ \ {Param(t)}, !.clean = @ /\ u = t]]
    /\ UNCHANGED <<up, durable, errors, jobs>>

\* nvs_commit() makes all that was set durable, whoever set it.
CommitOk(t) ==
    /\ Goto(t, "commit", Onward(t))
    /\ durable' = stored
    /\ job' = [job EXCEPT ![t].todo = Tail(@), ![t].did = @ \cup {Param(t)}]
    /\ UNCHANGED <<up, stored, errors, jobs, history>>

\* A parameter that could not be set: a strict job answers Fail and ends, the
\* other goes on with the next.
GiveUp(t, from, clean) ==
    IF job[t].strict
      THEN Goto(t, from, "idle") /\ job' = [job EXCEPT ![t] = NoJob]
      ELSE /\ Goto(t, from, Onward(t))
           /\ job' = [job EXCEPT ![t].todo = Tail(@), ![t].clean = @ /\ clean]

SetRefused(t) ==
    /\ GiveUp(t, "set", TRUE)
    /\ ~Valid(Param(t), Value(t))
    /\ UNCHANGED <<up, flash, errors, jobs, history>>

\* nvs_set_*() or nvs_commit() fails; what was set stays set.
NvsFails(t) ==
    /\ GiveUp(t, "set", FALSE) \/ GiveUp(t, "commit", FALSE)
    /\ Valid(Param(t), Value(t))
    /\ errors < MaxErrors
    /\ errors' = errors + 1
    /\ UNCHANGED <<up, flash, jobs, history>>

\* The job is done: the terminal answers, and some jobs restart 100 ms later.
End(t) ==
    /\ Goto(t, "end", IF job[t].then = "idle" THEN "idle" ELSE "restart")
    /\ job' = [job EXCEPT ![t] = NoJob]
    /\ acked' = IF t = "terminal" THEN job[t].did ELSE acked
    /\ reset' = (reset \/ (job[t].then = "resetRestart" /\ job[t].clean))
    /\ UNCHANGED <<up, flash, errors, jobs>>

Step(t) == SetOk(t) \/ CommitOk(t) \/ SetRefused(t) \/ NvsFails(t) \/ End(t)

-----------------------------------------------------------------------------
(* param_get_string() and param_get_int().  For a parameter nobody has set    *)
(* they return its default and ESP_ERR_NOT_FOUND; one of the other type is    *)
(* refused.  NVS finds what it has stored.                                   *)

Found(p, kind) ==
    /\ p \in (IF kind = "string" THEN StringParams ELSE IntParams)
    /\ stored[p] # Unset

\* Asking for several parameters is in vain if one of them is not found.
Ask(strings, ints) ==
    missing' = IF /\ \A p \in strings : Found(p, "string")
                  /\ \A p \in ints : Found(p, "int")
               THEN {} ELSE strings \cup ints

\* The LPTQ commands that read parameters; the others answer without.  LPTQ2 asks
\* for the port as a number and is answered ERROR whatever is stored.
Query ==
    /\ up /\ pc["terminal"] = "idle"
    /\ \/ Ask({9}, {})        \* LPTQ1
       \/ Ask({5}, {6})       \* LPTQ2
       \/ Ask({}, {8})        \* LPTQ4
       \/ Ask({7}, {8})       \* LPTQ7
    /\ UNCHANGED <<up, flash, job, pc, errors, jobs, history>>

\* The client asks for host and port before it dials, and for the serial number
\* before the handshake; it has a default for each.
ReadHost == Ask({5}, {6})
ReadSn   == Ask({7}, {})

\* The LED task asks for the factory test flag in every pass.
factory_test_is_enabled == Ask({}, {10})

TaskReads ==
    /\ up
    /\ ReadHost \/ ReadSn \/ factory_test_is_enabled
    /\ UNCHANGED <<up, flash, job, pc, errors, jobs, history>>

-----------------------------------------------------------------------------
(* Restart: esp_restart() or power loss.  What was set and not committed may *)
(* be found afterwards or not.                                               *)

Down ==
    /\ up' = FALSE
    /\ \E lost \in SUBSET {p \in Params : stored[p] # durable[p]} :
        stored' = [p \in Params |-> IF p \in lost THEN durable[p] ELSE stored[p]]
    /\ durable' = stored'
    /\ job' = [t \in Tasks |-> NoJob]
    /\ pc' = [t \in Tasks |-> "idle"]
    /\ UNCHANGED <<errors, jobs, history>>

Restart(t) == up /\ pc[t] = "restart" /\ Down

PowerLoss == up /\ Down

\* app_main(); wifi_configure_sta() leaves the station alone unless both its name
\* and its password are found.
Boot ==
    /\ ~up
    /\ up' = TRUE
    /\ Ask({2, 3}, {})
    /\ UNCHANGED <<flash, job, pc, errors, jobs, history>>

-----------------------------------------------------------------------------
\* The steps that read nothing.
Silent(A) == A /\ missing' = {}

Next ==
    \/ Silent(Command \/ Release)
    \/ \E t \in Tasks : Silent(Step(t)) \/ Silent(Restart(t))
    \/ Silent(PowerLoss)
    \/ Boot \/ Query \/ TaskReads

Spec == Init /\ [][Next]_vars

\* Ready tasks run; the device boots; nobody has to type, press or pull the plug.
Fairness == \A t \in Tasks : WF_vars(Silent(Step(t))) /\ WF_vars(Silent(Restart(t)))

FairSpec == Spec /\ Fairness /\ WF_vars(Boot)

-----------------------------------------------------------------------------
(* Properties *)

\* Whatever two tasks set and whenever the power goes, a parameter that is in
\* flash has its own type, and a value that its range allows.
FlashFitsMetadata ==
    \A p \in Params : stored[p] # Unset =>
        IF p \in StringParams THEN stored[p].kind = "string"
                              ELSE stored[p].kind = "int" /\ InRange(p, stored[p].v)

\* A parameter of a command answered OK survives a restart, until it is set again.
OkMeansDurable == \A p \in acked : durable[p] = stored[p]

\* What was answered OK is found by whoever asks for it, across restarts and loss
\* of power, until it is set again.
AcknowledgedIsFound ==
    missing # {} => ~(missing \subseteq acked)

Store == INSTANCE ParamStore WITH
            Allowed <- [p \in Params |-> {v \in Values \ {Unset} : Valid(p, v)}],
            value <- stored,
            promised <- acked

\* Two tasks over one handle, errors of NVS and losses of power make up a store
\* that keeps what it has promised until it is set anew.
ImplementsParamStore == Store!Spec

\* A factory reset that came to its end undisturbed leaves the factory's WiFi and
\* host behind for good, and the station is configured at every start.
ResetConfiguresStation ==
    reset => /\ \A p \in {2, 3, 5} : stored[p] = FactoryText /\ durable[p] = FactoryText
             /\ missing # {2, 3}

\* A factory reset ends in a restart, even if none of its parameters can be set.
ResetEndsInRestart == (job["button"].then = "resetRestart") ~> ~up

-----------------------------------------------------------------------------
(* Statements of comments the code does not keep *)

\* "Sets all parameters to factory defaults": after an undisturbed factory reset
\* no parameter the user has set is left.
FactoryResetRestoresDefaults ==
    reset => \A p \in StringParams : stored[p] # UserText

=============================================================================
