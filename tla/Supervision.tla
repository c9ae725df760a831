---------------------------- MODULE Supervision ----------------------------
(***************************************************************************)
(* Who keeps the auto pilot running, and who notices when it does not run:  *)
(* the dashboard's AutoPilotState (web/autopilot_state.py) starts and stops *)
(* loop threads, every loop publishes its heartbeat in one file             *)
(* (auto/watchdog.py), and the watchdog process (cmd_watchdog of runner.py)  *)
(* reads the file and pages the operator through notify (notify.py), which  *)
(* drops a message it has sent too recently.                                *)
(*                                                                         *)
(* stop() only clears a flag, and start() only looks at the flag: a loop    *)
(* that has not yet seen the flag down lives on beside the next one.        *)
(***************************************************************************)
EXTENDS Integers, FiniteSets

CONSTANTS
  Loop,      \* loop threads that may live at once (a bound)
  Timeout,   \* age, in ticks, above which a heartbeat is stale
  MinTtl     \* the least time, in ticks, a page mutes its repetition

ASSUME SupervisionAssumption ==
  /\ IsFiniteSet(Loop)
  /\ Timeout \in Nat \ {0}
  /\ MinTtl \in Nat \ {0}

VARIABLES
  active,    \* AutoPilotState._active
  starting,  \* start() calls that have set the flag and not yet made a thread
  loop,      \* the step each loop thread has reached
  beat,      \* status and age of the heartbeat file
  prev,      \* previous of the watchdog: was the component well?
  since,     \* time since the page that mutes the next, Ttl when none does
  grace,     \* the watchdog is in its startup grace
  told,      \* ghost: this outage was paged, and the page delivered
  lost,      \* ghost: this outage's page was muted or not delivered
  overlap,   \* ghost: two loops have lived at once
  calm       \* no send fails, and no process dies or hangs any more

pilot    == <<active, starting, loop>>
watchdog == <<prev, since, grace, told, lost>>
vars     == <<pilot, beat, watchdog, overlap, calm>>

MutTtl == Timeout + 2 * MinTtl

\* dedupe_ttl of the page
Ttl == IF Timeout < MinTtl THEN MinTtl ELSE Timeout

LoopStep == {"none", "new", "check", "sweep", "swept", "wait", "rest", "exit", "hung"}
Status   == {"absent", "starting", "scanning", "idle", "failed", "stopped"}

Alive(l) == loop[l] # "none"

TypeOK ==
  /\ active \in BOOLEAN
  /\ starting \in 0 .. Cardinality(Loop)
  /\ starting + Cardinality({l \in Loop : Alive(l)}) <= Cardinality(Loop)
  /\ loop \in [Loop -> LoopStep]
  /\ beat \in [status : Status, age : 0 .. Timeout + 1]
  /\ prev \in {"none", "well", "failing"}
  /\ since \in 0 .. Ttl
  /\ {grace, told, lost, overlap, calm} \subseteq BOOLEAN
  /\ (told \/ lost) => prev = "failing"

Init ==
  /\ active = FALSE
  /\ starting = 0
  /\ loop = [l \in Loop |-> "none"]
  /\ beat = [status |-> "absent", age |-> 0]
  /\ prev = "none" /\ since = Ttl /\ grace = TRUE
  /\ told = FALSE /\ lost = FALSE
  /\ overlap = FALSE
  /\ calm = FALSE

-----------------------------------------------------------------------------
(* AutoPilotState, called by the web handlers *)

\* Under the lock: refuse when active, else set the flag.
Start ==
  /\ ~active
  /\ starting + Cardinality({l \in Loop : Alive(l)}) < Cardinality(Loop)
  /\ active' = TRUE
  /\ starting' = starting + 1
  /\ UNCHANGED <<loop, beat, watchdog, overlap, calm>>

\* Outside the lock: the thread is made.
Spawn(l) ==
  /\ starting > 0
  /\ loop[l] = "none"
  /\ starting' = starting - 1
  /\ loop' = [loop EXCEPT ![l] = "new"]
  /\ overlap' = (overlap \/ \E k \in Loop : Alive(k))
  /\ UNCHANGED <<active, beat, watchdog, calm>>

\* stop() leaves the heartbeat to the loop.
StopBeat == beat

Stop ==
  /\ active
  /\ active' = FALSE
  /\ beat' = StopBeat
  /\ UNCHANGED <<starting, loop, watchdog, overlap, calm>>

-----------------------------------------------------------------------------
(* AutoPilotState._loop *)

Step(l, from, to) == loop[l] = from /\ loop' = [loop EXCEPT ![l] = to]

Publish(status) == beat' = [status |-> status, age |-> 0]

Quietly == UNCHANGED <<active, starting, watchdog, overlap, calm>>

Boot(l)     == Step(l, "new", "check") /\ Publish("starting") /\ Quietly

\* load_config raises: the thread dies, the flag stays up.
BootFail(l) == Step(l, "new", "none") /\ ~calm /\ UNCHANGED beat /\ Quietly

MutGoOn == TRUE

\* The condition of the while loop.
GoOn == active

Scan(l)  == GoOn /\ Step(l, "check", "sweep") /\ Publish("scanning") /\ Quietly
Leave(l) == ~GoOn /\ Step(l, "check", "exit") /\ UNCHANGED beat /\ Quietly

Swept(l) == Step(l, "sweep", "swept") /\ UNCHANGED beat /\ Quietly

\* An exception of the sweep: failed, five seconds of rest, and the next pass.
Raise(l) == Step(l, "sweep", "rest") /\ Publish("failed") /\ Quietly
Rest(l)  == Step(l, "rest", "check") /\ UNCHANGED beat /\ Quietly

\* A call of the sweep never returns.
Hang(l)  == ~calm /\ Step(l, "sweep", "hung") /\ UNCHANGED beat /\ Quietly

Idle(l) ==
  /\ IF active THEN Step(l, "swept", "wait") /\ Publish("idle")
               ELSE Step(l, "swept", "check") /\ UNCHANGED beat
  /\ Quietly

WaitOn(l) == loop[l] = "wait" /\ active /\ Publish("idle") /\ UNCHANGED loop /\ Quietly
Wake(l)   == Step(l, "wait", "check") /\ UNCHANGED beat /\ Quietly

Exit(l)   == Step(l, "exit", "none") /\ Publish("stopped") /\ Quietly

LoopSteps(l) ==
  \/ Boot(l) \/ Scan(l) \/ Leave(l) \/ Swept(l) \/ Raise(l) \/ Rest(l)
  \/ Idle(l) \/ Wake(l) \/ Exit(l)

\* The web server dies with its threads; only the heartbeat file survives.
Die ==
  /\ ~calm
  /\ active' = FALSE
  /\ starting' = 0
  /\ loop' = [l \in Loop |-> "none"]
  /\ UNCHANGED <<beat, watchdog, overlap, calm>>

-----------------------------------------------------------------------------
(* The watchdog and notify.  The message of a recovery is left out: it mutes *)
(* nothing but itself.                                                      *)

\* check_heartbeat
Health ==
  CASE beat.status \in {"absent", "stopped", "failed"} -> beat.status
    [] OTHER -> IF beat.age > Timeout THEN "stale" ELSE "ok"

Failing == Health \in {"failed", "stale", "absent"}

Muted == since < Ttl

MutRemember(failing) ==
  /\ prev' = IF Health = "ok" THEN "well" ELSE "failing"
  /\ UNCHANGED <<pilot, beat, grace, overlap, calm>>

\* previous[component] = not failing
Remember(failing) ==
  /\ prev' = IF failing THEN "failing" ELSE "well"
  /\ UNCHANGED <<pilot, beat, grace, overlap, calm>>

CheckWell ==
  /\ ~Failing
  /\ Remember(FALSE)
  /\ told' = FALSE /\ lost' = FALSE
  /\ UNCHANGED since

\* In the grace, a component without a heartbeat is passed over; an outage that
\* was already taken note of is not paged again.
Pages == Failing /\ ~(grace /\ Health = "absent") /\ prev # "failing"

PageMuted == Pages /\ Muted /\ Remember(TRUE) /\ lost' = TRUE /\ UNCHANGED <<since, told>>

PageSent == Pages /\ ~Muted /\ Remember(TRUE) /\ since' = 0 /\ told' = TRUE /\ UNCHANGED lost

\* The network fails and the mute is taken back, or the API answers not ok and
\* it stays; the watchdog has taken note of the outage either way.
PageFails ==
  /\ ~calm
  /\ Pages /\ ~Muted
  /\ Remember(TRUE)
  /\ since' \in {0, Ttl}
  /\ lost' = TRUE
  /\ UNCHANGED told

GraceEnds ==
  /\ grace
  /\ grace' = FALSE
  /\ UNCHANGED <<pilot, beat, prev, since, told, lost, overlap, calm>>

\* The watchdog starts anew: nothing is remembered.
Restart ==
  /\ ~calm
  /\ prev' = "none" /\ since' = Ttl /\ grace' = TRUE
  /\ told' = FALSE /\ lost' = FALSE
  /\ UNCHANGED <<pilot, beat, overlap, calm>>

Tick ==
  /\ beat' = [beat EXCEPT !.age = IF @ > Timeout THEN @ ELSE @ + 1]
  /\ since' = IF since < Ttl THEN since + 1 ELSE since
  /\ UNCHANGED <<pilot, prev, grace, told, lost, overlap, calm>>

CalmDown == ~calm /\ calm' = TRUE /\ UNCHANGED <<pilot, beat, watchdog, overlap>>

-----------------------------------------------------------------------------
Check == CheckWell \/ PageMuted \/ PageSent \/ PageFails

Next ==
  \/ Start \/ Stop \/ \E l \in Loop : Spawn(l)
  \/ \E l \in Loop : LoopSteps(l) \/ BootFail(l) \/ Hang(l) \/ WaitOn(l)
  \/ Die
  \/ Check \/ GraceEnds \/ Restart
  \/ Tick \/ CalmDown

Spec == Init /\ [][Next]_vars

\* Threads and the watchdog are scheduled, a sweep that has not hung returns, a
\* wait ends, time passes, and failures stop at some point.
Fairness ==
  /\ WF_vars(\E l \in Loop : Spawn(l))
  /\ \A l \in Loop : WF_vars(LoopSteps(l))
  /\ WF_vars(Check) /\ WF_vars(GraceEnds) /\ WF_vars(Tick) /\ WF_vars(CalmDown)

FairSpec == Spec /\ Fairness

-----------------------------------------------------------------------------
(* Properties *)

\* Nothing hides a silence from the watchdog.  A stale heartbeat is always paged
\* afresh: however often the component came back and fell silent again, the mute
\* of the last page has run out by the time the new silence is noticed
\* (dedupe_ttl against the timeout; a timeout below the least mute, a minute,
\* would break it, the defaults of 420 and 60 seconds do not).  And while a loop
\* runs, the heartbeat says "stopped" only if two loops have lived at once: it is
\* then the farewell of the other, behind which a hang goes unnoticed.
SilenceNotMasked ==
  /\ Health = "stale" /\ prev # "failing" => ~Muted
  /\ beat.status = "stopped" /\ (\E l \in Loop : loop[l] \notin {"none", "new", "exit"})
       => overlap

\* stop() stops: once the flag stays down, every loop that does not hang ends,
\* those of overlapping starts too.
StopStops == <>[]~active => <>[](\A l \in Loop : loop[l] \in {"none", "hung"})

\* Nobody will ever write the heartbeat again, and the last word was not stopped.
Silent ==
  /\ starting = 0
  /\ \A l \in Loop : loop[l] \in {"none", "hung"}
  /\ beat.status # "stopped"

\* A silence that lasts reaches the operator, or its page was tried and lost.
SilencePagedOrLost == <>[]Silent => <>[](told \/ lost)

=============================================================================
