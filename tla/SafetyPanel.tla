---------------------------- MODULE SafetyPanel -----------------------------
(***************************************************************************)
(* What the dashboard tells the operator (web/handlers_safety.py): the     *)
(* safety banner collapsed from five probes that may each fail, and the    *)
(* panel that names, per watchlist row, the gate that keeps the bot from   *)
(* buying - beside the gates the sweep itself goes through.                *)
(***************************************************************************)
EXTENDS Integers, FiniteSets

Probe == {"kill_switch", "heartbeats", "notifications", "positions", "broker_state"}

BeatState == {"ok", "absent", "stopped", "failed", "stale", "invalid", "skew"}
AlarmingStates == {"failed", "stale", "invalid", "skew"}

(***************************************************************************)
(* The banner.  s.read is the set of probes that answered; s.tripped are   *)
(* the markets whose loss breaker is on, s.held those with a position,     *)
(* s.armed, s.pending and s.bare count positions with a stop, with a stop  *)
(* intent and with neither.                                                *)
(***************************************************************************)
Probed ==
  [read : SUBSET Probe, kill : BOOLEAN, legacy : Nat, unresolved : Nat,
   tripped : SUBSET {"KR", "US"}, held : SUBSET {"KR", "US"}, enabled : BOOLEAN,
   armed : Nat, pending : Nat, bare : Nat, auto : BeatState, monitor : BeatState,
   channel : BOOLEAN]

When(condition, reason) == IF condition THEN {reason} ELSE {}

\* Breakers are asked for the markets that the position probe listed.
Breakers(s) == IF "positions" \in s.read THEN s.tripped \cap s.held ELSE {}

HaltReasons(s) ==
  When("kill_switch" \in s.read /\ s.kill, "kill switch") \cup
  (IF "broker_state" \in s.read
   THEN When(s.legacy > 0, "legacy") \cup When(s.unresolved > 0, "unresolved") \cup Breakers(s)
   ELSE {})

MutWarnReasons(s) ==
  When("kill_switch" \notin s.read, "kill switch unknown") \cup
  When("broker_state" \notin s.read, "orders unknown") \cup
  (IF "positions" \in s.read /\ s.enabled THEN When(s.pending > 0, "intent") ELSE {}) \cup
  (IF "heartbeats" \in s.read
   THEN When("notifications" \in s.read /\ s.auto = "ok" /\ ~ s.channel, "no channel") \cup
        When({s.auto, s.monitor} \cap AlarmingStates # {}, "heartbeat")
   ELSE {})

\* _overall
WarnReasons(s) ==
  When("kill_switch" \notin s.read, "kill switch unknown") \cup
  When("broker_state" \notin s.read, "orders unknown") \cup
  (IF "positions" \in s.read /\ s.enabled
   THEN When(s.pending + s.bare > 0, "unarmed") \cup When(s.pending > 0, "intent")
   ELSE {}) \cup
  (IF "heartbeats" \in s.read
   THEN When("notifications" \in s.read /\ s.auto = "ok" /\ ~ s.channel, "no channel") \cup
        When({s.auto, s.monitor} \cap AlarmingStates # {}, "heartbeat")
   ELSE {})

InfoReasons(s) ==
  When("heartbeats" \in s.read /\ "stopped" \in {s.auto, s.monitor}, "stopped")

Level(s) ==
  IF HaltReasons(s) # {} THEN "halted"
  ELSE IF WarnReasons(s) # {} THEN "warn"
  ELSE IF InfoReasons(s) # {} THEN "info" ELSE "ok"

(***************************************************************************)
(* The gates before a buy of row g.  A gate of the market passes, blocks   *)
(* or cannot be read.  Open positions and a held buy are counted in this   *)
(* account by the sweep, in all accounts of the queue by the panel.        *)
(***************************************************************************)
Gate == {"pass", "block", "failed"}

Gates ==
  [protected : BOOLEAN, open : Nat, elsewhere : Nat, max : Nat, session : Gate,
   regime : Gate, breaker : Gate, held : {"no", "here", "elsewhere"}, kill : BOOLEAN,
   halt : BOOLEAN, rejected : BOOLEAN, cooling : BOOLEAN]

\* handle_gates
PanelGate(g) ==
  CASE g.protected -> "protected"
    [] ~ g.protected /\ g.open + g.elsewhere >= g.max -> "full"
    [] OTHER ->
         IF g.session = "block" THEN "session"
         ELSE IF g.regime = "block" THEN "regime"
         ELSE IF g.breaker = "block" THEN "breaker"
         ELSE IF g.held # "no" THEN "held" ELSE "none"

\* run_auto_iteration, from the kill switch to a row free to be bought; what
\* cannot be read ends the iteration.
SweepGate(g) ==
  IF g.kill \/ g.halt THEN "halt"
  ELSE IF g.open >= g.max THEN "full"
  ELSE IF g.protected THEN "protected"
  ELSE IF g.session # "pass" THEN IF g.session = "block" THEN "session" ELSE "error"
  ELSE IF g.rejected THEN "rejection"
  ELSE IF g.regime # "pass" THEN IF g.regime = "block" THEN "regime" ELSE "error"
  ELSE IF g.breaker # "pass" THEN IF g.breaker = "block" THEN "breaker" ELSE "error"
  ELSE IF g.cooling THEN "cooldown"
  ELSE IF g.held = "here" THEN "held" ELSE "free"
=============================================================================
